# TLA+ models of go-spiffe

go-spiffe is the Go library for SPIFFE workloads. It fetches and watches
identity material (X.509-SVIDs, JWT-SVIDs, WIT-SVIDs and trust bundles) from the
Workload API, keeps it current in *sources*, serves and polls federated trust
bundles, and configures TLS and gRPC with all of that. This directory models the
parts of it that keep state and run concurrently, checks them with TLC on small
instances, and proves their safety properties with TLAPS for every instance.

## Inventory

| Component | State | Operations | What makes it correct |
|---|---|---|---|
| Watch loops and backoff (`workloadapi/client.go`, `backoff.go`) | stream, `linearBackoff.n` | `Watch*`, `watch*`, `handleWatchError`, `Next`, `Reset` | retries until a fatal status; never delivers after returning or goes back; backoff counts failures in a row; returns when the context is done |
| Watcher (`watcher.go`) | notification channel, `errCh`, `closed`, `closeErr`, `closeMtx`, wait group | `newWatcher`, `On*Update`, `triggerUpdated`, `drainUpdated`, `waitUntilUpdated`, `closeBase` | complete material after construction, no spurious and no lost notification, no leak, idempotent Close that returns |
| X509Source, JWTSource, BundleSource, WITSource | material under a mutex, closed flag | constructors, getters, `WaitUntilUpdated`, `Updated`, `Close` | getters fail after Close; a consumer that waits is never left with old material |
| `spiffebundle.Bundle`, `Set` | authorities, refresh hint, sequence number under a `RWMutex` | accessors, mutators, `Get*ForTrustDomain`, `Equal`, `Marshal`, `Parse` | no data race, every call returns; a document keeps what it carries |
| Federation (`federation/`) | `latestBundle`, timer | handler, `FetchBundle`, `WatchBundle` | OnUpdate exactly on changes, catches up, honours the hint, returns when cancelled |
| Response parsing and one-shot calls (`client.go`, `convenience.go`) | a client per call | `New`, `Fetch*`, `Validate*`, `parse*`, `Close` | hint and bundle precedence, all-or-nothing, the right client closed |
| `x509bundle`, `jwtbundle`, `witbundle` | as `spiffebundle` | as `spiffebundle` | copies in and out, no data race |
| `spiffeid` | an ID: its text and where the path starts | `FromString`, `FromPath`, `FromSegments`, `Append*`, `Replace*`, `UnmarshalText`, `TrustDomainFromString` | the accepted texts are those of the grammar; every ID that can be built is split where parsing would split it |
| `x509svid`, `jwtsvid`, `witsvid` (with `internal/pemutil`) | none | `Load`, `Parse*`, `Marshal`, `Verify` | the functions agree with each other; an SVID is vouched for by its own trust domain; tokens of two kinds are never confused |
| `tlsconfig`, `spiffetls`, `grpccredentials` | TLS configuration, an owned source | hooks, `Dial`, `Listen`, `Close` | peers are authorised against current bundles; an owned source is closed exactly once |

How they interact: a constructor creates a client (unless given one) and starts
one goroutine per kind of material, each inside a `Watch*` call. The watch loop
calls back into the source, which stores the material under its mutex, puts a
notification into a one-slot channel and, the first time, closes a channel the
constructor waits for. Application goroutines call getters, wait for
notifications, and call Close, which cancels the watches, waits for the
goroutines and closes an owned client. The hard behaviours are the
interleavings of these goroutines, constructors that fail half way, streams
that break, and timers racing with contexts. `PROJECT.json` lists each hazard at
its line.

## Modules

| Module | Models | State and actions |
|---|---|---|
| `WatchContract` | what a `Watch*` call promises | abstract: `watching`, `delivered`, `stop`, `fatal`; `Update`, `Stop`, `Fatal`, `Return` |
| `WatchLoop` | the five `Watch*` methods with backoff | `pc` follows open / recv / handle / sleep; one action per outcome of opening, `Recv`, `handleWatchError` and its `select`. Server, network, context and `Client.Close` are the environment. Implements `WatchContract` |
| `Watcher` | `watcher.go`, and `WITSource`'s use of `watcherBase` | the constructor (`pc`, `started`, `waited`), one goroutine per kind (`gpc`, `ver`, `isSet`), `errCh`, the notification slot, and any number of callers of Close (`cpc`) |
| `Source` | the four sources on top of `Watcher` (EXTENDS it) | the closed flag, and consumers that read every kind, wait and read again |
| `BundleLocks` | the locks of `spiffebundle`, `x509bundle`, `jwtbundle`, `witbundle` and of the sources that hold sets | a method is its sequence of lock operations and accesses, also where it accesses without a lock (`Unlocked`); Go's `RWMutex` is modelled from its documentation |
| `BundleValues` | what `BundleSource` and the bundles promise about authorities | abstract: every place that holds authorities has a value of its own (`val`) |
| `BundleStore` | `BundleSource`'s maps, the bundles made of them, the application's lists | slices and maps as references (`refs`) to cells (`heap`); one action per constructor, conversion, accessor and mutator. Implements `BundleValues` |
| `SpiffeID` | `spiffeid`: scanners and ways of making an ID, in both builds | an ID is its text and `pathidx`; the loops of `FromString`, `ValidatePath`, `JoinPathSegments` and `TrustDomainFromString` take one step per character |
| `SVIDs` | `x509svid`, `jwtsvid`, `witsvid`, `pemutil` (EXTENDS `SpiffeID`) | one document and what each function made of it (`outcome`); the ID in it is scanned by the steps of `SpiffeID` |
| `Federation` | handler, `FetchBundle`, `WatchBundle`, `Marshal`, `Parse` | the served bundle, the reply, `latestBundle`, the timer |
| `Responses` | the functions of `convenience.go`, `New`, `Client.Fetch*`, `ValidateJWTSVID` and the `parse*` functions | the client and stream in use (`open`), the response, the loop index, the hints seen, the SVIDs and bundles so far; one action per outcome of a loop iteration. The X.509, JWT and WIT variants share their control |
| `SpiffeTLS` | `DialWithMode`, `ListenWithMode`, the modes, the `Hook*` functions of `tlsconfig`, `Close` | an endpoint is one call and what it returns (`pc`, `inner`); mode objects with their `bundle` and `svid` fields, sources, and TLS configurations, with the chain of verifiers in `VerifyPeerCertificate` and the callbacks of the application (`Brings`) |
| `SourceProofs` (also about `Watcher`), `WatchLoopProofs`, `BundleStoreProofs`, `BundleLocksProofs`, `FederationProofs`, `ResponsesProofs`, `SpiffeTLSProofs`, `IdentitiesProofs` (about `SpiffeID` and `SVIDs`) | theorems about the module of that name | |
| `MC*` | instances for TLC | |

Abstractions. Material is a version number: the properties only compare what is
older, newer or absent. Statuses without special treatment are one value,
`Other`. A step ends where another goroutine can see a difference: a mutex, a
channel operation, a context check. The data race of `X509Source` and
`JWTSource` on `s.bundles` is a choice: an unlocked read returns any version
from the newest one that happened before it (`floor`, carried by the
notifications in `stamp`) to the current one. In `WatchLoop`, `n` stops at
`Saturated`, beyond which `Next` returns the same delay. `cancelled` in
`Watcher` is also set by a Close whose `cancel` is still the no-op of
`newWatcherBase`; no watch exists then. In `SpiffeID` a text is a sequence of
character classes, the scheme's letters being one character. In `SVIDs` a
certificate, a key and a token are records of what the code tests; which
authorities a chain leads to and who made a signature are attributes of the
document, since the cryptography is external. In `BundleStore` an operation is
one step, which `BundleLocks` justifies; a cell that nothing refers to is
reused. Definitions whose comment begins with "Mutant" are deliberate faults: each
property is shown to fail when one replaces the definition after it.

## Runs

| Run | Asks |
|---|---|
| `watch_loop` | for all five methods: backoff, refinement of `WatchContract`, arrival of material |
| `source_bundle` | a `BundleSource` that owns its client: its watcher with both watches, two concurrent closers, and a consumer; construction, notifications, Close and getters |
| `source_wit` | a `WITSource`, where construction and Close differ: watches started together, getters that wait for the mutex of Close; the inductive invariant of the proofs; termination of Close and of the getters |
| `bundle_locks` | for all methods of the five packages except the nested ones (below): that the only accesses that race are the reads of the methods that take no lock, `Equal` and the bundle getters of `X509Source` and `JWTSource`; that every call returns |
| `federation` | updates exactly on changes, while the watcher leaves its bundles alone; whatever it does with them, that the hint arrives, less than a second off and never turned into zero, that changes arrive, and cancellation |
| `responses` | which SVIDs and bundles each call returns, when it refuses a response, and that exactly the client it made is closed |
| `spiffetls` | who closes what on each failure and on Close; whether handshakes find live sources and follow the mode and no other, when a mode object is reused, when there is a base configuration with callbacks of the application, and when that is reused |
| `identities` | that every function of `spiffeid` accepts exactly the grammar and every ID it makes is well formed; that the readers of SVIDs agree with each other, validate against the right trust domain and never take a token of one kind for the other |
| `bundle_store` | that a `BundleSource` serves what was sent last, and that references behave as values would, whatever the application edits |
| `source_wait_closed`, `source_unlocked_read`, `bundle_locks_nested` | expected violations, below |

Bounds. Two kinds are all a source ever has. Two closers and the constructor are
enough for one caller to hold the mutex while another waits and a third comes
late. Two versions in `Source` let an update be merged with a pending
notification; three in `WatchLoop` let another follow, and one of them is
malformed. Four failures against a delay that saturates after three reach the
cap and a reset. One consumer in `Source`: consumers share a
single notification slot, so one that waits can rely on a notification only if
no other takes it, and the property is about a sole consumer. Three goroutines
in `BundleLocks` give a reader, a writer and another of either; they use one
package at a time, as no method of one locks a bundle of another while holding
a lock, except through a source, which is a package of its own here. In
`Federation` two authorities, two changes and two failures, a hint of zero, of
half a second and of two seconds, at two ticks per second. `Responses` has three
SVIDs, enough for a duplicate that is not adjacent, one hint beside the empty
one, and four keys, of which two spell one trust domain and one spells none.
In `SpiffeTLS` there are two mode objects, with every constructor of `mode.go` for
both, and two calls with each; two calls with different modes share a base
configuration that brings `VerifyPeerCertificate` and `VerifyConnection`, one has a
base of its own with `GetConfigForClient`, and one has none. A server's
`GetConfigForClient` may replace the configuration, so `ModeControlsHandshake`
says nothing of that case. In `MCIdentities`, texts have up to
three characters after the scheme, and longer ones for `..` at the end and
before another segment: segments of no, one and two characters, first and last.
`MaxLen` lets a program append twice. Documents have every combination of the
attributes the code tests, with up to two certificates and two keys in one
PEM file; they are read by a default build, as the character sets only matter to
the scanners. `BundleStore` has one trust domain, which comes and goes, one
authority and two slots: sharing is between two places, and an operation never
looks at a second trust domain.

Assumed of the application: in `SpiffeTLS`, uses of the same mode object or of
the same base configuration do not overlap (`OneAtATime`); a base that was given
to a listener stays in use, as connections it accepted may be handshaking after
it was closed. The calls write the source into the mode and read it back, without
a lock, and change the base in place; with overlapping calls `SourcesAreLive` and
`ModeControlsHandshake` fail, but no document says that a mode or a `tls.Config`
may be used so.

Fairness. Goroutines that can run do run (weak fairness of their steps).
Of servers, the liveness properties assume this much: in `WatchLoop`, that a
stream is opened or refused and that a message that was sent is received or the
stream breaks (weak fairness of `OpenStream` and `RecvMessage`), with at most
`MaxFailures` failures, without which `MaterialArrives` could not hold; in
`federation`, that the endpoint answers, with a bounded number of failures too;
and that gRPC and HTTP calls fail once their context is done or their connection
is closed. In `Source` a Workload API that never answers is allowed. Go's `select` picks a ready channel at random, so a done context offered
again and again is taken: strong fairness of the two `SleepCanceled` actions.
`sync.RWMutex` hands the writer lock over without starvation: strong fairness of
`LockAnnounce`. When consumers and closers call is never assumed.

Deadlock checking is on everywhere except in the two runs of `BundleLocks`:
goroutines may stop calling methods at any time, and `CallsReturn`, which says
that nobody is stuck inside one, is stronger than the absence of a state in
which all are. In the other models, states in which
everything has returned have an explicit stuttering action.

### Disagreements between code and documentation

* `source_wait_closed`: the sources document that "Other source methods will
  return an error after Close has been called", but `WaitUntilUpdated` never
  tests the flag, and succeeds if a notification was pending.
* `source_unlocked_read`: `X509Source.GetX509BundleForTrustDomain` and
  `JWTSource.GetJWTBundleForTrustDomain` read `s.bundles` without the mutex. A
  read may miss an update whose notification merged into a pending one; no
  further notification comes. With locked reads (`source_bundle`) this cannot
  happen. It is a data race: `bundle_locks` has these two getters and `Equal`, and
  shows that every race in the five packages has one of their reads on one side.
* `bundle_locks_nested`: `Bundle.Get{X509,JWT,WIT}BundleForTrustDomain` take a
  read lock they already hold, which `RWMutex` forbids: with a mutator in
  between, both goroutines wait for ever.

Seen without a run of its own:

* `SetRefreshHint` documents that the hint "will be truncated to time.Second", but
  stores it as it is, and `Marshal` rounds it up. `HintIsConveyed` says what holds:
  less than a second off, and never turned into zero, as truncation would.
* The bundle given to `OnUpdate` is the one `WatchBundle` compares the next one
  with, so a watcher that edits it is told again of an unchanged bundle, which
  `BundleWatcher` rules out. `UpdateIffChanged` is the promise for watchers that
  do not; `CatchesUp` holds for both. It exempts a bundle without authorities,
  which is served but which `Parse` refuses.
* The base configuration of `WithDialTLSConfigBase` and `WithListenTLSConfigBase` is
  changed in place, and its `VerifyPeerCertificate` is wrapped, or left in place by
  `HookMTLSWebClientConfig` and `HookTLSServerConfig`, but never replaced. A second
  call with the same base, even after the first has ended, also checks peers with
  the authorizer and the source of the first, which may be closed. The mode's own
  check is still made, and made first (`ModeControlsHandshake`). That no other
  mode has a say, and that sources are live, holds with this one exception
  (`NoForeignMode`, `SourcesAreLive`).
* `x509svid.Verify` takes a leaf that `Parse` refuses, one without a path in its ID
  or without `digitalSignature`; the converse, that what `Parse` takes `Verify`
  takes, is `ParsedIsUsable`.
* Bundles of `x509bundle`, `jwtbundle`, `witbundle` and `spiffebundle` sets, and
  those `X509Source`, `JWTSource` and `WITSource` return, are handed out by
  reference, on purpose; only `BundleSource` builds a bundle per call, and
  `BundleStore` is about that.

## Proofs

Every theorem holds for all values of the constants that satisfy the named
assumption of its module, such as `WatcherAssumption`; the runs evaluate these
assumptions on their instances. Each proof follows one plan: an inductive
invariant, a lemma that a step keeps it with one case per action, and the
properties as consequences.

**`SourceProofs`**, of `Watcher`, for any set of closers, any version bound and every
combination of options (one or two kinds, owned or given client, watcher or
WITSource): `TypeCorrect`, `Inductive` (the invariant `IInv`), and from it
`UpdatesAnnounced`, `ConstructedFresh`, `ErrorsNeverBlock`, `CloseSafe` and
`CloseCallersAgree`. `IInv` is needed because none of the properties is inductive
alone. `CtorInv` ties the constructor's counters to the goroutines that exist
and the channels that are closed; `UpdateInv` says that a goroutine inside its
first callback has not yet closed its channel, which is what makes draining
after waiting safe; `ErrInv` says that an error in `errCh` is of a goroutine
that has exited, so a goroutine about to send finds room (`ErrChHasRoom` counts,
with `FiniteSetTheorems`); `CloseInv` ties `closeMtx` to the one caller between
Lock and Unlock, and `closed` to the goroutines having stopped, the client
having been closed once and `closeErr` being what is returned from then on. TLC
checks `IInv` in the run `source_wit`.

The same module, of `Source`: every step of `Source` is a step of `Watcher` or leaves it
unchanged (`SourceImplementsWatcher`), so all of the above holds of the sources;
`SourceTypeCorrect`; `NoGetAfterClose`, for any number of consumers, by
`SourceIInv`: the flag is set before any caller is inside the watcher's Close
(for `WITSource` this is `CloseInv`). `LoneConsumerIsCurrent` has two
hypotheses, that reads take the mutex and that there is one consumer; the run
`source_unlocked_read` refutes it without the first. Its invariant, `CurrentInv`,
says of every kind that the consumer has read the newest version, or a
notification is pending, or the goroutine that stored it is about to send one,
or the consumer is still to read that kind.

**`WatchLoopProofs`**: `WatchLoopTypeCorrect`, `WaitGrowsWithFailures` and
`WatchLoopRefinesContract`, the safety part of the refinement. `BackoffInv`
relates `n` to the failures in a row at each point between `Reset` in one
function and `Next` in another; `InOrder` says that the messages in flight are in
order and none is older than what was delivered, which is why an update after a
reconnection is no step back.

**`BundleStoreProofs`**: `SourceAlwaysServesLatest`, and `StoreRefinesValues`, the
whole refinement of `BundleValues`. The invariant `OwnCells` says that the cell a
location refers to was made for it: no two locations share one, so a write
through one reference is seen through no other. It fails as soon as an operation
hands out its own slice or map.

**`BundleLocksProofs`**: `LocksTypeCorrect` and `LocksPreventRaces`, for any number
of goroutines and any choice of methods. Every method is shown to be
`Balanced`, it unlocks only what it holds and writes a field only under its lock,
and every method but those of `Unlocked` to be `WellLocked`, it reads under the
lock too. `LockInv` then
says that what the locks record is what the goroutines hold by their positions
in their methods (`ReadersInv`, `OwnerInv`), that a writer is alone (`AloneInv`),
and who waits where (`WaitInv`). Methods have at most nine steps, which the
definitions of what is held rely on.

**`FederationProofs`**: `FederationTypeCorrect`, `HintAlwaysConveyed` and the
action property `UpdatesAreChanges`, for any tick length. `HintInv` follows the
hint from the served bundle through the document to the timer, across failed
fetches; `UntouchedIsFetched` says that the bundle `OnUpdate` is decided by is
the one fetched last. `SecondsRoundUp` is the arithmetic of `Marshal`.

**`ResponsesProofs`**: `ResponsesTypeCorrect`, `NoCallLeaks`, `SVIDsOfAnyResponse`,
`ResponsesAllOrNothing` and `BundlesOfAnyResponse`, for responses of any length.
`ResponseInv` has one part per loop, a loop invariant: what has been collected
so far is what the response up to the loop index determines.

**`SpiffeTLSProofs`**: `TLSTypeCorrect`, `TLSNothingLeaks`, and, given `OneAtATime`
(see Runs), `ModeAlwaysControls` and `SourcesStayLive`,
for any callbacks in the bases and any number of calls with each. `OpenInv` says
what is open at each point of a call; `ControlInv` says that of the calls with one
mode object at most one is being prepared, so that the fields it reads back are
those it wrote, and that no other call changes a configuration between the hook
and the handshake; `VouchedInv` says which calls the verifiers in a configuration
come from. The first
proof attempt showed that endpoints must not be named like the sources that are
passed in, which `SpiffeTLSAssumption` now says.

**`IdentitiesProofs`**, for texts, paths, segments, files and chains of any length,
for IDs in both builds and for SVIDs in the default one: `ScannersAcceptTheGrammar`, `EveryIDIsWellFormed`,
`ParsedSVIDsAreUsable`, `OwnTrustDomainValidates` and `TokensAreNotConfused`. The
grammar is stated with subsequences and the scanners look at characters, so the
first lemmas restate it with positions (`SegmentByPosition`, `PathByPosition`,
`IDByPosition`), and `UniqueSplit` shows that a text is an ID in one way only.
`IDInv` is one loop invariant per scanner: what lies before the index is in the
grammar, and the whole text is in it exactly if the rest completes it. For the
SVIDs, `ReadInv` says what the call being scanned has tested already and that an
accepted outcome is one the document allows; `X509Inv` and `TokenInv` relate the
outcomes of different functions for one document, which is possible because
`SameText` makes two successful scans of a text give the same ID.
`ParsedSVIDsAreUsable` needs that encoding and reading a PEM file is the identity
on certificates (`CertificatesRoundTrip`): `parseBlocks` is therefore written by
rank (the block at place k is the one with k - 1 of its type before it), and the
proof counts positions with `FiniteSetTheorems`. `SVIDsAssumption` gives the
types of the documents, which is all that is assumed of them.

Only model-checked: the liveness properties (`CloseReturns`,
`ConstructorReturns`, `GetReturns`, `MaterialArrives`, `CallsReturn`,
`CatchesUp`, `ReturnsWhenCanceled`, and the fairness of `ImplementsContract`),
which rest on fairness and are outside the prover's reach. Every invariant of a
passing run is stated by a theorem.

## Plan

1. Done: the models, and the proofs above.
2. Left: the hazards listed without a property (`PROJECT.json`), where the code
   makes no promise to state; and splitting the longest leaves of
   `IdentitiesProofs` when the modules it is about change.

## Not modelled

* The authorizers and traces of `tlsconfig`, `grpccredentials` and
  `spiffegrpc`: a predicate of the application, callbacks and wrappers.
* Options and address parsing of `workloadapi`, beyond that setting the address
  can fail: pure conversions with a table-driven test each.
* Formatted and panicking variants, URLs and matchers of `spiffeid`; `ParseRaw`
  and `MarshalRaw` of `x509svid`: they call or repeat what is modelled.
* Documents of `x509bundle`, `jwtbundle` and `witbundle`, sequence numbers and
  key material of SPIFFE bundle documents: encodings.
* Cryptography, gRPC, HTTP and the Go runtime, which are external; logging;
  generated protobuf code, examples and test doubles.
