------------------------------- MODULE Federation -------------------------------
(***************************************************************************)
(* A bundle endpoint and a client that watches it: federation.NewHandler   *)
(* serving a SPIFFE bundle, and federation.WatchBundle polling it with     *)
(* FetchBundle, through Bundle.Marshal and Parse                           *)
(* (federation/handler.go, fetch.go, watch.go,                             *)
(* bundle/spiffebundle/bundle.go).                                         *)
(*                                                                         *)
(* A bundle is its trust domain, its set of authorities and its refresh    *)
(* hint.  Durations are in ticks, TicksPerSecond to the second.            *)
(***************************************************************************)
EXTENDS Integers

CONSTANTS
    Authorities,     \* authorities a bundle may have
    Hints,           \* refresh hints, in ticks, that the endpoint's owner sets
    TicksPerSecond,  \* resolution of time.Duration
    MaxChanges,      \* bound: changes of the served bundle
    MaxFailures      \* bound: fetches that fail for reasons of the network

NoHint == -1         \* refreshHint == nil

ASSUME FederationAssumption ==
    /\ Hints \subseteq Nat
    /\ TicksPerSecond \in Nat \ {0}
    /\ MaxChanges \in Nat /\ MaxFailures \in Nat

Bundles == [td : {"td"}, auths : SUBSET Authorities, hint : Hints \cup {NoHint}]

-----------------------------------------------------------------------------
(* Bundle *)

(* &spiffebundle.Bundle{}: the zero trust domain and nothing else. *)
ZeroBundle == [td |-> "", auths |-> {}, hint |-> NoHint]

(* SetRefreshHint, for one bundle. *)
SetRefreshHint(b, h) == [b EXCEPT !.hint = h]

ToSeconds(h) == (h + (TicksPerSecond - 1)) \div TicksPerSecond

(* Marshal: the trust domain is not part of the document; the hint is      *)
(* rounded up to whole seconds.                                            *)
Marshal(b) ==
    [keys |-> b.auths, hint |-> IF b.hint = NoHint THEN NoHint ELSE ToSeconds(b.hint)]

(* Parse rejects a document without keys, and Marshal of an empty bundle   *)
(* writes "keys": null.                                                    *)
Parses(doc) == doc.keys # {}

(* Mutant: seconds are taken for ticks. *)
ParseInTicks(doc) == [td |-> "td", auths |-> doc.keys, hint |-> doc.hint]

Parse(doc) ==
    [td    |-> "td",
     auths |-> doc.keys,
     hint  |-> IF doc.hint = NoHint THEN NoHint ELSE TicksPerSecond * doc.hint]

(* The reply to a request that failed, at either end. *)
Failed == [keys |-> {}, hint |-> NoHint]

-----------------------------------------------------------------------------
VARIABLES
    served,    \* the bundle of the handler's source
    pc,        \* WatchBundle: "fetch", "reply", "sleep" or "returned"
    reply,     \* the response body FetchBundle parses
    latest,    \* latestBundle, the object the watcher was given last
    hint,      \* argument of the last call of NextRefresh
    expired,   \* the refresh timer has fired
    ctxErr,    \* ctx.Err()
    changes, failures,
    beat,      \* history: flips with every call of OnUpdate
    fetched,   \* history: the bundle last fetched, as it was fetched
    origin,    \* history: the bundle the reply was made from
    touched    \* history: the watcher has changed a bundle it was given

vars == <<served, pc, reply, latest, hint, expired, ctxErr, changes, failures,
          beat, fetched, origin, touched>>

Docs == [keys : SUBSET Authorities, hint : Nat \cup {NoHint}]

(* Bundles as a watcher has them. *)
Received == [td : {"", "td"}, auths : SUBSET Authorities, hint : Nat \cup {NoHint}]

TypeOK ==
    /\ served \in Bundles
    /\ pc \in {"fetch", "reply", "sleep", "returned"}
    /\ reply \in Docs
    /\ latest \in Received /\ fetched \in Received
    /\ origin \in Bundles \cup {ZeroBundle}
    /\ hint \in Nat
    /\ expired \in BOOLEAN
    /\ ctxErr \in {"none", "Canceled", "DeadlineExceeded"}
    /\ changes \in 0..MaxChanges /\ failures \in 0..MaxFailures
    /\ beat \in BOOLEAN /\ touched \in BOOLEAN

Init ==
    /\ served \in {b \in Bundles : b.hint = NoHint}
    /\ pc = "fetch"
    /\ reply = Failed
    /\ latest = ZeroBundle
    /\ hint = 0 /\ expired = FALSE /\ ctxErr = "none"
    /\ changes = 0 /\ failures = 0
    /\ beat = FALSE /\ touched = FALSE
    /\ fetched = ZeroBundle /\ origin = ZeroBundle

-----------------------------------------------------------------------------
(* The endpoint *)

(* The owner replaces the authorities, or sets the refresh hint. *)
ChangeServed ==
    /\ changes < MaxChanges
    /\ changes' = changes + 1
    /\ \/ \E a \in SUBSET Authorities : served' = [served EXCEPT !.auths = a]
       \/ \E h \in Hints : served' = SetRefreshHint(served, h)
    /\ UNCHANGED <<pc, reply, latest, hint, expired, ctxErr, failures, beat, fetched, origin, touched>>

(* The handler answers the GET with the bundle its source has now. *)
ServeRequest ==
    /\ pc = "fetch"
    /\ ctxErr = "none"
    /\ reply' = Marshal(served)
    /\ origin' = served
    /\ pc' = "reply"
    /\ UNCHANGED <<served, latest, hint, expired, ctxErr, changes, failures, beat, fetched, touched>>

(* The request fails: the client's context is done, the connection breaks  *)
(* or the handler answers with an error, which does not parse.             *)
FetchFails ==
    /\ pc = "fetch"
    /\ \/ ctxErr # "none" /\ UNCHANGED failures
       \/ failures < MaxFailures /\ failures' = failures + 1
    /\ reply' = Failed
    /\ pc' = "reply"
    /\ UNCHANGED <<served, latest, hint, expired, ctxErr, changes, beat, fetched, origin, touched>>

-----------------------------------------------------------------------------
(* WatchBundle *)

(* Mutant: an absent hint is passed on as it is. *)
RestUnset(b) ==
    /\ hint' = b.hint
    /\ expired' = FALSE
    /\ pc' = "sleep"

(* NextRefresh is asked with the hint of the latest bundle; timer reset. *)
Rest(b) ==
    /\ hint' = IF b.hint = NoHint THEN 0 ELSE b.hint
    /\ expired' = FALSE
    /\ pc' = "sleep"

(* "to avoid more calls to FetchBundle ... we return now" *)
ReplyCanceled ==
    /\ pc = "reply"
    /\ ctxErr = "Canceled"
    /\ pc' = "returned"
    /\ UNCHANGED <<served, reply, latest, hint, expired, ctxErr, changes, failures,
                   beat, fetched, origin, touched>>

(* OnError *)
ReplyError ==
    /\ pc = "reply"
    /\ ctxErr # "Canceled"
    /\ ~Parses(reply)
    /\ Rest(latest)
    /\ UNCHANGED <<served, reply, latest, ctxErr, changes, failures, beat, fetched, origin, touched>>

(* Mutant: latestBundle is not replaced. *)
ReplyBundleNotKept ==
    /\ pc = "reply"
    /\ ctxErr # "Canceled"
    /\ Parses(reply)
    /\ LET b == Parse(reply) IN
       /\ Rest(b)
       /\ beat' = IF latest = b THEN beat ELSE ~beat
       /\ fetched' = b
    /\ UNCHANGED <<served, reply, latest, ctxErr, changes, failures, origin, touched>>

(* The fetched bundle is compared with the latest and, if it differs, goes *)
(* to OnUpdate and becomes the latest.                                     *)
ReplyBundle ==
    /\ pc = "reply"
    /\ ctxErr # "Canceled"
    /\ Parses(reply)
    /\ LET b == Parse(reply) IN
       /\ latest' = IF latest = b THEN latest ELSE b
       /\ Rest(latest')
       /\ beat' = IF latest = b THEN beat ELSE ~beat
       /\ fetched' = b
    /\ UNCHANGED <<served, reply, ctxErr, changes, failures, origin, touched>>

Refresh ==
    /\ pc = "sleep"
    /\ expired
    /\ pc' = "fetch"
    /\ UNCHANGED <<served, reply, latest, hint, expired, ctxErr, changes, failures,
                   beat, fetched, origin, touched>>

(* Mutant: the sleep does not look at the context. *)
SleepCanceledMissing == FALSE /\ UNCHANGED vars

SleepCanceled ==
    /\ pc = "sleep"
    /\ ctxErr # "none"
    /\ pc' = "returned"
    /\ UNCHANGED <<served, reply, latest, hint, expired, ctxErr, changes, failures,
                   beat, fetched, origin, touched>>

-----------------------------------------------------------------------------
TimerFires ==
    /\ pc = "sleep"
    /\ ~expired
    /\ expired' = TRUE
    /\ UNCHANGED <<served, pc, reply, latest, hint, ctxErr, changes, failures,
                   beat, fetched, origin, touched>>

ContextDone ==
    /\ ctxErr = "none"
    /\ ctxErr' \in {"Canceled", "DeadlineExceeded"}
    /\ UNCHANGED <<served, pc, reply, latest, hint, expired, changes, failures,
                   beat, fetched, origin, touched>>

(* The watcher adds or removes authorities of the bundle it was given,     *)
(* which is the object latestBundle points to.                             *)
MutateLatest ==
    /\ latest # ZeroBundle
    /\ \E a \in SUBSET Authorities : latest' = [latest EXCEPT !.auths = a]
    /\ touched' = TRUE
    /\ UNCHANGED <<served, pc, reply, hint, expired, ctxErr, changes, failures,
                   beat, fetched, origin>>

Done == pc = "returned" /\ UNCHANGED vars

Next ==
    \/ ChangeServed \/ ServeRequest \/ FetchFails
    \/ ReplyCanceled \/ ReplyError \/ ReplyBundle \/ Refresh \/ SleepCanceled
    \/ TimerFires \/ ContextDone \/ MutateLatest \/ Done

(* The endpoint answers and timers fire; Go's select between a fired timer *)
(* and a done context does not always choose the timer.                    *)
Fairness ==
    /\ WF_vars(ServeRequest)
    /\ WF_vars(ctxErr # "none" /\ FetchFails)
    /\ WF_vars(ReplyCanceled) /\ WF_vars(ReplyError) /\ WF_vars(ReplyBundle)
    /\ WF_vars(Refresh) /\ WF_vars(TimerFires)
    /\ SF_vars(SleepCanceled)

Spec == Init /\ [][Next]_vars /\ Fairness

-----------------------------------------------------------------------------
(* Properties *)

(* "If a bundle is fetched but has not changed from the previously fetched *)
(* bundle, OnUpdate will not be called" (BundleWatcher), and if it has     *)
(* changed OnUpdate is called, as long as the watcher leaves the bundles   *)
(* it is given alone: through failed fetches and replies that do not parse,*)
(* WatchBundle never repeats and never misses a change between two bundles *)
(* it fetched.                                                             *)
UpdateIffChanged ==
    [][~touched => ((beat' # beat) <=> (fetched' # fetched))]_vars

(* WatchBundle rests with the hint of a bundle it has fetched. *)
RestsByHint == pc = "sleep" /\ fetched # ZeroBundle /\ Parses(Marshal(origin))

(* The hint that the endpoint's owner set reaches NextRefresh, through     *)
(* failed fetches and edits of the bundle: less than a second off, and     *)
(* zero, with which the watcher is free to choose, exactly if it was zero. *)
(* (SetRefreshHint documents that a hint is truncated to seconds, by which *)
(* half a second would become zero; Marshal rounds it up.)                 *)
HintIsConveyed ==
    RestsByHint =>
        IF origin.hint = NoHint THEN hint = 0
        ELSE /\ hint - origin.hint < TicksPerSecond
             /\ origin.hint - hint < TicksPerSecond
             /\ (hint = 0) <=> (origin.hint = 0)

(* A watch that goes on keeps catching up with what the endpoint serves,   *)
(* through failed fetches and changes; an empty bundle cannot be conveyed. *)
CatchesUp ==
    []<>(\/ latest = Parse(Marshal(served))
         \/ served.auths = {}
         \/ pc = "returned")

(* "It returns when the context is canceled": also when it is while a      *)
(* fetch or the timer is pending.                                          *)
ReturnsWhenCanceled == ctxErr # "none" ~> pc = "returned"
=============================================================================
