------------------------------- MODULE Responses -------------------------------
(***************************************************************************)
(* The one-shot calls of the Workload API: the functions that create a     *)
(* client for one call (workloadapi/convenience.go), Client.Fetch*,        *)
(* Client.ValidateJWTSVID and the parsing of responses they share with the *)
(* watches: parse*SVIDs, parseX509Context and parse*Bundles                *)
(* (workloadapi/client.go).                                                *)
(*                                                                         *)
(* The X.509, JWT and WIT variants have the same control and differ in the *)
(* library call that parses an entry.  An entry of a response is known by  *)
(* its position, a bundle by where it was found: the position of the SVID  *)
(* it came with, or its key in the map of bundles.                         *)
(***************************************************************************)
EXTENDS Naturals, Sequences, Functions

CONSTANTS
    Hints,          \* hints other than the empty one
    TrustDomains,
    Keys,           \* keys of the map of bundles
    Names,          \* Names[k]: the trust domain key k spells, or Malformed
    Malformed,
    MaxSVIDs        \* bound on the SVIDs in a response

NoHint == "no hint"

ASSUME ResponsesAssumption ==
    /\ NoHint \notin Hints
    /\ Malformed \notin TrustDomains
    /\ Names \in [Keys -> TrustDomains \cup {Malformed}]
    /\ Keys \cap Nat = {}
    /\ MaxSVIDs \in Nat

(* Fetch*SVID, Fetch*SVIDs, FetchX509Context, Fetch*Bundles,               *)
(* ValidateJWTSVID, and Watch*, which only ever returns an error (the      *)
(* loop is in WatchLoop).                                                  *)
Calls == {"SVID", "SVIDs", "Context", "Bundles", "Validate", "Watch"}

(* The connection of a client, and the stream or request of a call. *)
Resources == {"conn", "stream"}

(* valid: the SVID, its key and, for a JWT-SVID, its audience can be parsed. *)
(* td: the trust domain of the SPIFFE ID, or Malformed if that or the bundle *)
(* that comes with the SVID cannot be parsed.                                *)
Entries == [hint : Hints \cup {NoHint}, valid : BOOLEAN, td : TrustDomains \cup {Malformed}]

Responses == [svids : UNION {[1 .. n -> Entries] : n \in 0 .. MaxSVIDs}, bundles : SUBSET Keys]

VARIABLES
    own,      \* a function with a client of its own, not a method of a client
    open,     \* resources in use
    call,     \* the method called
    pc,
    resp,     \* the response received
    i,        \* loop index
    hints,    \* hints seen
    svids,    \* SVIDs parsed, by position
    left,     \* keys of the map not yet visited
    bundles,  \* the bundle of each trust domain, by where it was found
    err

vars == <<own, open, call, pc, resp, i, hints, svids, left, bundles, err>>

TypeOK ==
    /\ own \in BOOLEAN /\ open \subseteq Resources
    /\ call \in Calls
    /\ pc \in {"new", "fetch", "svids", "own", "map", "returned", "done"}
    /\ resp \in Responses
    /\ i \in 1 .. MaxSVIDs + 1
    /\ hints \subseteq Hints \cup {NoHint}
    /\ svids \in Seq(1 .. MaxSVIDs)
    /\ left \subseteq Keys
    /\ DOMAIN bundles \subseteq TrustDomains /\ Range(bundles) \subseteq 1 .. MaxSVIDs \cup Keys
    /\ err \in BOOLEAN

EmptyResponse == [svids |-> <<>>, bundles |-> {}]

Init ==
    /\ own \in BOOLEAN /\ call \in Calls
    /\ open = IF own THEN {} ELSE {"conn"}
    /\ pc = IF own THEN "new" ELSE "fetch"
    /\ resp = EmptyResponse
    /\ i = 1
    /\ hints = {} /\ svids = <<>>
    /\ left = {} /\ bundles = <<>>
    /\ err = FALSE

(* A method returns: its deferred cancel() ends the stream. *)
Return ==
    /\ pc' = "returned"
    /\ open' = open \ {"stream"}
    /\ UNCHANGED own

(* return nil, err *)
Fail ==
    /\ err' = TRUE
    /\ svids' = <<>> /\ bundles' = <<>>
    /\ Return

-----------------------------------------------------------------------------

(* New: there is no usable address, or the connection cannot be made. *)
NewFails ==
    /\ pc = "new"
    /\ err' = TRUE
    /\ pc' = "done"
    /\ UNCHANGED <<own, open, call, resp, i, hints, svids, left, bundles>>

New ==
    /\ pc = "new"
    /\ open' = open \cup {"conn"}
    /\ pc' = "fetch"
    /\ UNCHANGED <<own, call, resp, i, hints, svids, left, bundles, err>>

(* The stream cannot be opened, or Recv fails; a watch ends. *)
FetchFails ==
    /\ pc = "fetch"
    /\ Fail
    /\ UNCHANGED <<call, resp, i, hints, left>>

(* A response arrives.  What a method does not look at is left empty; the  *)
(* one SVID ValidateJWTSVID parses is the token it was given.              *)
Fetch ==
    /\ pc = "fetch" /\ call # "Watch"
    /\ resp' \in Responses
    /\ call = "Bundles" => resp'.svids = <<>>
    /\ call \in {"SVID", "SVIDs", "Validate"} => resp'.bundles = {}
    /\ call = "Validate" => Len(resp'.svids) = 1 /\ resp'.svids[1].hint = NoHint
    /\ open' = open \cup {"stream"}
    /\ left' = resp'.bundles
    /\ pc' = IF call = "Bundles" THEN "map" ELSE "svids"
    /\ UNCHANGED <<own, call, i, hints, svids, bundles, err>>

(* n: only the first SVID is looked at if firstOnly. *)
Limit == IF call = "SVID" /\ Len(resp.svids) > 0 THEN 1 ELSE Len(resp.svids)

NoSVIDs ==
    /\ pc = "svids"
    /\ Limit = 0
    /\ Fail
    /\ UNCHANGED <<call, resp, i, hints, left>>

(* Mutant: SVIDs without a hint are duplicates of each other. *)
DuplicateEvenEmpty == resp.svids[i].hint \in hints

(* An earlier SVID has the same hint. *)
Duplicate == resp.svids[i].hint \in hints /\ resp.svids[i].hint # NoHint

SkipSVID ==
    /\ pc = "svids" /\ i <= Limit
    /\ Duplicate
    /\ i' = i + 1
    /\ UNCHANGED <<own, open, call, pc, resp, hints, svids, left, bundles, err>>

ParseSVID ==
    /\ pc = "svids" /\ i <= Limit
    /\ ~Duplicate
    /\ resp.svids[i].valid
    /\ hints' = hints \cup {resp.svids[i].hint}
    /\ svids' = Append(svids, i)
    /\ i' = i + 1
    /\ UNCHANGED <<own, open, call, pc, resp, left, bundles, err>>

(* Mutant: an SVID that cannot be parsed is left out. *)
ParseSVIDFailsSkips ==
    /\ pc = "svids" /\ i <= Limit
    /\ ~Duplicate
    /\ ~resp.svids[i].valid
    /\ i' = i + 1
    /\ UNCHANGED <<own, open, call, pc, resp, hints, svids, left, bundles, err>>

ParseSVIDFails ==
    /\ pc = "svids" /\ i <= Limit
    /\ ~Duplicate
    /\ ~resp.svids[i].valid
    /\ hints' = hints \cup {resp.svids[i].hint}
    /\ Fail
    /\ UNCHANGED <<call, resp, i, left>>

(* parse*SVIDs returns; parseX509Context goes on with the bundles. *)
SVIDsDone ==
    /\ pc = "svids" /\ Limit > 0 /\ i > Limit
    /\ IF call = "Context" THEN pc' = "own" /\ UNCHANGED <<own, open>> ELSE Return
    /\ i' = 1
    /\ UNCHANGED <<call, resp, hints, svids, left, bundles, err>>

(* NewSet: a later bundle of a trust domain replaces an earlier one. *)
AddBundle(td, where) ==
    bundles' = [t \in DOMAIN bundles \cup {td} |-> IF t = td THEN where ELSE bundles[t]]

(* Mutant: the error is ignored. *)
ParseOwnBundleUnchecked ==
    /\ pc = "own" /\ i <= Len(resp.svids)
    /\ AddBundle(resp.svids[i].td, i)
    /\ i' = i + 1
    /\ UNCHANGED <<own, open, call, pc, resp, hints, svids, left, err>>

(* parseX509Bundles: the bundle that comes with an SVID. *)
ParseOwnBundle ==
    /\ pc = "own" /\ i <= Len(resp.svids)
    /\ resp.svids[i].td # Malformed
    /\ AddBundle(resp.svids[i].td, i)
    /\ i' = i + 1
    /\ UNCHANGED <<own, open, call, pc, resp, hints, svids, left, err>>

ParseOwnBundleFails ==
    /\ pc = "own" /\ i <= Len(resp.svids)
    /\ resp.svids[i].td = Malformed
    /\ Fail
    /\ UNCHANGED <<call, resp, i, hints, left>>

OwnBundlesDone ==
    /\ pc = "own" /\ i > Len(resp.svids)
    /\ pc' = "map"
    /\ UNCHANGED <<own, open, call, resp, i, hints, svids, left, bundles, err>>

(* Mutant: a bundle that is there already is kept. *)
ParseBundleKeepsFirst ==
    /\ pc = "map"
    /\ \E k \in left :
        /\ Names[k] # Malformed
        /\ IF Names[k] \in DOMAIN bundles THEN UNCHANGED bundles ELSE AddBundle(Names[k], k)
        /\ left' = left \ {k}
    /\ UNCHANGED <<own, open, call, pc, resp, i, hints, svids, err>>

(* range over the map: any key may come next. *)
ParseBundle ==
    /\ pc = "map"
    /\ \E k \in left :
        /\ Names[k] # Malformed
        /\ AddBundle(Names[k], k)
        /\ left' = left \ {k}
    /\ UNCHANGED <<own, open, call, pc, resp, i, hints, svids, err>>

ParseBundleFails ==
    /\ pc = "map"
    /\ \E k \in left : Names[k] = Malformed
    /\ Fail
    /\ UNCHANGED <<call, resp, i, hints, left>>

BundlesDone ==
    /\ pc = "map" /\ left = {}
    /\ Return
    /\ UNCHANGED <<call, resp, i, hints, svids, left, bundles, err>>

(* Mutant: the client is closed only if the call succeeded. *)
CloseUnlessFailed ==
    /\ pc = "returned"
    /\ open' = IF own /\ ~err THEN open \ {"conn"} ELSE open
    /\ pc' = "done"
    /\ UNCHANGED <<own, call, resp, i, hints, svids, left, bundles, err>>

(* The deferred Close of a function that created its client. *)
Close ==
    /\ pc = "returned"
    /\ open' = IF own THEN open \ {"conn"} ELSE open
    /\ pc' = "done"
    /\ UNCHANGED <<own, call, resp, i, hints, svids, left, bundles, err>>

Done == pc = "done" /\ UNCHANGED vars

Next ==
    \/ NewFails \/ New \/ FetchFails \/ Fetch
    \/ NoSVIDs \/ SkipSVID \/ ParseSVID \/ ParseSVIDFails \/ SVIDsDone
    \/ ParseOwnBundle \/ ParseOwnBundleFails \/ OwnBundlesDone
    \/ ParseBundle \/ ParseBundleFails \/ BundlesDone
    \/ Close \/ Done

Spec == Init /\ [][Next]_vars

-----------------------------------------------------------------------------
(* Properties *)

(* The SVIDs a call is about: the first one for Fetch*SVID; for the others *)
(* all, except those whose hint was used before them.                      *)
Selected ==
    {j \in DOMAIN resp.svids :
        /\ call = "SVID" => j = 1
        /\ resp.svids[j].hint = NoHint
           \/ \A k \in 1 .. j - 1 : resp.svids[k].hint # resp.svids[j].hint}

(* "In the event of more than one X509SVID message with the same hint      *)
(* value set, then the first message in the list SHOULD be selected": a    *)
(* call that succeeds returns the selected SVIDs, in the order of the      *)
(* response, and Fetch*SVID returns the first one, which is also the       *)
(* default of the others.                                                  *)
FirstOfEqualHints ==
    pc = "returned" /\ ~err /\ call # "Bundles" =>
        /\ Range(svids) = Selected
        /\ \A a, b \in DOMAIN svids : a < b => svids[a] < svids[b]
        /\ svids[1] = 1

(* A response is accepted as a whole or not at all.  It is refused exactly *)
(* when it has no SVIDs although some were asked for, or when something    *)
(* that takes part in it is malformed: a selected SVID (not a duplicate,   *)
(* and not a later one if only the first is asked for), a bundle of the    *)
(* map, or, for a context, the bundle of any SVID, also of a duplicate.    *)
(* A refused response leaves nothing behind.                               *)
AllOrNothing ==
    pc = "returned" /\ (resp # EmptyResponse \/ ~err) =>
        /\ err <=> \/ call # "Bundles" /\ resp.svids = <<>>
                   \/ \E j \in Selected : ~resp.svids[j].valid
                   \/ /\ call = "Context"
                      /\ \E j \in DOMAIN resp.svids : resp.svids[j].td = Malformed
                   \/ \E k \in resp.bundles : Names[k] = Malformed
        /\ err => svids = <<>> /\ bundles = <<>>

(* There is a bundle for exactly the trust domains of the response, those  *)
(* of SVIDs that were dropped included.  A federated bundle takes the      *)
(* place of one that came with an SVID, the last SVID of a trust domain    *)
(* that of earlier ones.  If two keys spell one trust domain, which of     *)
(* them counts depends on the order of the map.                            *)
BundlePrecedence ==
    pc = "returned" /\ ~err /\ call \in {"Context", "Bundles"} =>
        LET from(t) == {j \in DOMAIN resp.svids : resp.svids[j].td = t}
            fed(t) == {k \in resp.bundles : Names[k] = t}
        IN  \A t \in TrustDomains :
                /\ t \in DOMAIN bundles <=> from(t) \cup fed(t) # {}
                /\ fed(t) # {} => bundles[t] \in fed(t)
                /\ fed(t) = {} /\ from(t) # {} =>
                       bundles[t] \in from(t) /\ \A j \in from(t) : j <= bundles[t]

(* A call leaves nothing open that it opened, whether the client, the      *)
(* stream, the response or an entry of it fails, and it never closes a     *)
(* client it was called on: "The client should be closed when no longer in *)
(* use" (New), by whoever created it.                                      *)
OnlyOwnClientClosed ==
    pc = "done" => open = IF own THEN {} ELSE {"conn"}
=============================================================================
