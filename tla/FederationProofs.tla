--------------------------- MODULE FederationProofs ---------------------------
(***************************************************************************)
(* Proofs about Federation: the types, that WatchBundle calls OnUpdate for *)
(* exactly the changes it fetches, and that the hint it refreshes by is    *)
(* the endpoint's to less than a second, for any bundles, hints and        *)
(* resolution of time.                                                     *)
(***************************************************************************)
EXTENDS Federation, TLAPS

(* The latest bundle has the hint of the one that the endpoint served      *)
(* last, if that could be parsed: watchers change authorities only.        *)
HintIsOrigins ==
    Parses(Marshal(origin)) => latest.hint = Parse(Marshal(origin)).hint

(* A reply is that of the last request that was served, or of one that     *)
(* failed since; the latest bundle has caught up unless it is pending.     *)
HintInv ==
    /\ pc \in {"fetch", "sleep"} => HintIsOrigins
    /\ pc = "reply" => \/ reply = Marshal(origin)
                       \/ reply = Failed /\ HintIsOrigins
    /\ pc = "sleep" => hint = IF latest.hint = NoHint THEN 0 ELSE latest.hint

(* The bundle OnUpdate is compared with is the one fetched last, until a   *)
(* watcher changes it.                                                     *)
UntouchedIsFetched == ~touched => latest = fetched

-----------------------------------------------------------------------------
(* Durations *)

(* A hint in whole seconds is late by less than a second and never early,  *)
(* and zero only for zero.                                                 *)
LEMMA SecondsRoundUp ==
    ASSUME NEW h \in Nat
    PROVE  /\ ToSeconds(h) \in Nat
           /\ TicksPerSecond * ToSeconds(h) \in Nat
           /\ TicksPerSecond * ToSeconds(h) >= h
           /\ TicksPerSecond * ToSeconds(h) < h + TicksPerSecond
           /\ (TicksPerSecond * ToSeconds(h) = 0) <=> (h = 0)
<1>1. TicksPerSecond \in Nat /\ TicksPerSecond > 0
  BY FederationAssumption
<1> DEFINE x == h + (TicksPerSecond - 1)
           q == x \div TicksPerSecond
           r == x % TicksPerSecond
<1>2. x \in Nat
  BY <1>1
<1> HIDE DEF x
<1>3. q \in Nat /\ r \in Nat /\ r < TicksPerSecond /\ x = TicksPerSecond * q + r
  BY <1>1, <1>2
<1> HIDE DEF q, r
<1>4. TicksPerSecond * q \in Nat
  BY <1>1, <1>3
<1>5. TicksPerSecond * q >= h /\ TicksPerSecond * q < h + TicksPerSecond
  BY <1>1, <1>3, <1>4 DEF x
<1>6. ASSUME h = 0 PROVE TicksPerSecond * q = 0
  <2>1. x < TicksPerSecond
    BY <1>1, <1>6 DEF x
  <2>2. q = 0
    BY <1>1, <1>2, <2>1 DEF q
  <2>3. QED
    BY <1>1, <2>2
<1>7. (TicksPerSecond * q = 0) <=> (h = 0)
  BY <1>4, <1>5, <1>6
<1>8. QED
  BY <1>3, <1>4, <1>5, <1>7 DEF ToSeconds, x, q

(* A served bundle becomes a document, and the document a bundle that can  *)
(* be received.                                                            *)
LEMMA MarshalType ==
    ASSUME NEW b \in Bundles
    PROVE  /\ Marshal(b) \in Docs
           /\ Parse(Marshal(b)) \in Received
<1>1. b.hint = NoHint \/ b.hint \in Nat
  BY FederationAssumption DEF Bundles
<1>2. b.auths \in SUBSET Authorities
  BY DEF Bundles
<1>3. Marshal(b) \in Docs
  BY <1>1, <1>2, SecondsRoundUp DEF Marshal, Docs
<1>4. QED
  BY <1>1, <1>2, <1>3, SecondsRoundUp DEF Parse, Marshal, Received

(* Every document that parses is a bundle that can be received. *)
LEMMA ParseType ==
    ASSUME NEW doc \in Docs
    PROVE  Parse(doc) \in Received
BY FederationAssumption DEF Parse, Docs, Received

-----------------------------------------------------------------------------
(* Every step keeps the variables within their types. *)
LEMMA TypeStep ==
    ASSUME TypeOK, [Next]_vars
    PROVE  TypeOK'
<1>1. MaxChanges \in Nat /\ MaxFailures \in Nat /\ Hints \subseteq Nat
  BY FederationAssumption
<1>2. CASE ChangeServed
  <2>1. served' \in Bundles
    BY <1>2 DEF ChangeServed, SetRefreshHint, TypeOK, Bundles
  <2>2. changes' \in 0..MaxChanges
    BY <1>1, <1>2 DEF ChangeServed, TypeOK
  <2>3. QED
    BY <1>2, <2>1, <2>2 DEF ChangeServed, TypeOK
<1>3. CASE ServeRequest
  <2>1. Marshal(served) \in Docs
    BY MarshalType DEF TypeOK
  <2>2. QED
    BY <1>3, <2>1 DEF ServeRequest, TypeOK
<1>4. CASE FetchFails
  <2>1. Failed \in Docs
    BY DEF Failed, Docs
  <2>2. failures' \in 0..MaxFailures
    BY <1>1, <1>4 DEF FetchFails, TypeOK
  <2>3. QED
    BY <1>4, <2>1, <2>2 DEF FetchFails, TypeOK
<1>5. CASE ReplyError
  <2>1. hint' \in Nat
    BY <1>5 DEF ReplyError, Rest, TypeOK, Received
  <2>2. QED
    BY <1>5, <2>1 DEF ReplyError, Rest, TypeOK
<1>6. CASE ReplyBundle
  <2>1. latest' = Parse(reply) /\ fetched' = Parse(reply) /\ beat' \in {beat, ~beat}
        /\ hint' = IF latest'.hint = NoHint THEN 0 ELSE latest'.hint
    BY <1>6 DEF ReplyBundle, Rest
  <2>2. latest' \in Received /\ fetched' \in Received
    BY <2>1, ParseType DEF TypeOK
  <2>3. hint' \in Nat
    BY <2>1, <2>2 DEF Received
  <2>4. QED
    BY <1>6, <2>1, <2>2, <2>3 DEF ReplyBundle, Rest, TypeOK
<1>7. CASE ReplyCanceled \/ Refresh \/ SleepCanceled
  BY <1>7 DEF ReplyCanceled, Refresh, SleepCanceled, TypeOK
<1>8. CASE TimerFires \/ ContextDone
  BY <1>8 DEF TimerFires, ContextDone, TypeOK
<1>9. CASE MutateLatest
  <2>1. latest' \in Received
    BY <1>9 DEF MutateLatest, TypeOK, Received
  <2>2. QED
    BY <1>9, <2>1 DEF MutateLatest, TypeOK
<1>10. CASE UNCHANGED vars
  BY <1>10 DEF vars, TypeOK
<1>11. QED
  BY <1>2, <1>3, <1>4, <1>5, <1>6, <1>7, <1>8, <1>9, <1>10 DEF Next, Done

-----------------------------------------------------------------------------
(* Failed fetches, replies that do not parse, changes at the endpoint and  *)
(* watchers that edit what they were given keep the hint.                  *)
LEMMA HintStep ==
    ASSUME TypeOK, HintInv, [Next]_vars
    PROVE  HintInv'
<1>1. CASE ChangeServed \/ TimerFires \/ ContextDone \/ UNCHANGED vars
  <2>1. UNCHANGED <<pc, reply, latest, hint, origin>>
    BY <1>1 DEF ChangeServed, TimerFires, ContextDone, vars
  <2>2. QED
    BY <2>1 DEF HintInv, HintIsOrigins
<1>2. CASE ServeRequest
  BY <1>2 DEF ServeRequest, HintInv
<1>3. CASE FetchFails
  <2>1. pc = "fetch" /\ pc' = "reply" /\ reply' = Failed /\ UNCHANGED <<latest, origin>>
    BY <1>3 DEF FetchFails
  <2>2. HintIsOrigins'
    BY <2>1 DEF HintInv, HintIsOrigins
  <2>3. QED
    BY <2>1, <2>2 DEF HintInv
<1>4. CASE ReplyError
  <2>1. pc = "reply" /\ pc' = "sleep" /\ ~Parses(reply) /\ UNCHANGED <<latest, origin>>
        /\ hint' = IF latest.hint = NoHint THEN 0 ELSE latest.hint
    BY <1>4 DEF ReplyError, Rest
  <2>2. HintIsOrigins
    BY <2>1 DEF HintInv, HintIsOrigins
  <2>3. HintIsOrigins'
    BY <2>1, <2>2 DEF HintIsOrigins
  <2>4. QED
    BY <2>1, <2>3 DEF HintInv
<1>5. CASE ReplyBundle
  <2>1. pc = "reply" /\ pc' = "sleep" /\ Parses(reply) /\ UNCHANGED origin
        /\ latest' = Parse(reply)
        /\ hint' = IF latest'.hint = NoHint THEN 0 ELSE latest'.hint
    BY <1>5 DEF ReplyBundle, Rest
  <2>2. reply = Marshal(origin)
    BY <2>1 DEF HintInv, Parses, Failed
  <2>3. HintIsOrigins'
    BY <2>1, <2>2 DEF HintIsOrigins
  <2>4. QED
    BY <2>1, <2>3 DEF HintInv
<1>6. CASE Refresh
  <2>1. pc = "sleep" /\ pc' = "fetch" /\ UNCHANGED <<latest, origin>>
    BY <1>6 DEF Refresh
  <2>2. QED
    BY <2>1 DEF HintInv, HintIsOrigins
<1>7. CASE ReplyCanceled \/ SleepCanceled
  BY <1>7 DEF ReplyCanceled, SleepCanceled, HintInv
<1>8. CASE MutateLatest
  <2>1. UNCHANGED <<pc, reply, hint, origin>> /\ latest'.hint = latest.hint
    BY <1>8 DEF MutateLatest, TypeOK, Received
  <2>2. QED
    BY <2>1 DEF HintInv, HintIsOrigins
<1>9. QED
  BY <1>1, <1>2, <1>3, <1>4, <1>5, <1>6, <1>7, <1>8 DEF Next, Done

(* The hint that the invariant names is the one the endpoint's owner set. *)
LEMMA HintInvConveys ==
    ASSUME TypeOK, HintInv
    PROVE  HintIsConveyed
<1>1. SUFFICES ASSUME pc = "sleep", Parses(Marshal(origin))
               PROVE  IF origin.hint = NoHint THEN hint = 0
                      ELSE /\ hint - origin.hint < TicksPerSecond
                           /\ origin.hint - hint < TicksPerSecond
                           /\ (hint = 0) <=> (origin.hint = 0)
  BY DEF HintIsConveyed, RestsByHint
<1>2. latest.hint = Parse(Marshal(origin)).hint
      /\ hint = IF latest.hint = NoHint THEN 0 ELSE latest.hint
  BY <1>1 DEF HintInv, HintIsOrigins
<1>3. origin.hint = NoHint \/ origin.hint \in Nat
  <2>1. CASE origin \in Bundles
    BY <2>1, FederationAssumption DEF Bundles
  <2>2. CASE origin = ZeroBundle
    BY <2>2 DEF ZeroBundle
  <2>3. QED
    BY <2>1, <2>2 DEF TypeOK
<1>4. CASE origin.hint = NoHint
  BY <1>2, <1>4 DEF Parse, Marshal
<1>5. CASE origin.hint \in Nat
  <2>1. latest.hint = TicksPerSecond * ToSeconds(origin.hint)
    BY <1>2, <1>5, SecondsRoundUp DEF Parse, Marshal, NoHint
  <2>2. origin.hint # NoHint /\ latest.hint # NoHint
    BY <1>5, <2>1, SecondsRoundUp DEF NoHint
  <2>3. hint = TicksPerSecond * ToSeconds(origin.hint)
    BY <1>2, <2>1, <2>2
  <2>4. /\ hint \in Nat /\ hint >= origin.hint /\ hint < origin.hint + TicksPerSecond
        /\ (hint = 0) <=> (origin.hint = 0)
    BY <1>5, <2>3, SecondsRoundUp
  <2>5. TicksPerSecond \in Nat \ {0}
    BY FederationAssumption
  <2>6. hint - origin.hint < TicksPerSecond /\ origin.hint - hint < TicksPerSecond
    BY <1>5, <2>4, <2>5
  <2>7. QED
    BY <2>2, <2>4, <2>6
<1>6. QED
  BY <1>3, <1>4, <1>5

(* The latest bundle stays the one fetched last. *)
LEMMA UntouchedStep ==
    ASSUME TypeOK, UntouchedIsFetched, [Next]_vars
    PROVE  UntouchedIsFetched'
<1>1. CASE ReplyBundle
  BY <1>1 DEF ReplyBundle, UntouchedIsFetched
<1>2. CASE MutateLatest
  BY <1>2 DEF MutateLatest, UntouchedIsFetched
<1>3. CASE ~ReplyBundle /\ ~MutateLatest
  <2>1. UNCHANGED <<latest, fetched, touched>>
    BY <1>3 DEF Next, Done, ChangeServed, ServeRequest, FetchFails, ReplyCanceled, ReplyError,
       Refresh, SleepCanceled, TimerFires, ContextDone, vars
  <2>2. QED
    BY <2>1 DEF UntouchedIsFetched
<1>4. QED
  BY <1>1, <1>2, <1>3

(* OnUpdate is called in a step that fetches another bundle, and in no     *)
(* other.                                                                  *)
LEMMA UpdateStep ==
    ASSUME TypeOK, UntouchedIsFetched, [Next]_vars, ~touched
    PROVE  (beat' # beat) <=> (fetched' # fetched)
<1>1. CASE ReplyBundle
  <2>1. beat \in BOOLEAN
    BY DEF TypeOK
  <2>2. latest = fetched /\ fetched' = Parse(reply)
        /\ beat' = IF latest = Parse(reply) THEN beat ELSE ~beat
    BY <1>1 DEF ReplyBundle, UntouchedIsFetched
  <2>3. QED
    BY <2>1, <2>2
<1>2. CASE ~ReplyBundle
  <2>1. UNCHANGED <<beat, fetched>>
    BY <1>2 DEF Next, Done, ChangeServed, ServeRequest, FetchFails, ReplyCanceled, ReplyError,
       Refresh, SleepCanceled, TimerFires, ContextDone, MutateLatest, vars
  <2>2. QED
    BY <2>1
<1>3. QED
  BY <1>1, <1>2

-----------------------------------------------------------------------------
(* The invariants hold before the first fetch. *)
LEMMA FederationInit ==
    ASSUME Init
    PROVE  TypeOK /\ HintInv /\ UntouchedIsFetched
<1>1. ZeroBundle \in Received /\ Failed \in Docs
  BY DEF ZeroBundle, Received, Failed, Docs
<1>2. served \in Bundles /\ 0 \in 0..MaxChanges /\ 0 \in 0..MaxFailures /\ 0 \in Nat
  BY FederationAssumption DEF Init
<1>3. TypeOK
  BY <1>1, <1>2, Zenon DEF Init, TypeOK
<1>4. ~Parses(Marshal(ZeroBundle))
  BY DEF Parses, Marshal, ZeroBundle
<1>5. HintInv /\ UntouchedIsFetched
  BY <1>4 DEF Init, HintInv, HintIsOrigins, UntouchedIsFetched
<1>6. QED
  BY <1>3, <1>5

(* The variables of the endpoint and of WatchBundle have their types. *)
THEOREM FederationTypeCorrect == Spec => []TypeOK
<1>1. QED
  BY FederationInit, TypeStep, PTL DEF Spec

(* Through failed fetches, replies that do not parse and watchers that     *)
(* edit their bundles, NextRefresh is asked with the hint of the bundle    *)
(* served last, less than a second off, and with zero only for zero.       *)
THEOREM HintAlwaysConveyed == Spec => []HintIsConveyed
<1>1. QED
  BY FederationInit, TypeStep, HintStep, HintInvConveys, PTL DEF Spec

(* WatchBundle calls OnUpdate exactly when the bundle it fetched differs   *)
(* from the one fetched before, as long as the watcher leaves the bundles  *)
(* it is given alone.                                                      *)
THEOREM UpdatesAreChanges == Spec => UpdateIffChanged
<1>1. TypeOK /\ UntouchedIsFetched /\ [Next]_vars
        => [~touched => ((beat' # beat) <=> (fetched' # fetched))]_vars
  BY UpdateStep
<1>2. QED
  BY <1>1, FederationInit, TypeStep, UntouchedStep, PTL DEF Spec, UpdateIffChanged
=============================================================================
