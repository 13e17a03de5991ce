---------------------------- MODULE WatchLoopProofs ----------------------------
(***************************************************************************)
(* Proofs about WatchLoop: the type invariant, that the backoff counts the *)
(* failures in a row, and that the loop keeps the safety part of           *)
(* WatchContract, for any number of versions, failures and any delays.     *)
(***************************************************************************)
EXTENDS WatchLoop, SequenceTheorems, TLAPS

USE DEF Saturated

(* Where the loop is in the counting: a failure is added to streak when    *)
(* the stream fails and to n when the wait for it has been computed.       *)
BackoffInv ==
    /\ pc \in {"open", "recv", "sleep"} => n = streak
    /\ pc = "handle" => streak = Lesser(n + 1, Saturated)
    /\ BackoffCountsFailures

(* The messages in flight are in order, and none is older than what was    *)
(* delivered: a new stream starts with the server's current version.       *)
InOrder ==
    /\ delivered <= srv
    /\ \A i \in 1..Len(inflight) : delivered <= inflight[i] /\ inflight[i] <= srv
    /\ \A i, j \in 1..Len(inflight) : i < j => inflight[i] <= inflight[j]

(* A sleep follows a status that does not end the watch. *)
SleepIsRetry == pc = "sleep" => err \notin Terminal

-----------------------------------------------------------------------------
(* The operations on the messages in flight. *)
LEMMA SingletonSeq ==
    ASSUME NEW S, NEW x \in S
    PROVE  <<x>> \in Seq(S)
OBVIOUS

(* Every step keeps the variables within their types. *)
LEMMA TypeStep ==
    ASSUME TypeOK, [Next]_vars
    PROVE  TypeOK'
<1>1. /\ MaxVersion \in Nat /\ MaxFailures \in Nat /\ MaxDelay \in Nat /\ MaxDelay > 0
      /\ InitialDelay \in Nat
  BY WatchLoopAssumption
<1>2. CASE OpenStream
  <2>1. inflight' \in Seq(1..MaxVersion)
    <3>1. <<>> \in Seq(1..MaxVersion)
      OBVIOUS
    <3>2. ASSUME srv # 0 PROVE <<srv>> \in Seq(1..MaxVersion)
      BY <1>1, <3>2, SingletonSeq DEF TypeOK
    <3>3. QED
      BY <1>2, <3>1, <3>2 DEF OpenStream
  <2>2. QED
    BY <1>2, <2>1 DEF OpenStream, TypeOK, PCs
<1>3. CASE StreamFails
  <2>1. StopCodes \subseteq Codes
    BY DEF StopCodes, Codes, TypeOK
  <2>2. failures' \in 0..MaxFailures /\ err' \in Codes
    BY <1>1, <1>3, <2>1 DEF StreamFails, TypeOK
  <2>3. streak' \in 0..Saturated
    BY <1>1, <1>3 DEF StreamFails, Lesser, TypeOK
  <2>4. QED
    BY <1>3, <2>2, <2>3 DEF StreamFails, TypeOK, PCs
<1>4. CASE RecvMessage
  <2>1. inflight' \in Seq(1..MaxVersion) /\ Head(inflight) \in 1..MaxVersion
    <3>1. inflight \in Seq(1..MaxVersion) /\ inflight # <<>> /\ inflight' = Tail(inflight)
      BY <1>4 DEF RecvMessage, TypeOK
    <3>2. QED
      BY <3>1, HeadTailProperties
  <2>2. delivered' \in 0..MaxVersion
    BY <1>1, <1>4, <2>1 DEF RecvMessage, TypeOK
  <2>3. QED
    BY <1>1, <1>4, <2>1, <2>2 DEF RecvMessage, ResetBackoff, TypeOK
<1>5. CASE GiveUp
  BY <1>5 DEF GiveUp, TypeOK, PCs
<1>6. CASE Backoff
  <2>1. BackoffNext \in 0..MaxDelay
    <3>1. InitialDelay * (n + 1) \in Nat
      BY <1>1 DEF TypeOK
    <3>2. QED
      BY <1>1, <3>1 DEF BackoffNext, Lesser
  <2>2. n' \in 0..Saturated
    BY <1>1, <1>6 DEF Backoff, BumpBackoff, Lesser, TypeOK
  <2>3. QED
    BY <1>6, <2>1, <2>2 DEF Backoff, TypeOK, PCs
<1>7. CASE SleepOver \/ SleepCanceled
  BY <1>7 DEF SleepOver, SleepCanceled, TypeOK, PCs
<1>8. CASE TimerFires
  BY <1>8 DEF TimerFires, TypeOK
<1>9. CASE Publish
  <2>1. srv' \in 0..MaxVersion /\ srv + 1 \in 1..MaxVersion
    BY <1>1, <1>9 DEF Publish, TypeOK
  <2>2. inflight' \in Seq(1..MaxVersion)
    <3>1. inflight \in Seq(1..MaxVersion)
      BY DEF TypeOK
    <3>2. Append(inflight, srv + 1) \in Seq(1..MaxVersion)
      BY <2>1, <3>1, AppendProperties
    <3>3. QED
      BY <1>9, <3>1, <3>2 DEF Publish
  <2>3. QED
    BY <1>9, <2>1, <2>2 DEF Publish, TypeOK
<1>10. CASE ContextDone \/ CloseClient
  BY <1>10 DEF ContextDone, CloseClient, TypeOK
<1>11. CASE UNCHANGED vars
  BY <1>11 DEF vars, TypeOK
<1>12. QED
  BY <1>2, <1>3, <1>4, <1>5, <1>6, <1>7, <1>8, <1>9, <1>10, <1>11 DEF Next, Loop, Done

-----------------------------------------------------------------------------
(* The cap: once n has reached Saturated, a larger n would give the same   *)
(* delay.                                                                  *)
LEMMA DelayOfStreak ==
    ASSUME n \in 0..Saturated
    PROVE  BackoffNext = Lesser(InitialDelay * Lesser(n + 1, Saturated), MaxDelay)
<1>1. MaxDelay \in Nat /\ InitialDelay \in Nat /\ InitialDelay >= 1
  BY WatchLoopAssumption
<1>2. CASE n + 1 <= MaxDelay
  BY <1>1, <1>2 DEF BackoffNext, Lesser
<1>3. CASE ~(n + 1 <= MaxDelay)
  <2>1. n = MaxDelay
    BY <1>1, <1>3
  <2>2. ASSUME NEW x \in Nat, x >= MaxDelay PROVE InitialDelay * x >= MaxDelay
    <3>1. PICK d \in Nat : InitialDelay = d + 1
      BY <1>1
    <3>2. InitialDelay * x = d * x + x /\ d * x \in Nat
      BY <3>1
    <3>3. QED
      BY <1>1, <2>2, <3>2
  <2>3. InitialDelay * (n + 1) >= MaxDelay /\ InitialDelay * MaxDelay >= MaxDelay
    BY <1>1, <2>1, <2>2
  <2>4. InitialDelay * (n + 1) \in Nat /\ InitialDelay * MaxDelay \in Nat
    BY <1>1
  <2>5. QED
    BY <1>1, <1>3, <2>3, <2>4 DEF BackoffNext, Lesser
<1>4. QED
  BY <1>2, <1>3

(* The loop's functions advance and reset the backoff in step with the     *)
(* failures it sees.                                                       *)
LEMMA BackoffStep ==
    ASSUME TypeOK, BackoffInv, [Next]_vars
    PROVE  BackoffInv'
<1> USE DEF BackoffInv, BackoffCountsFailures
<1>1. n \in 0..Saturated /\ streak \in 0..Saturated /\ pc \in PCs
  BY DEF TypeOK
<1>2. CASE OpenStream
  BY <1>2 DEF OpenStream
<1>3. CASE StreamFails
  BY <1>1, <1>3 DEF StreamFails
<1>4. CASE RecvMessage
  BY <1>4 DEF RecvMessage, ResetBackoff
<1>5. CASE GiveUp
  BY <1>5 DEF GiveUp
<1>6. CASE Backoff
  <2>1. pc = "handle" /\ pc' = "sleep" /\ streak' = streak /\ n' = Lesser(n + 1, Saturated)
        /\ delay' = BackoffNext
    BY <1>6 DEF Backoff, BumpBackoff
  <2>2. QED
    BY <1>1, <2>1, DelayOfStreak
<1>7. CASE SleepOver \/ SleepCanceled
  BY <1>7 DEF SleepOver, SleepCanceled
<1>8. CASE TimerFires \/ Publish \/ ContextDone \/ CloseClient
  BY <1>8 DEF TimerFires, Publish, ContextDone, CloseClient
<1>9. CASE UNCHANGED vars
  BY <1>9 DEF vars
<1>10. QED
  BY <1>2, <1>3, <1>4, <1>5, <1>6, <1>7, <1>8, <1>9 DEF Next, Loop, Done

-----------------------------------------------------------------------------
(* Streams and retries keep the messages in order. *)
LEMMA OrderStep ==
    ASSUME TypeOK, InOrder, [Next]_vars
    PROVE  InOrder'
<1>1. /\ MaxVersion \in Nat /\ srv \in Nat /\ delivered \in Nat
      /\ inflight \in Seq(1..MaxVersion) /\ inflight \in Seq(Nat)
  BY WatchLoopAssumption DEF TypeOK
<1>2. CASE OpenStream
  <2>1. CASE srv = 0
    BY <1>1, <1>2, <2>1 DEF OpenStream, InOrder
  <2>2. CASE srv # 0
    BY <1>1, <1>2, <2>2 DEF OpenStream, InOrder
  <2>3. QED
    BY <2>1, <2>2
<1>3. CASE StreamFails
  BY <1>1, <1>3 DEF StreamFails, InOrder
<1>4. CASE RecvMessage
  <2>1. inflight' = Tail(inflight) /\ inflight # <<>> /\ srv' = srv
        /\ delivered' \in {delivered, Head(inflight)}
    BY <1>4 DEF RecvMessage
  <2>2. Head(inflight) = inflight[1] /\ Len(inflight) \in Nat \ {0}
    BY <1>1, <2>1
  <2>3. /\ Len(inflight') = Len(inflight) - 1
        /\ \A i \in 1..Len(inflight') : inflight'[i] = inflight[i + 1]
    BY <1>1, <2>1
  <2>4. \A i \in 1..Len(inflight') : i + 1 \in 1..Len(inflight) /\ 1 < i + 1
    BY <2>2, <2>3
  <2>5. /\ delivered' <= srv
        /\ \A j \in 1..Len(inflight) : 1 < j => delivered' <= inflight[j] /\ inflight[j] <= srv
    BY <1>1, <2>1, <2>2 DEF InOrder
  <2>6. \A i \in 1..Len(inflight') : delivered' <= inflight'[i] /\ inflight'[i] <= srv'
    BY <2>1, <2>3, <2>4, <2>5
  <2>7. \A i, j \in 1..Len(inflight') : i < j => inflight'[i] <= inflight'[j]
    BY <2>2, <2>3, <2>4 DEF InOrder
  <2>8. QED
    BY <2>1, <2>5, <2>6, <2>7 DEF InOrder
<1>5. CASE GiveUp \/ Backoff \/ SleepOver \/ SleepCanceled \/ TimerFires \/ ContextDone
           \/ CloseClient \/ UNCHANGED vars
  <2>1. UNCHANGED <<delivered, srv, inflight>>
    BY <1>5 DEF GiveUp, Backoff, SleepOver, SleepCanceled, TimerFires, ContextDone,
       CloseClient, vars
  <2>2. QED
    BY <2>1 DEF InOrder
<1>6. CASE Publish
  <2>1. srv' = srv + 1 /\ delivered' = delivered
    BY <1>6 DEF Publish
  <2>2. CASE inflight' = inflight
    BY <1>1, <2>1, <2>2 DEF InOrder
  <2>3. CASE inflight' = Append(inflight, srv + 1)
    <3>1. /\ Len(inflight') = Len(inflight) + 1 /\ Len(inflight) \in Nat
          /\ \A i \in 1..Len(inflight) : inflight'[i] = inflight[i] /\ inflight[i] \in Nat
          /\ inflight'[Len(inflight) + 1] = srv + 1
      BY <1>1, <2>3
    <3>2. \A i \in 1..Len(inflight') :
             \/ i \in 1..Len(inflight)
             \/ i = Len(inflight) + 1
      BY <3>1
    <3>3. \A i \in 1..Len(inflight') : delivered' <= inflight'[i] /\ inflight'[i] <= srv'
      BY <1>1, <2>1, <3>1, <3>2 DEF InOrder
    <3>4. ASSUME NEW i \in 1..Len(inflight'), NEW j \in 1..Len(inflight'), i < j
          PROVE  inflight'[i] <= inflight'[j]
      <4>1. i \in 1..Len(inflight)
        BY <3>1, <3>4
      <4>2. CASE j \in 1..Len(inflight)
        BY <3>1, <3>4, <4>1, <4>2 DEF InOrder
      <4>3. CASE j = Len(inflight) + 1
        <5>1. inflight[i] <= srv /\ inflight[i] \in Nat
          BY <3>1, <4>1 DEF InOrder
        <5>2. QED
          BY <1>1, <3>1, <4>1, <4>3, <5>1
      <4>4. QED
        BY <3>2, <4>2, <4>3
    <3>5. QED
      BY <1>1, <2>1, <3>3, <3>4 DEF InOrder
  <2>4. QED
    BY <1>6, <2>2, <2>3 DEF Publish
<1>7. QED
  BY <1>2, <1>3, <1>4, <1>5, <1>6 DEF Next, Loop, Done

(* Only a status that is retried leads to a sleep. *)
LEMMA SleepStep ==
    ASSUME TypeOK, SleepIsRetry, [Next]_vars
    PROVE  SleepIsRetry'
<1>1. CASE UNCHANGED vars
  BY <1>1 DEF vars, SleepIsRetry, Terminal
<1>2. QED
  BY <1>1 DEF Next, Loop, Done, OpenStream, StreamFails, RecvMessage, GiveUp, Backoff, SleepOver,
     SleepCanceled, TimerFires, Publish, ContextDone, CloseClient, SleepIsRetry, Terminal, PCs

-----------------------------------------------------------------------------
(* The refinement of WatchContract *)

(* The caller has given up: the context is done or the client is closed. *)
LEMMA StopRequested == (StopCodes # {}) <=> (ctxErr # "none" \/ clientClosed)
BY DEF StopCodes

(* Every step of the loop is one that its caller was promised, or one the  *)
(* caller does not see.                                                    *)
LEMMA ContractStep ==
    ASSUME TypeOK, InOrder, SleepIsRetry, [Next]_vars
    PROVE  [Contract!Next]_(Contract!cvars)
<1> DEFINE watching == pc # "returned"
           stop == StopCodes # {}
           fatal == pc \in {"handle", "returned"} /\ err \in FatalCodes
           Goal == [Contract!Next]_(Contract!cvars)
<1>0. FatalCodes = Terminal
  BY DEF FatalCodes, Terminal
<1>1. ASSUME watching' <=> watching, stop' <=> stop, fatal' <=> fatal, delivered' = delivered
      PROVE  Goal
  BY <1>1 DEF Contract!cvars
<1>2. CASE OpenStream \/ TimerFires \/ Publish \/ SleepOver \/ UNCHANGED vars
  <2>1. (watching' <=> watching) /\ (fatal' <=> fatal) /\ delivered' = delivered
    BY <1>2 DEF OpenStream, TimerFires, Publish, SleepOver, FatalCodes, vars
  <2>2. stop' <=> stop
    BY <1>2 DEF OpenStream, TimerFires, Publish, SleepOver, StopCodes, vars
  <2>3. QED
    BY <1>1, <2>1, <2>2
<1>3. CASE StreamFails
  <2>1. watching /\ watching' /\ ~fatal /\ delivered' = delivered /\ (stop' <=> stop)
    BY <1>3 DEF StreamFails, StopCodes
  <2>2. CASE fatal'
    BY <2>1, <2>2 DEF Contract!Next, Contract!Fatal
  <2>3. CASE ~fatal'
    BY <1>1, <2>1, <2>3
  <2>4. QED
    BY <2>2, <2>3
<1>4. CASE RecvMessage
  <2>1. watching /\ watching' /\ ~fatal /\ ~fatal' /\ (stop' <=> stop)
    BY <1>4 DEF RecvMessage, StopCodes
  <2>2. delivered \in Nat /\ delivered' \in Nat /\ delivered' >= delivered
    <3>1. inflight \in Seq(1..MaxVersion) /\ inflight # <<>> /\ delivered \in Nat
      BY <1>4, WatchLoopAssumption DEF RecvMessage, TypeOK
    <3>2. Head(inflight) = inflight[1] /\ 1 \in 1..Len(inflight)
      BY <3>1
    <3>3. Head(inflight) \in Nat
      BY <3>1, HeadTailProperties, WatchLoopAssumption
    <3>4. QED
      BY <1>4, <3>1, <3>2, <3>3 DEF RecvMessage, InOrder
  <2>3. CASE delivered' = delivered
    BY <1>1, <2>1, <2>3
  <2>4. CASE delivered' # delivered
    <3>1. delivered' > delivered
      BY <2>2, <2>4
    <3>2. QED
      BY <2>1, <2>2, <3>1 DEF Contract!Next, Contract!Update
  <2>5. QED
    BY <2>3, <2>4
<1>5. CASE GiveUp
  BY <1>0, <1>5 DEF GiveUp, FatalCodes, StopCodes, Contract!Next, Contract!Return
<1>6. CASE Backoff
  <2>1. watching /\ watching' /\ ~fatal /\ ~fatal' /\ delivered' = delivered /\ (stop' <=> stop)
    BY <1>0, <1>6 DEF Backoff, StopCodes
  <2>2. QED
    BY <1>1, <2>1
<1>7. CASE SleepCanceled
  <2>1. watching /\ ~watching' /\ ~fatal /\ delivered' = delivered /\ (stop' <=> stop) /\ stop
    BY <1>7, StopRequested DEF SleepCanceled, StopCodes
  <2>2. ~fatal'
    BY <1>0, <1>7 DEF SleepCanceled, SleepIsRetry, FatalCodes
  <2>3. QED
    BY <2>1, <2>2 DEF Contract!Next, Contract!Return
<1>8. CASE ContextDone \/ CloseClient
  <2>1. (watching' <=> watching) /\ (fatal' <=> fatal) /\ delivered' = delivered
    BY <1>8 DEF ContextDone, CloseClient, FatalCodes
  <2>2. stop'
    BY <1>8 DEF ContextDone, CloseClient, StopCodes
  <2>3. CASE stop
    BY <1>1, <2>1, <2>2, <2>3
  <2>4. CASE ~stop
    BY <2>1, <2>2, <2>4 DEF Contract!Next, Contract!Stop
  <2>5. QED
    BY <2>3, <2>4
<1>9. QED
  BY <1>2, <1>3, <1>4, <1>5, <1>6, <1>7, <1>8 DEF Next, Loop, Done

-----------------------------------------------------------------------------
(* A watch that begins has a new backoff and nothing delivered. *)
LEMMA WatchLoopInit ==
    ASSUME Init
    PROVE  TypeOK /\ BackoffInv /\ InOrder /\ SleepIsRetry /\ Contract!Init
<1>1. TypeOK
  <2>1. inflight \in Seq(1..MaxVersion)
    BY EmptySeq DEF Init
  <2>2. \A m \in Nat : 0 \in 0..m
    OBVIOUS
  <2>3. MaxVersion \in Nat /\ MaxFailures \in Nat /\ MaxDelay \in Nat
    BY WatchLoopAssumption
  <2>4. QED
    BY <2>1, <2>2, <2>3, Zenon DEF Init, TypeOK, PCs
<1>2. BackoffInv /\ SleepIsRetry
  BY DEF Init, BackoffInv, BackoffCountsFailures, SleepIsRetry
<1>3. InOrder
  BY DEF Init, InOrder
<1>4. Contract!Init
  BY DEF Init, Contract!Init, StopCodes
<1>5. QED
  BY <1>1, <1>2, <1>3, <1>4

(* Whatever the server and the network do, the loop's variables have their *)
(* types.                                                                  *)
THEOREM WatchLoopTypeCorrect == Spec => []TypeOK
<1>1. QED
  BY WatchLoopInit, TypeStep, PTL DEF Spec

(* For any delays and through any interleaving of failures, messages,      *)
(* retries and cancellations, the wait before a retry is that of the       *)
(* failures in a row: linearBackoff.Next and Reset, called from different  *)
(* functions, count them.                                                  *)
THEOREM WaitGrowsWithFailures == Spec => []BackoffCountsFailures
<1>1. BackoffInv => BackoffCountsFailures
  BY DEF BackoffInv
<1>2. QED
  BY <1>1, WatchLoopInit, TypeStep, BackoffStep, PTL DEF Spec

(* Updates reach the watcher in order across reconnections, nothing is     *)
(* called back after Watch* has returned, and it returns for a cause: the  *)
(* loop implements the safety part of WatchContract.                       *)
THEOREM WatchLoopRefinesContract == Spec => Contract!Safety
<1>1. QED
  BY WatchLoopInit, TypeStep, OrderStep, SleepStep, ContractStep, PTL DEF Spec, Contract!Safety
=============================================================================
