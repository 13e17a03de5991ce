----------------------------- MODULE SourceProofs -----------------------------
(***************************************************************************)
(* Proofs about Watcher and about Source, which extends it.                *)
(*                                                                         *)
(* Watcher: the safety invariants, for one or two kinds of material, any   *)
(* set of callers of Close, any number of updates, an owned or a given     *)
(* client, watcher and WITSource alike.  TypeOK is inductive by itself.    *)
(* Given it, CtorInv and UpdateInv are; the other parts of IInv rest on    *)
(* these two.  Each part has a lemma that a step preserves it, with one    *)
(* step per action that can disturb it.                                    *)
(*                                                                         *)
(* Source: its steps are steps of Watcher or leave the watcher's state     *)
(* alone, so every invariant proved of Watcher holds of a source; from     *)
(* those, no getter called after Close returns material, and a lone        *)
(* consumer that reads under the lock does not miss an update.             *)
(***************************************************************************)
EXTENDS Source, FiniteSetTheorems, TLAPS

USE DEF ctorVars, watchVars, closeVars, chanVars, Kinds

(* Every step of the constructor, a goroutine, a call of Close or a        *)
(* receiver keeps the state well typed.                                    *)
LEMMA TypeStep ==
    ASSUME TypeOK, [Next]_vars
    PROVE  TypeOK'
<1> USE WatcherAssumption DEF TypeOK, GPCs, CPCs, CloseCallers
<1>1. CASE NewClient
  BY <1>1 DEF NewClient
<1>2. CASE NewClientFails
  BY <1>2 DEF NewClientFails, Fail
<1>3. CASE StartWatch
  <2>1. started + 1 \in 0..NumKinds /\ started + 1 \in 1..NumKinds
    BY <1>3 DEF StartWatch
  <2>2. gpc' \in [Kinds -> GPCs]
    BY <1>3, <2>1 DEF StartWatch
  <2>3. QED
    BY <1>3, <2>1, <2>2 DEF StartWatch
<1>4. CASE WaitForSet
  <2>1. waited + 1 \in 0..NumKinds
    BY <1>4 DEF WaitForSet, Waiting
  <2>2. QED
    BY <1>4, <2>1, SMTT(30) DEF WaitForSet
<1>5. CASE WaitForErr
  BY <1>5 DEF WaitForErr, Fail
<1>6. CASE WaitForContext
  BY <1>6 DEF WaitForContext, Fail
<1>7. CASE DrainAndReturn
  BY <1>7 DEF DrainAndReturn
<1>8. CASE ReturnError \/ ContextDone
  BY <1>8 DEF ReturnError, ContextDone
<1>9. ASSUME NEW k \in Kinds, OnUpdate(k) PROVE TypeOK'
  <2>1. ver[k] + 1 \in 0..MaxVersion
    BY <1>9 DEF OnUpdate
  <2>2. QED
    BY <1>9, <2>1, SMTT(30) DEF OnUpdate
<1>10. ASSUME NEW k \in Kinds, Trigger(k) PROVE TypeOK'
  BY <1>10 DEF Trigger
<1>11. ASSUME NEW k \in Kinds, SignalSet(k) PROVE TypeOK'
  BY <1>11, SMTT(30) DEF SignalSet
<1>12. ASSUME NEW k \in Kinds, WatchReturns(k) PROVE TypeOK'
  BY <1>12, SMTT(30) DEF WatchReturns
<1>13. ASSUME NEW k \in Kinds, SendErr(k) PROVE TypeOK'
  BY <1>13 DEF SendErr
<1>14. ASSUME NEW c \in Closers, CallClose(c) PROVE TypeOK'
  BY <1>14 DEF CallClose
<1>15. ASSUME NEW c \in CloseCallers, LockClose(c) PROVE TypeOK'
  BY <1>15 DEF LockClose
<1>16. ASSUME NEW c \in CloseCallers, WgWait(c) PROVE TypeOK'
  BY <1>16 DEF WgWait
<1>17. ASSUME NEW c \in CloseCallers, RunCloser(c) PROVE TypeOK'
  BY <1>17 DEF RunCloser
<1>18. ASSUME NEW c \in CloseCallers, UnlockClose(c) PROVE TypeOK'
  BY <1>18 DEF UnlockClose
<1>19. CASE Receive
  BY <1>19 DEF Receive
<1>20. CASE UNCHANGED vars
  BY <1>20 DEF vars
<1>21. QED
  BY <1>1, <1>2, <1>3, <1>4, <1>5, <1>6, <1>7, <1>8, <1>9, <1>10, <1>11, <1>12,
     <1>13, <1>14, <1>15, <1>16, <1>17, <1>18, <1>19, <1>20
     DEF Next, CtorNext, WatchNext, CloseNext, Finished

(* The constructor starts in a well-typed state. *)
LEMMA InitTypeOK == Init => TypeOK
<1>1. SUFFICES ASSUME Init PROVE TypeOK
  OBVIOUS
<1>2. hasClient \in BOOLEAN /\ pc \in {"new", "run", "fail", "ok", "err"}
  BY <1>1, WatcherAssumption DEF Init
<1>3. started \in 0..NumKinds /\ waited \in 0..NumKinds /\ 0 \in 0..MaxVersion
  BY <1>1, WatcherAssumption DEF Init
<1>4. QED
  BY <1>1, <1>2, <1>3 DEF Init, TypeOK, GPCs, CPCs, CloseCallers

(* The type invariant of the watcher: its state stays well typed however   *)
(* the constructor, the watches and the callers of Close interleave.       *)
THEOREM TypeCorrect == Spec => []TypeOK
<1>1. Init => TypeOK
  BY InitTypeOK
<1>2. TypeOK /\ [Next]_vars => TypeOK'
  BY TypeStep
<1>3. QED
  BY <1>1, <1>2, PTL DEF Spec

-----------------------------------------------------------------------------
(* The constructor has started the watches up to started, has seen the     *)
(* first update of those up to waited, and of all when it returns.         *)
LEMMA CtorStep ==
    ASSUME TypeOK, CtorInv, [Next]_vars
    PROVE  CtorInv'
<1> USE WatcherAssumption DEF TypeOK, CtorInv, GPCs
<1>1. CASE NewClient
  BY <1>1 DEF NewClient
<1>2. CASE NewClientFails
  BY <1>2 DEF NewClientFails, Fail
<1>3. CASE StartWatch
  <2>1. started + 1 \in Kinds
    BY <1>3 DEF StartWatch
  <2>2. \A k \in Kinds : gpc'[k] = IF k = started + 1 THEN "watch" ELSE gpc[k]
    BY <1>3, <2>1 DEF StartWatch
  <2>3. \A k \in Kinds : gpc'[k] = "off" <=> k > started'
    BY <1>3, <2>1, <2>2 DEF StartWatch
  <2>4. QED
    BY <1>3, <2>1, <2>3 DEF StartWatch
<1>4. CASE WaitForSet
  <2>1. \A k \in Kinds : k <= waited + 1 => isSet[k]
    BY <1>4 DEF WaitForSet, Waiting
  <2>2. waited + 1 <= started
    BY <1>4 DEF WaitForSet, Waiting
  <2>3. QED
    BY <1>4, <2>1, <2>2 DEF WaitForSet, Waiting
<1>5. CASE WaitForErr \/ WaitForContext
  BY <1>5, SMTT(30) DEF WaitForErr, WaitForContext, Fail
<1>6. CASE DrainAndReturn \/ ReturnError \/ ContextDone \/ Receive
  BY <1>6, SMTT(30) DEF DrainAndReturn, ReturnError, ContextDone, Receive
<1>7. ASSUME NEW k \in Kinds, WatchNext(k) PROVE CtorInv'
  <2>1. UNCHANGED ctorVars
    BY <1>7 DEF WatchNext, OnUpdate, Trigger, SignalSet, WatchReturns, SendErr
  <2>2. \A j \in Kinds : gpc'[j] = "off" <=> gpc[j] = "off"
    BY <1>7 DEF WatchNext, OnUpdate, Trigger, SignalSet, WatchReturns, SendErr
  <2>3. \A j \in Kinds : isSet[j] => isSet'[j]
    BY <1>7 DEF WatchNext, OnUpdate, Trigger, SignalSet, WatchReturns, SendErr
  <2>4. QED
    BY <2>1, <2>2, <2>3
<1>8. CASE UNCHANGED <<ctorVars, watchVars>>
  BY <1>8
<1>9. ASSUME NEW c \in CloseCallers, CallClose(c) \/ CloseNext(c)
      PROVE  UNCHANGED <<ctorVars, watchVars>>
  BY <1>9 DEF CallClose, CloseNext, LockClose, WgWait, RunCloser, UnlockClose
<1>10. QED
  BY <1>1, <1>2, <1>3, <1>4, <1>5, <1>6, <1>7, <1>8, <1>9
     DEF Next, CtorNext, Finished, vars, CloseCallers

(* A goroutine inside a callback has stored its update; if the kind was    *)
(* already announced to the constructor, it is not the first.              *)
LEMMA UpdateStep ==
    ASSUME TypeOK, CtorInv, UpdateInv, [Next]_vars
    PROVE  UpdateInv'
<1> USE WatcherAssumption DEF TypeOK, UpdateInv, GPCs
<1>1. CASE StartWatch
  <2>1. started + 1 \in Kinds
    BY <1>1 DEF StartWatch
  <2>2. \A k \in Kinds : gpc'[k] = IF k = started + 1 THEN "watch" ELSE gpc[k]
    BY <1>1, <2>1 DEF StartWatch
  <2>3. QED
    BY <1>1, <2>2 DEF StartWatch
<1>2. ASSUME NEW k \in Kinds, OnUpdate(k) PROVE UpdateInv'
  BY <1>2 DEF OnUpdate
<1>3. ASSUME NEW k \in Kinds, Trigger(k) PROVE UpdateInv'
  BY <1>3 DEF Trigger
<1>4. ASSUME NEW k \in Kinds, SignalSet(k) PROVE UpdateInv'
  BY <1>4 DEF SignalSet
<1>5. ASSUME NEW k \in Kinds, WatchReturns(k) \/ SendErr(k) PROVE UpdateInv'
  BY <1>5 DEF WatchReturns, SendErr
<1>6. CASE UNCHANGED watchVars
  BY <1>6
<1>7. ASSUME NEW c \in CloseCallers, CallClose(c) \/ CloseNext(c)
      PROVE  UNCHANGED watchVars
  BY <1>7 DEF CallClose, CloseNext, LockClose, WgWait, RunCloser, UnlockClose
<1>8. CASE CtorNext /\ ~StartWatch
  BY <1>6, <1>8 DEF CtorNext, NewClient, NewClientFails, WaitForSet, WaitForErr,
     WaitForContext, DrainAndReturn, ReturnError
<1>9. QED
  BY <1>1, <1>2, <1>3, <1>4, <1>5, <1>6, <1>7, <1>8
     DEF Next, WatchNext, ContextDone, Receive, Finished, vars, CloseCallers

(* Only goroutines that have exited have an error in errCh. *)
LEMMA ErrStep ==
    ASSUME TypeOK, CtorInv, ErrInv, [Next]_vars
    PROVE  ErrInv'
<1> USE WatcherAssumption DEF TypeOK, ErrInv, GPCs
<1>1. CASE StartWatch
  <2>1. started + 1 \in Kinds /\ gpc[started + 1] = "off"
    BY <1>1 DEF StartWatch, CtorInv
  <2>2. \A k \in Kinds : gpc'[k] = IF k = started + 1 THEN "watch" ELSE gpc[k]
    BY <1>1, <2>1 DEF StartWatch
  <2>3. QED
    BY <1>1, <2>1, <2>2 DEF StartWatch
<1>2. CASE WaitForErr
  BY <1>2 DEF WaitForErr
<1>3. ASSUME NEW k \in Kinds, OnUpdate(k) \/ Trigger(k) \/ SignalSet(k) \/ WatchReturns(k)
      PROVE  ErrInv'
  BY <1>3 DEF OnUpdate, Trigger, SignalSet, WatchReturns
<1>4. ASSUME NEW k \in Kinds, SendErr(k) PROVE ErrInv'
  BY <1>4 DEF SendErr
<1>5. CASE UNCHANGED <<gpc, errCh>>
  BY <1>5
<1>6. ASSUME NEW c \in CloseCallers, CallClose(c) \/ CloseNext(c)
      PROVE  UNCHANGED <<gpc, errCh>>
  BY <1>6 DEF CallClose, CloseNext, LockClose, WgWait, RunCloser, UnlockClose
<1>7. CASE CtorNext /\ ~StartWatch /\ ~WaitForErr
  BY <1>5, <1>7 DEF CtorNext, NewClient, NewClientFails, WaitForSet,
     WaitForContext, DrainAndReturn, ReturnError
<1>8. QED
  BY <1>1, <1>2, <1>3, <1>4, <1>5, <1>6, <1>7
     DEF Next, WatchNext, ContextDone, Receive, Finished, vars, CloseCallers

(* Cardinality of errCh: a goroutine about to send has none there, and     *)
(* there are at most ErrCap goroutines.                                    *)
LEMMA ErrChHasRoom ==
    ASSUME TypeOK, ErrInv, NEW k \in Kinds, gpc[k] = "send"
    PROVE  Cardinality(errCh) < ErrCap
<1>1. errCh \subseteq Kinds \ {k}
  BY DEF TypeOK, ErrInv
<1>2. PICK j \in 1..2 : Kinds \ {k} \subseteq {j}
  BY WatcherAssumption
<1>3. errCh \subseteq {j} /\ IsFiniteSet({j}) /\ Cardinality({j}) = 1
  BY <1>1, <1>2, FS_Singleton
<1>4. Cardinality(errCh) <= 1 /\ Cardinality(errCh) \in Nat
  BY <1>3, FS_Subset, FS_CardinalityType
<1>5. QED
  BY <1>4 DEF ErrCap

(* Notifications.  A step never leaves an update unannounced, and the      *)
(* returned source never has a notification of an initial update.          *)
LEMMA ChannelStep ==
    ASSUME TypeOK, CtorInv, UpdateInv, NoSpuriousNotification, NoLostUpdate, [Next]_vars
    PROVE  NoSpuriousNotification' /\ NoLostUpdate'
<1> DEFINE Goal == NoSpuriousNotification' /\ NoLostUpdate'
<1> USE WatcherAssumption DEF TypeOK, NoSpuriousNotification, NoLostUpdate, GPCs
<1>1. CASE StartWatch
  <2>1. started + 1 \in Kinds /\ gpc[started + 1] = "off"
    BY <1>1 DEF StartWatch, CtorInv
  <2>2. \A k \in Kinds : gpc'[k] = IF k = started + 1 THEN "watch" ELSE gpc[k]
    BY <1>1, <2>1 DEF StartWatch
  <2>3. QED
    BY <1>1, <2>1, <2>2 DEF StartWatch
<1>2. CASE DrainAndReturn \/ Receive
  BY <1>2 DEF DrainAndReturn, Receive
<1>3. ASSUME NEW k \in Kinds, OnUpdate(k) PROVE Goal
  BY <1>3 DEF OnUpdate
<1>4. ASSUME NEW k \in Kinds, Trigger(k) PROVE Goal
  <2>1. pc = "ok" => ver[k] >= 2
    BY <1>4 DEF Trigger, CtorInv, UpdateInv
  <2>2. QED
    BY <1>4, <2>1 DEF Trigger
<1>5. ASSUME NEW k \in Kinds, SignalSet(k) \/ WatchReturns(k) \/ SendErr(k) PROVE Goal
  <2>1. UNCHANGED <<pc, ver, chanVars>>
    BY <1>5 DEF SignalSet, WatchReturns, SendErr
  <2>2. \A j \in Kinds : gpc[j] = "trigger" => gpc'[j] = "trigger"
    BY <1>5 DEF SignalSet, WatchReturns, SendErr
  <2>3. QED
    BY <2>1, <2>2
<1>6. CASE UNCHANGED <<gpc, ver, chanVars>> /\ (pc' = "ok" => pc = "ok")
  BY <1>6
<1>7. ASSUME NEW c \in CloseCallers, CallClose(c) \/ CloseNext(c)
      PROVE  UNCHANGED <<gpc, ver, chanVars>> /\ (pc' = "ok" => pc = "ok")
  BY <1>7 DEF CallClose, CloseNext, LockClose, WgWait, RunCloser, UnlockClose
<1>8. CASE CtorNext /\ ~StartWatch /\ ~DrainAndReturn
  BY <1>6, <1>8 DEF CtorNext, NewClient, NewClientFails, WaitForSet, WaitForErr,
     WaitForContext, ReturnError, Fail
<1>9. QED
  BY <1>1, <1>2, <1>3, <1>4, <1>5, <1>6, <1>7, <1>8
     DEF Next, WatchNext, ContextDone, Finished, vars, CloseCallers

(* What closeMtx, the closed flag and the state of a call of Close say:    *)
(* past wg.Wait every goroutine has stopped, and the client of an owner is *)
(* closed exactly when closed is set.                                      *)
LEMMA CloseStep ==
    ASSUME TypeOK, CtorInv, CloseInv, [Next]_vars
    PROVE  CloseInv'
<1> USE WatcherAssumption DEF TypeOK, CloseInv, ClosesClient, Stopped, GPCs, CPCs
<1>1. CASE NewClient
  BY <1>1 DEF NewClient, CloseCallers
<1>2. CASE NewClientFails
  BY <1>2 DEF NewClientFails, Fail, CtorInv, CloseCallers
<1>3. CASE StartWatch
  <2>1. ~closed /\ \A c \in CloseCallers : cpc[c] = "idle"
    BY <1>3 DEF StartWatch
  <2>2. QED
    BY <1>3, <2>1 DEF StartWatch
<1>4. CASE WaitForErr \/ WaitForContext
  BY <1>4, SMTT(30) DEF WaitForErr, WaitForContext, Waiting, Fail, CloseCallers
<1>5. CASE WaitForSet \/ ContextDone \/ Receive
  BY <1>5, SMTT(30) DEF WaitForSet, ContextDone, Receive
<1>6. CASE DrainAndReturn
  BY <1>6 DEF DrainAndReturn
<1>7. CASE ReturnError
  BY <1>7 DEF ReturnError, CloseCallers
<1>8. ASSUME NEW k \in Kinds, WatchNext(k) PROVE CloseInv'
  <2>1. \A j \in Kinds : Stopped(j) => Stopped(j)'
    BY <1>8 DEF WatchNext, OnUpdate, Trigger, SignalSet, WatchReturns, SendErr
  <2>2. UNCHANGED <<ctorVars, closeVars>>
    BY <1>8 DEF WatchNext, OnUpdate, Trigger, SignalSet, WatchReturns, SendErr
  <2>3. QED
    BY <2>1, <2>2
<1>9. ASSUME NEW c \in Closers, CallClose(c) PROVE CloseInv'
  BY <1>9 DEF CallClose, CloseCallers
<1>10. ASSUME NEW c \in CloseCallers, LockClose(c) PROVE CloseInv'
  BY <1>10 DEF LockClose
<1>11. ASSUME NEW c \in CloseCallers, WgWait(c) PROVE CloseInv'
  BY <1>11 DEF WgWait
<1>12. ASSUME NEW c \in CloseCallers, RunCloser(c) PROVE CloseInv'
  BY <1>12 DEF RunCloser
<1>13. ASSUME NEW c \in CloseCallers, UnlockClose(c) PROVE CloseInv'
  BY <1>13 DEF UnlockClose
<1>14. CASE UNCHANGED vars
  BY <1>14 DEF vars
<1>15. QED
  BY <1>1, <1>2, <1>3, <1>4, <1>5, <1>6, <1>7, <1>8, <1>9, <1>10, <1>11, <1>12,
     <1>13, <1>14
     DEF Next, CtorNext, CloseNext, Finished

-----------------------------------------------------------------------------
(* The constructor starts in a state of the inductive invariant. *)
LEMMA InitInvariant ==
    ASSUME Init
    PROVE  TypeOK /\ IInv
<1>1. TypeOK
  BY InitTypeOK
<1>2. CtorInv
  <2>1. pc = "new" => ~hasClient
    BY WatcherAssumption DEF Init
  <2>2. pc # "ok" /\ \A k \in Kinds : gpc[k] = "off" /\ k > started
    BY WatcherAssumption DEF Init
  <2>3. started = 0 /\ waited = 0
    BY DEF Init
  <2>4. QED
    BY <2>1, <2>2, <2>3, WatcherAssumption DEF CtorInv
<1>3. UpdateInv /\ ErrInv /\ NoSpuriousNotification /\ NoLostUpdate
  BY DEF Init, UpdateInv, ErrInv, NoSpuriousNotification, NoLostUpdate
<1>4. CloseInv
  BY WatcherAssumption DEF Init, CloseInv, CloseCallers
<1>5. QED
  BY <1>1, <1>2, <1>3, <1>4 DEF IInv

(* Every step preserves the inductive invariant. *)
LEMMA InvariantStep ==
    ASSUME TypeOK, IInv, [Next]_vars
    PROVE  TypeOK' /\ IInv'
BY TypeStep, CtorStep, UpdateStep, ErrStep, CloseStep, ChannelStep DEF IInv

(* The inductive invariant holds in every reachable state of the watcher.  *)
THEOREM Inductive == Spec => [](TypeOK /\ IInv)
<1>1. Init => TypeOK /\ IInv
  BY InitInvariant
<1>2. TypeOK /\ IInv /\ [Next]_vars => (TypeOK /\ IInv)'
  BY InvariantStep
<1>3. QED
  BY <1>1, <1>2, PTL DEF Spec

(* Every update stored by a callback is announced: the one-slot channel    *)
(* and drainUpdated merge notifications but never lose the last one.       *)
THEOREM UpdatesAnnounced == Spec => []NoLostUpdate
<1>1. IInv => NoLostUpdate
  BY DEF IInv
<1>2. QED
  BY <1>1, Inductive, PTL

(* The source the constructor returns holds material of every kind, and    *)
(* its first notification is of an update after the initial ones (#260).   *)
THEOREM ConstructedFresh == Spec => [](ConstructedIsComplete /\ NoSpuriousNotification)
<1>1. TypeOK /\ IInv => ConstructedIsComplete /\ NoSpuriousNotification
  BY WatcherAssumption DEF IInv, TypeOK, CtorInv, UpdateInv, ConstructedIsComplete
<1>2. QED
  BY <1>1, Inductive, PTL

(* A watch goroutine can always deposit its error and exit, so wg.Wait in  *)
(* closeBase waits for nobody who waits for a reader of errCh.             *)
THEOREM ErrorsNeverBlock == Spec => []ErrChNeverBlocks
<1>1. TypeOK /\ IInv => ErrChNeverBlocks
  BY ErrChHasRoom DEF IInv, ErrChNeverBlocks
<1>2. QED
  BY <1>1, Inductive, PTL

(* closeBase: whoever sees Close return sees every watch stopped and an    *)
(* owned client closed once, not before the watches stopped.               *)
THEOREM CloseSafe == Spec => [](ClosedIsQuiet /\ ClientClosedOnce)
<1>1. ASSUME TypeOK, IInv PROVE ClosedIsQuiet
  <2>1. CASE closed
    BY <1>1, <2>1 DEF IInv, CloseInv, ClosedIsQuiet, ClosesClient
  <2>2. CASE ~closed
    <3>1. \A c \in CloseCallers : cpc[c] # "done"
      BY <1>1, <2>2 DEF IInv, CloseInv
    <3>2. pc = "err" => ~hasClient /\ \A k \in Kinds : gpc[k] = "off"
      BY <1>1, <2>2 DEF IInv, CloseInv, CtorInv
    <3>3. QED
      BY <3>1, <3>2 DEF ClosedIsQuiet, Stopped
  <2>3. QED
    BY <2>1, <2>2
<1>2. ASSUME TypeOK, IInv PROVE ClientClosedOnce
  BY <1>2 DEF IInv, CloseInv, ClientClosedOnce, ClosesClient
<1>3. QED
  BY <1>1, <1>2, Inductive, PTL

(* closeBase is idempotent: all callers of Close, the constructor that     *)
(* fails among them, get the error of the one client.Close.                *)
THEOREM CloseCallersAgree == Spec => []CloseCallsAgree
<1>1. IInv => CloseCallsAgree
  BY DEF IInv, CloseInv, CloseCallsAgree
<1>2. QED
  BY <1>1, Inductive, PTL

-----------------------------------------------------------------------------
(* Sources *)

USE DEF sourceVars

(* A step of a source is a step of its watcher, or leaves it unchanged. *)
LEMMA SourceStepIsWatcherStep ==
    ASSUME [SourceNext]_allVars
    PROVE  [Next]_vars
<1>1. CASE WatcherStep
  BY <1>1 DEF WatcherStep, Next, WatchNext
<1>2. ASSUME NEW k \in Kinds, TriggerStamped(k) PROVE Next
  BY <1>2 DEF TriggerStamped, Next, WatchNext
<1>3. ASSUME NEW c \in Closers, MarkClosed(c) PROVE UNCHANGED vars
  BY <1>3 DEF MarkClosed
<1>4. ASSUME NEW c \in Closers, CloseWatcher(c) PROVE Next
  BY <1>4 DEF CloseWatcher, Next
<1>5. ASSUME NEW u \in Consumers, Wake(u) PROVE Next
  BY <1>5 DEF Wake, Next
<1>6. ASSUME NEW u \in Consumers, ConsumerNext(u), ~Wake(u) PROVE UNCHANGED vars
  BY <1>6 DEF ConsumerNext, FirstGet, CallGet, GetNext, CheckClosed, Read, CallWait,
     WaitExpires
<1>7. CASE SourceFinished
  BY <1>7 DEF SourceFinished, Next
<1>8. CASE UNCHANGED allVars
  BY <1>8 DEF allVars
<1>9. QED
  BY <1>1, <1>2, <1>3, <1>4, <1>5, <1>6, <1>7, <1>8 DEF SourceNext

(* The watcher inside a source keeps the invariant proved of it alone. *)
LEMMA SourceKeepsWatcher == SourceSpec => [](TypeOK /\ IInv)
<1>1. SourceInit => TypeOK /\ IInv
  BY InitInvariant DEF SourceInit
<1>2. TypeOK /\ IInv /\ [SourceNext]_allVars => (TypeOK /\ IInv)'
  BY SourceStepIsWatcherStep, InvariantStep
<1>3. QED
  BY <1>1, <1>2, PTL DEF SourceSpec

-----------------------------------------------------------------------------
(* The part of SourceTypeOK that the argument about Close needs. *)
GetterTypes ==
    /\ upc \in [Consumers -> UPCs]
    /\ late \in [Consumers -> BOOLEAN]

(* While the watcher takes a step, closed stays set and no caller of Close *)
(* other than the constructor begins.                                      *)
Stable ==
    /\ closed => closed'
    /\ \A c \in Closers : cpc'[c] # "idle" => cpc[c] # "idle"

(* No step of the watcher clears closed, or begins a call of Close that    *)
(* the application makes.                                                  *)
LEMMA WatcherStepStable ==
    ASSUME TypeOK, WatcherStep
    PROVE  Stable
<1>1. cpc \in [CloseCallers -> CPCs] /\ closed \in BOOLEAN
  BY DEF TypeOK
<1>2. ASSUME UNCHANGED closeVars PROVE Stable
  BY <1>2 DEF closeVars, Stable
<1>3. ASSUME Fail PROVE Stable
  BY <1>1, <1>3, WatcherAssumption DEF Fail, Stable, CloseCallers
<1>4. CASE CtorNext \/ ContextDone
  BY <1>2, <1>3, <1>4 DEF CtorNext, NewClient, NewClientFails, StartWatch, WaitForSet,
     WaitForErr, WaitForContext, DrainAndReturn, ReturnError, ContextDone
<1>5. ASSUME NEW k \in Kinds, OnUpdate(k) \/ SignalSet(k) \/ WatchReturns(k) \/ SendErr(k)
      PROVE  Stable
  BY <1>2, <1>5 DEF OnUpdate, SignalSet, WatchReturns, SendErr
<1>6. ASSUME NEW c \in CloseCallers, CloseNext(c) PROVE Stable
  <2>1. /\ cpc[c] # "idle"
        /\ \E p \in CPCs : cpc' = [cpc EXCEPT ![c] = p]
    BY <1>6 DEF CloseNext, LockClose, WgWait, RunCloser, UnlockClose, CPCs
  <2>2. closed => closed'
    BY <1>6 DEF CloseNext, LockClose, WgWait, RunCloser, UnlockClose
  <2>3. QED
    BY <1>1, <2>1, <2>2 DEF Stable, CloseCallers
<1>7. QED
  BY <1>4, <1>5, <1>6 DEF WatcherStep

(* A call that begins after some Close returned begins with the flag that  *)
(* checkClosed tests already set.                                          *)
LEMMA LateMeansClosed ==
    ASSUME IInv, SourceIInv, CloseReturned
    PROVE  IsClosed
<1>1. PICK c \in Closers : cpc[c] = "done"
  BY DEF CloseReturned
<1>2. CASE WIT
  BY <1>1, <1>2 DEF IInv, CloseInv, CloseCallers, IsClosed
<1>3. CASE ~WIT
  BY <1>1, <1>3 DEF SourceIInv, IsClosed
<1>4. QED
  BY <1>2, <1>3

(* A step that keeps the flags keeps the invariant, if at most one         *)
(* consumer moves, is marked late only when the source is closed, and      *)
(* reaches "read" only as checkClosed allows.                              *)
LEMMA ConsumerStep ==
    ASSUME GetterTypes, SourceIInv, UNCHANGED <<vars, srcClosed, flagged>>,
           NEW u \in Consumers, NEW p \in UPCs, NEW l \in BOOLEAN,
           upc' = [upc EXCEPT ![u] = p], late' = [late EXCEPT ![u] = l],
           l => IsClosed, p = "read" => ~l
    PROVE  GetterTypes' /\ SourceIInv'
<1>1. UNCHANGED <<closed, cpc, srcClosed, flagged>>
  BY DEF vars, closeVars
<1>2. GetterTypes'
  BY DEF GetterTypes
<1>3. IsClosed' = IsClosed
  BY <1>1 DEF IsClosed
<1>4. \A w \in Consumers : /\ w # u => upc'[w] = upc[w] /\ late'[w] = late[w]
                           /\ w = u => upc'[w] = p /\ late'[w] = l
  BY DEF GetterTypes
<1>5. \A w \in Consumers : late'[w] => IsClosed'
  BY <1>3, <1>4 DEF SourceIInv
<1>6. GetAfterCloseFails'
  BY <1>4 DEF SourceIInv, GetAfterCloseFails
<1>7. QED
  BY <1>1, <1>2, <1>5, <1>6 DEF SourceIInv

(* Every step keeps the closed flag ahead of the calls that must see it.   *)
LEMMA SourceInvStep ==
    ASSUME TypeOK, IInv, GetterTypes, SourceIInv, [SourceNext]_allVars
    PROVE  GetterTypes' /\ SourceIInv'
<1> DEFINE Goal == GetterTypes' /\ SourceIInv'
<1>1. ASSUME UNCHANGED <<srcClosed, flagged, upc, late>>, Stable PROVE Goal
  BY <1>1 DEF Stable, GetterTypes, SourceIInv, GetAfterCloseFails, IsClosed
<1>2. CASE WatcherStep
  BY <1>1, <1>2, WatcherStepStable DEF WatcherStep
<1>3. ASSUME NEW k \in Kinds, TriggerStamped(k) PROVE Goal
  <2>1. UNCHANGED <<closed, cpc>>
    BY <1>3 DEF TriggerStamped, Trigger, closeVars
  <2>2. QED
    BY <1>1, <1>3, <2>1 DEF TriggerStamped, Stable
<1>4. ASSUME NEW c \in Closers, MarkClosed(c) PROVE Goal
  <2>1. UNCHANGED <<closed, cpc, upc, late>> /\ srcClosed' = TRUE /\ ~WIT
    BY <1>4 DEF MarkClosed, vars, closeVars
  <2>2. QED
    BY <2>1 DEF GetterTypes, SourceIInv, GetAfterCloseFails, IsClosed
<1>5. ASSUME NEW c \in Closers, CloseWatcher(c) PROVE Goal
  <2>1. /\ UNCHANGED <<closed, srcClosed, flagged, upc, late>>
        /\ cpc' = [cpc EXCEPT ![c] = "lock"]
        /\ WIT \/ c \in flagged
    BY <1>5 DEF CloseWatcher, CallClose
  <2>2. \A d \in Closers : d # c => cpc'[d] = cpc[d]
    BY <2>1 DEF TypeOK, CloseCallers
  <2>3. QED
    BY <2>1, <2>2 DEF GetterTypes, SourceIInv, GetAfterCloseFails, IsClosed
<1>6. CloseReturned \in BOOLEAN /\ (CloseReturned => IsClosed)
  BY LateMeansClosed DEF CloseReturned
<1>7. "check" \in UPCs /\ "idle" \in UPCs /\ "waiting" \in UPCs
  BY DEF UPCs
<1>8. ASSUME NEW u \in Consumers, FirstGet(u) \/ CallGet(u) PROVE Goal
  BY <1>6, <1>7, <1>8, ConsumerStep DEF FirstGet, CallGet, BeginGet
<1>9. ASSUME NEW u \in Consumers, Wake(u) PROVE Goal
  <2>1. UNCHANGED <<closed, cpc, srcClosed, flagged>>
    BY <1>9 DEF Wake, Receive, closeVars
  <2>2. /\ upc' = [upc EXCEPT ![u] = "check"]
        /\ late' = [late EXCEPT ![u] = CloseReturned]
    BY <1>9 DEF Wake, BeginGet
  <2>3. \A w \in Consumers : /\ w # u => upc'[w] = upc[w] /\ late'[w] = late[w]
                             /\ w = u => upc'[w] = "check" /\ late'[w] = CloseReturned
    BY <2>2 DEF GetterTypes
  <2>4. GetterTypes'
    BY <1>6, <1>7, <2>2 DEF GetterTypes
  <2>5. IsClosed' = IsClosed
    BY <2>1 DEF IsClosed
  <2>6. \A w \in Consumers : late'[w] => IsClosed'
    BY <1>6, <2>3, <2>5 DEF SourceIInv
  <2>7. GetAfterCloseFails'
    BY <2>3 DEF SourceIInv, GetAfterCloseFails
  <2>8. QED
    BY <2>1, <2>4, <2>6, <2>7 DEF SourceIInv
<1>10. ASSUME NEW u \in Consumers, CheckClosed(u) PROVE Goal
  <2> DEFINE p == IF IsClosed THEN "stopped" ELSE "read"
  <2>1. p \in UPCs /\ (p = "read" => ~late[u])
    BY DEF UPCs, SourceIInv
  <2>2. late[u] \in BOOLEAN /\ late = [late EXCEPT ![u] = late[u]] /\ (late[u] => IsClosed)
    BY DEF GetterTypes, SourceIInv
  <2>3. /\ UNCHANGED <<vars, srcClosed, flagged, late>>
        /\ upc' = [upc EXCEPT ![u] = p]
    BY <1>10 DEF CheckClosed
  <2> HIDE DEF p
  <2>4. QED
    BY <2>1, <2>2, <2>3, ConsumerStep
<1>11. ASSUME NEW u \in Consumers, Read(u) \/ WaitExpires(u) PROVE Goal
  <2>1. CASE BeginGet(u, uk[u] + 1)
    BY <1>6, <1>7, <1>11, <2>1, ConsumerStep DEF Read, WaitExpires, BeginGet
  <2>2. CASE upc' = [upc EXCEPT ![u] = "idle"] /\ UNCHANGED late
    <3>1. late[u] \in BOOLEAN /\ late = [late EXCEPT ![u] = late[u]] /\ (late[u] => IsClosed)
      BY DEF GetterTypes, SourceIInv
    <3>2. UNCHANGED <<vars, srcClosed, flagged>>
      BY <1>11 DEF Read, WaitExpires
    <3>3. QED
      BY <1>7, <2>2, <3>1, <3>2, ConsumerStep
  <2>3. QED
    BY <1>11, <2>1, <2>2 DEF Read, WaitExpires
<1>12. ASSUME NEW u \in Consumers, CallWait(u) PROVE Goal
  BY <1>6, <1>7, <1>12, ConsumerStep DEF CallWait
<1>13. CASE SourceFinished \/ UNCHANGED allVars
  <2>1. UNCHANGED <<closed, cpc, srcClosed, flagged, upc, late>>
    BY <1>13 DEF SourceFinished, Finished, allVars, vars, closeVars
  <2>2. QED
    BY <1>1, <2>1 DEF Stable
<1>14. QED
  BY <1>2, <1>3, <1>4, <1>5, <1>8, <1>9, <1>10, <1>11, <1>12, <1>13
     DEF SourceNext, ConsumerNext, GetNext

(* No getter of a source that was called after a Close returned gets past  *)
(* checkClosed, in the sources with a flag of their own and in WITSource.  *)
THEOREM NoGetAfterClose == SourceSpec => []GetAfterCloseFails
<1>1. SourceInit => GetterTypes /\ SourceIInv
  BY DEF SourceInit, Init, GetterTypes, SourceIInv, GetAfterCloseFails, UPCs, CloseCallers
<1>2. TypeOK /\ IInv /\ GetterTypes /\ SourceIInv /\ [SourceNext]_allVars
        => (GetterTypes /\ SourceIInv)'
  BY SourceInvStep
<1>3. SourceIInv => GetAfterCloseFails
  BY DEF SourceIInv
<1>4. QED
  BY <1>1, <1>2, <1>3, SourceKeepsWatcher, PTL DEF SourceSpec

(* A source behaves, for those who look at its watcher only, as the        *)
(* watcher alone may: every invariant of Spec's safety part is one of the  *)
(* sources.                                                                *)
THEOREM SourceImplementsWatcher == SourceSpec => Init /\ [][Next]_vars
<1>1. SourceInit => Init
  BY DEF SourceInit
<1>2. [SourceNext]_allVars => [Next]_vars
  BY SourceStepIsWatcherStep
<1>3. QED
  BY <1>1, <1>2, PTL DEF SourceSpec

-----------------------------------------------------------------------------
(* The types that Source adds to those of Watcher. *)
ConsumerTypes ==
    /\ upc \in [Consumers -> UPCs]
    /\ uk \in [Consumers -> Kinds]
    /\ held \in [Consumers -> [Kinds -> 0..MaxVersion]]
    /\ floor \in [Consumers -> [Kinds -> 0..MaxVersion]]
    /\ stamp \in [Kinds -> 0..MaxVersion]
    /\ late \in [Consumers -> BOOLEAN]

(* A getter returns a version the source has stored. *)
LEMMA ReadVersion ==
    ASSUME TypeOK, ConsumerTypes, NEW u \in Consumers, NEW k \in Kinds,
           NEW v \in (IF LockedReads THEN ver[k] ELSE floor[u][k])..ver[k]
    PROVE  v \in 0..MaxVersion /\ (LockedReads => v = ver[k])
<1>1. ver[k] \in 0..MaxVersion /\ floor[u][k] \in 0..MaxVersion
  <2> HIDE DEF Kinds
  <2>1. QED
    BY DEF TypeOK, ConsumerTypes
<1>2. QED
  BY <1>1, WatcherAssumption

(* The step of a consumer from one call to the next. *)
LEMMA BeginGetTypes ==
    ASSUME ConsumerTypes, NEW u \in Consumers, NEW k \in Kinds, BeginGet(u, k)
    PROVE  /\ upc' \in [Consumers -> UPCs] /\ uk' \in [Consumers -> Kinds]
           /\ late' \in [Consumers -> BOOLEAN]
           /\ upc'[u] = "check" /\ uk'[u] = k
<1>1. "check" \in UPCs /\ CloseReturned \in BOOLEAN
  BY DEF UPCs, CloseReturned
<1>2. QED
  BY <1>1 DEF BeginGet, ConsumerTypes

(* Every step of a source keeps what it adds to the watcher well typed. *)
LEMMA ConsumerTypesStep ==
    ASSUME TypeOK, IInv, ConsumerTypes, [SourceNext]_allVars
    PROVE  ConsumerTypes'
<1>1. ASSUME UNCHANGED <<upc, uk, held, floor, stamp, late>> PROVE ConsumerTypes'
  BY <1>1 DEF ConsumerTypes
<1>2. CASE WatcherStep \/ SourceFinished \/ UNCHANGED allVars
  BY <1>1, <1>2 DEF WatcherStep, SourceFinished, allVars
<1>3. ASSUME NEW c \in Closers, MarkClosed(c) \/ CloseWatcher(c) PROVE ConsumerTypes'
  BY <1>1, <1>3 DEF MarkClosed, CloseWatcher
<1>4. ASSUME NEW k \in Kinds, TriggerStamped(k) PROVE ConsumerTypes'
  <2>1. stamp' \in [Kinds -> 0..MaxVersion]
    BY <1>4 DEF TriggerStamped, ConsumerTypes, TypeOK
  <2>2. QED
    BY <1>4, <2>1 DEF TriggerStamped, ConsumerTypes
<1>5. 1 \in Kinds
  BY WatcherAssumption DEF Kinds
<1>6. ASSUME NEW u \in Consumers, FirstGet(u) PROVE ConsumerTypes'
  <2>1. ver[1] >= 1 /\ ver[1] \in 0..MaxVersion
    BY <1>5, <1>6, WatcherAssumption DEF FirstGet, IInv, CtorInv, UpdateInv, TypeOK
  <2>2. 1 \in 0..MaxVersion
    BY <2>1, WatcherAssumption
  <2>3. floor' \in [Consumers -> [Kinds -> 0..MaxVersion]]
    BY <1>6, <2>2 DEF FirstGet, ConsumerTypes
  <2>4. QED
    BY <1>5, <1>6, <2>3, BeginGetTypes DEF FirstGet, ConsumerTypes
<1>7. ASSUME NEW u \in Consumers, CallGet(u) PROVE ConsumerTypes'
  BY <1>5, <1>7, BeginGetTypes DEF CallGet, ConsumerTypes
<1>8. ASSUME NEW u \in Consumers, CheckClosed(u) \/ WaitExpires(u) PROVE ConsumerTypes'
  BY <1>8 DEF CheckClosed, WaitExpires, ConsumerTypes, UPCs
<1>9. ASSUME NEW u \in Consumers, CallWait(u) PROVE ConsumerTypes'
  <2>1. CloseReturned \in BOOLEAN
    BY DEF CloseReturned
  <2>2. QED
    BY <1>9, <2>1 DEF CallWait, ConsumerTypes, UPCs
<1>10. ASSUME NEW u \in Consumers, Read(u) PROVE ConsumerTypes'
  <2>1. uk[u] \in Kinds
    BY DEF ConsumerTypes
  <2>2. PICK v \in (IF LockedReads THEN ver[uk[u]] ELSE floor[u][uk[u]])..ver[uk[u]] :
           /\ held' = [held EXCEPT ![u][uk[u]] = v]
           /\ floor' = [floor EXCEPT ![u][uk[u]] = v]
    BY <1>10 DEF Read
  <2>3. v \in 0..MaxVersion
    BY <2>1, <2>2, ReadVersion
  <2>4. /\ held' \in [Consumers -> [Kinds -> 0..MaxVersion]]
        /\ floor' \in [Consumers -> [Kinds -> 0..MaxVersion]]
    BY <2>1, <2>2, <2>3 DEF ConsumerTypes
  <2>5. CASE uk[u] < NumKinds
    <3>1. uk[u] + 1 \in Kinds
      BY <2>1, <2>5, WatcherAssumption DEF Kinds
    <3>2. BeginGet(u, uk[u] + 1) /\ stamp' = stamp
      BY <1>10, <2>5 DEF Read
    <3>3. QED
      BY <2>4, <3>1, <3>2, BeginGetTypes DEF ConsumerTypes
  <2>6. CASE ~(uk[u] < NumKinds)
    <3>1. upc' = [upc EXCEPT ![u] = "idle"] /\ UNCHANGED <<uk, late, stamp>>
      BY <1>10, <2>6 DEF Read
    <3>2. QED
      BY <2>4, <3>1 DEF ConsumerTypes, UPCs
  <2>7. QED
    BY <2>5, <2>6
<1>11. ASSUME NEW u \in Consumers, Wake(u) PROVE ConsumerTypes'
  <2>1. floor' \in [Consumers -> [Kinds -> 0..MaxVersion]]
    BY <1>11 DEF Wake, ConsumerTypes
  <2>2. QED
    BY <1>5, <1>11, <2>1, BeginGetTypes DEF Wake, ConsumerTypes
<1>12. QED
  BY <1>2, <1>3, <1>4, <1>6, <1>7, <1>8, <1>9, <1>10, <1>11 DEF SourceNext, ConsumerNext, GetNext

(* At first no consumer has read anything. *)
LEMMA ConsumerTypesInit == SourceInit => ConsumerTypes
<1>1. 1 \in Kinds /\ 0 \in 0..MaxVersion
  BY WatcherAssumption DEF Kinds
<1>2. QED
  BY <1>1 DEF SourceInit, ConsumerTypes, UPCs

(* The types of a source and of its consumers, however many these are. *)
LEMMA SourceKeepsTypes == SourceSpec => [](TypeOK /\ IInv /\ ConsumerTypes)
<1>1. TypeOK /\ IInv /\ ConsumerTypes /\ [SourceNext]_allVars => ConsumerTypes'
  BY ConsumerTypesStep
<1>2. QED
  BY <1>1, ConsumerTypesInit, SourceKeepsWatcher, PTL DEF SourceSpec

(* The type invariant of a source: in particular no getter asks for a kind *)
(* the source does not watch, or returns a version it never stored.        *)
THEOREM SourceTypeCorrect == SourceSpec => []SourceTypeOK
<1> DEFINE Flags == srcClosed \in BOOLEAN /\ flagged \subseteq Closers
<1>1. SourceInit => Flags
  BY DEF SourceInit
<1>2. Flags /\ [SourceNext]_allVars => Flags'
  <2> SUFFICES ASSUME Flags, [SourceNext]_allVars PROVE Flags'
    OBVIOUS
  <2>1. ASSUME NEW c \in Closers, MarkClosed(c) PROVE Flags'
    BY <2>1 DEF MarkClosed
  <2>2. ASSUME UNCHANGED <<srcClosed, flagged>> PROVE Flags'
    BY <2>2
  <2>3. ASSUME NEW u \in Consumers, ConsumerNext(u) PROVE UNCHANGED <<srcClosed, flagged>>
    BY <2>3 DEF ConsumerNext, GetNext, FirstGet, CallGet, CheckClosed, Read, CallWait, Wake,
                WaitExpires
  <2>4. QED
    BY <2>1, <2>2, <2>3
       DEF SourceNext, WatcherStep, TriggerStamped, CloseWatcher, SourceFinished, allVars
<1>3. TypeOK /\ ConsumerTypes /\ Flags => SourceTypeOK
  BY DEF SourceTypeOK, ConsumerTypes
<1>4. QED
  BY <1>1, <1>2, <1>3, SourceKeepsTypes, PTL DEF SourceSpec

-----------------------------------------------------------------------------
(* Nobody uses a source before the constructor has returned it. *)
StartInv == pc \in {"new", "run"} => \A u \in Consumers : upc[u] = "start"

(* u has read k since it last took a notification. *)
HasRead(u, k) ==
    upc[u] \in {"idle", "waiting"} \/ (upc[u] \in {"check", "read"} /\ k < uk[u])

(* What u has read is current, or announced, or about to be. *)
CurrentInv ==
    \A u \in Consumers, k \in Kinds :
        HasRead(u, k) /\ held[u][k] # ver[k] => updatedCh \/ gpc[k] = "trigger"

(* The constructor returns before anybody else begins, and never runs      *)
(* again.                                                                  *)
LEMMA StartStep ==
    ASSUME TypeOK, StartInv, [SourceNext]_allVars
    PROVE  StartInv'
<1>1. ASSUME UNCHANGED upc, pc' \in {"new", "run"} => pc \in {"new", "run"} PROVE StartInv'
  BY <1>1 DEF StartInv
<1>2. CASE WatcherStep
  <2>1. CASE CtorNext \/ ContextDone
    BY <1>1, <1>2, <2>1 DEF WatcherStep, CtorNext, NewClient, NewClientFails, Fail, StartWatch,
       WaitForSet, WaitForErr, WaitForContext, DrainAndReturn, ReturnError, ContextDone
  <2>2. ASSUME NEW k \in Kinds, OnUpdate(k) \/ SignalSet(k) \/ WatchReturns(k) \/ SendErr(k)
        PROVE  pc' = pc
    BY <2>2 DEF OnUpdate, SignalSet, WatchReturns, SendErr, ctorVars
  <2>3. ASSUME NEW c \in CloseCallers, CloseNext(c) PROVE pc' = pc
    BY <2>3 DEF CloseNext, LockClose, WgWait, RunCloser, UnlockClose, ctorVars
  <2>4. QED
    BY <1>1, <1>2, <2>1, <2>2, <2>3 DEF WatcherStep
<1>3. ASSUME NEW k \in Kinds, TriggerStamped(k) PROVE StartInv'
  BY <1>1, <1>3 DEF TriggerStamped, Trigger, ctorVars
<1>4. ASSUME NEW c \in Closers, MarkClosed(c) \/ CloseWatcher(c) PROVE StartInv'
  BY <1>1, <1>4 DEF MarkClosed, CloseWatcher, CallClose, vars, ctorVars
<1>5. ASSUME NEW u \in Consumers, ConsumerNext(u) PROVE StartInv'
  <2>1. pc' = pc
    BY <1>5 DEF ConsumerNext, GetNext, FirstGet, CallGet, CheckClosed, Read, CallWait, Wake,
                WaitExpires, Receive, vars, ctorVars
  <2>2. pc = "ok" \/ upc[u] # "start"
    BY <1>5 DEF ConsumerNext, GetNext, FirstGet, CallGet, CheckClosed, Read, CallWait, Wake,
                WaitExpires
  <2>3. pc \notin {"new", "run"}
    BY <2>2 DEF StartInv
  <2>4. QED
    BY <2>1, <2>3 DEF StartInv
<1>6. CASE SourceFinished \/ UNCHANGED allVars
  BY <1>1, <1>6 DEF SourceFinished, Finished, allVars, vars, ctorVars
<1>7. QED
  BY <1>2, <1>3, <1>4, <1>5, <1>6 DEF SourceNext

(* A step of the watcher stores an update with its announcement to come,   *)
(* and takes a notification back only before anybody uses the source.      *)
LEMMA WatcherStepAnnounces ==
    ASSUME TypeOK, WatcherStep, pc \notin {"new", "run"}
    PROVE  /\ updatedCh' = updatedCh
           /\ \A k \in Kinds : /\ gpc[k] = "trigger" => gpc'[k] = "trigger"
                               /\ ver'[k] # ver[k] => gpc'[k] = "trigger"
<1> DEFINE Goal == /\ updatedCh' = updatedCh
                   /\ \A k \in Kinds : /\ gpc[k] = "trigger" => gpc'[k] = "trigger"
                                       /\ ver'[k] # ver[k] => gpc'[k] = "trigger"
<1>1. CASE CtorNext \/ ContextDone
  BY <1>1 DEF CtorNext, NewClient, NewClientFails, StartWatch, WaitForSet, WaitForErr,
     WaitForContext, Waiting, DrainAndReturn, ReturnError, ContextDone, chanVars, watchVars
<1>2. ASSUME NEW j \in Kinds, OnUpdate(j) \/ SignalSet(j) \/ WatchReturns(j) \/ SendErr(j)
      PROVE  Goal
  BY <1>2 DEF OnUpdate, SignalSet, WatchReturns, SendErr, chanVars, watchVars, TypeOK
<1>3. ASSUME NEW c \in CloseCallers, CloseNext(c) PROVE Goal
  BY <1>3 DEF CloseNext, LockClose, WgWait, RunCloser, UnlockClose, chanVars, watchVars
<1>4. QED
  BY <1>1, <1>2, <1>3 DEF WatcherStep

(* With one consumer, which reads under the lock, nobody else takes the    *)
(* notification of an update it has not read.                              *)
LEMMA CurrentStep ==
    ASSUME TypeOK, ConsumerTypes, StartInv, CurrentInv, [SourceNext]_allVars, LockedReads,
           NEW one, Consumers = {one}
    PROVE  CurrentInv'
<1>1. one \in Consumers
  OBVIOUS
<1>2. ASSUME UNCHANGED <<upc, uk, held>>, updatedCh => updatedCh',
             \A k \in Kinds :
                 /\ gpc[k] = "trigger" => gpc'[k] = "trigger" \/ updatedCh'
                 /\ ver'[k] # ver[k] => gpc'[k] = "trigger"
      PROVE  CurrentInv'
  BY <1>2 DEF CurrentInv, HasRead
<1>3. CASE WatcherStep
  <2>1. CASE pc \in {"new", "run"}
    <3>1. upc'[one] = "start"
      BY <1>1, <1>3, <2>1 DEF WatcherStep, StartInv
    <3>2. QED
      BY <3>1 DEF CurrentInv, HasRead
  <2>2. CASE pc \notin {"new", "run"}
    <3>1. /\ updatedCh' = updatedCh
          /\ \A k \in Kinds : /\ gpc[k] = "trigger" => gpc'[k] = "trigger"
                              /\ ver'[k] # ver[k] => gpc'[k] = "trigger"
      BY <1>3, <2>2, WatcherStepAnnounces
    <3>2. UNCHANGED <<upc, uk, held>>
      BY <1>3 DEF WatcherStep
    <3>3. QED
      BY <1>2, <3>1, <3>2
  <2>3. QED
    BY <2>1, <2>2
<1>4. ASSUME NEW k \in Kinds, TriggerStamped(k) PROVE CurrentInv'
  <2>1. updatedCh' = TRUE /\ UNCHANGED <<upc, uk, held>> /\ ver' = ver
    BY <1>4 DEF TriggerStamped, Trigger
  <2>2. QED
    BY <1>2, <2>1
<1>5. ASSUME NEW c \in Closers, MarkClosed(c) \/ CloseWatcher(c) PROVE CurrentInv'
  BY <1>2, <1>5 DEF MarkClosed, CloseWatcher, CallClose, vars, watchVars, chanVars
<1>6. CASE SourceFinished \/ UNCHANGED allVars
  BY <1>2, <1>6 DEF SourceFinished, Finished, allVars, vars, watchVars, chanVars
<1>7. ASSUME FirstGet(one) \/ CallGet(one) \/ Wake(one) PROVE CurrentInv'
  <2>1. upc'[one] = "check" /\ uk'[one] = 1
    BY <1>1, <1>7 DEF FirstGet, CallGet, Wake, BeginGet, ConsumerTypes
  <2>2. \A k \in Kinds : ~(k < 1)
    BY WatcherAssumption DEF Kinds
  <2>3. QED
    BY <2>1, <2>2 DEF CurrentInv, HasRead
<1>8. ASSUME CallWait(one) \/ WaitExpires(one) \/ CheckClosed(one) PROVE CurrentInv'
  <2>1. UNCHANGED <<uk, held, ver, gpc, updatedCh>>
    BY <1>8 DEF CallWait, WaitExpires, CheckClosed, vars, watchVars, chanVars
  <2>2. \/ upc[one] \in {"idle", "waiting"} /\ upc'[one] \in {"idle", "waiting"}
        \/ upc[one] = "check" /\ upc'[one] \in {"read", "stopped"}
    BY <1>1, <1>8 DEF CallWait, WaitExpires, CheckClosed, ConsumerTypes
  <2>3. QED
    BY <2>1, <2>2 DEF CurrentInv, HasRead
<1>9. ASSUME Read(one) PROVE CurrentInv'
  <2> DEFINE j == uk[one]
  <2>1. j \in Kinds /\ upc[one] = "read" /\ UNCHANGED <<ver, gpc, updatedCh>>
    BY <1>1, <1>9 DEF Read, ConsumerTypes, vars, watchVars, chanVars
  <2>2. PICK v \in (IF LockedReads THEN ver[j] ELSE floor[one][j])..ver[j] :
           held' = [held EXCEPT ![one][j] = v]
    BY <1>9 DEF Read
  <2>3. v = ver[j]
    BY <1>1, <2>1, ReadVersion
  <2>4. \A k \in Kinds : held'[one][k] = IF k = j THEN ver[j] ELSE held[one][k]
    BY <1>1, <2>1, <2>2, <2>3 DEF ConsumerTypes
  <2>5. \A k \in Kinds : HasRead(one, k)' => k <= j
    <3>1. CASE j < NumKinds
      <4>1. upc'[one] = "check" /\ uk'[one] = j + 1
        BY <1>1, <1>9, <3>1 DEF Read, BeginGet, ConsumerTypes
      <4>2. QED
        BY <2>1, <4>1, WatcherAssumption DEF HasRead, Kinds
    <3>2. CASE ~(j < NumKinds)
      BY <2>1, <3>2, WatcherAssumption DEF Kinds
    <3>3. QED
      BY <3>1, <3>2
  <2>6. ASSUME NEW k \in Kinds, HasRead(one, k)', held'[one][k] # ver'[k]
        PROVE  updatedCh' \/ gpc'[k] = "trigger"
    <3>1. k # j /\ held[one][k] # ver[k]
      BY <2>1, <2>4, <2>6
    <3>2. k < j
      BY <2>1, <2>5, <2>6, <3>1, WatcherAssumption DEF Kinds
    <3>3. QED
      BY <1>1, <2>1, <3>1, <3>2 DEF CurrentInv, HasRead
  <2>7. QED
    BY <2>6 DEF CurrentInv
<1>10. QED
  BY <1>3, <1>4, <1>5, <1>6, <1>7, <1>8, <1>9 DEF SourceNext, ConsumerNext, GetNext

(* WaitUntilUpdated never leaves the one consumer of a source, which reads *)
(* every kind after each wake-up, waiting with outdated material, if the   *)
(* getters lock (GetX509SVID and those of BundleSource and WITSource): for *)
(* any number of versions and of callers of Close.                         *)
THEOREM LoneConsumerIsCurrent ==
    ASSUME LockedReads, NEW CONSTANT one, Consumers = {one}
    PROVE  SourceSpec => []BlockedConsumerIsCurrent
<1>1. SourceInit => StartInv /\ CurrentInv
  BY DEF SourceInit, StartInv, CurrentInv, HasRead
<1>2. TypeOK /\ ConsumerTypes /\ StartInv /\ CurrentInv /\ [SourceNext]_allVars
        => (StartInv /\ CurrentInv)'
  BY StartStep, CurrentStep
<1>3. CurrentInv => BlockedConsumerIsCurrent
  BY DEF CurrentInv, HasRead, BlockedConsumerIsCurrent
<1>4. QED
  BY <1>1, <1>2, <1>3, SourceKeepsTypes, PTL DEF SourceSpec
=============================================================================
