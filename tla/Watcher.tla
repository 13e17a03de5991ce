-------------------------------- MODULE Watcher --------------------------------
(***************************************************************************)
(* watcherBase and watcher (workloadapi/watcher.go), and the same          *)
(* machinery as WITSource uses it (workloadapi/witsource.go): a            *)
(* constructor that starts one watch goroutine per kind of material and    *)
(* waits for the first update of each, the goroutines that store updates   *)
(* and signal them, the one-slot channel of update notifications, and      *)
(* Close, which any number of goroutines may call.                         *)
(*                                                                         *)
(* Kinds 1..NumKinds are the watches in the order they are started: the    *)
(* X.509 context and the JWT bundles of a BundleSource, one of the two for *)
(* an X509Source or a JWTSource, WIT-SVIDs and WIT bundles of a WITSource. *)
(* The material of a kind is its version.  A watch is the contract of      *)
(* WatchContract: it delivers updates until it returns.                    *)
(*                                                                         *)
(* Steps of the constructor, the goroutines and Close between two          *)
(* synchronisation points are one action.                                  *)
(***************************************************************************)
EXTENDS Naturals, FiniteSets

CONSTANTS
    NumKinds,    \* watches of this source
    OwnsClient,  \* the client is created by the constructor, not given to it
    WIT,         \* TRUE: a WITSource; FALSE: a watcher
    Closers,     \* goroutines that call Close on the constructed source
    Ctor,        \* the constructor, which calls Close when it fails
    Nobody,      \* closeMtx is free
    MaxVersion   \* bound: versions delivered per kind

Kinds == 1..NumKinds
CloseCallers == Closers \cup {Ctor}

ASSUME WatcherAssumption ==
    /\ NumKinds \in 1..2
    /\ OwnsClient \in BOOLEAN /\ WIT \in BOOLEAN
    /\ Ctor \notin Closers
    /\ Nobody \notin CloseCallers
    /\ MaxVersion \in Nat

(* Mutant: a channel with room for one error. *)
ErrCapOne == 1

(* The capacity of errCh. *)
ErrCap == 2

VARIABLES
    \* the constructor
    pc,          \* "new", "run", "fail", then "ok" or "err"
    ctxDone,     \* the constructor's context is done
    hasClient,   \* w.client # nil
    started,     \* watch goroutines started
    waited,      \* waitFor calls that succeeded
    \* the watch goroutines
    gpc,         \* gpc[k]: where the goroutine of kind k is; see GPCs
    ver,         \* ver[k]: version last stored by the callback; 0 is none
    isSet,       \* isSet[k]: the kind's ...Set channel is closed
    errCh,       \* kinds whose watch error is buffered in errCh
    \* watcherBase
    updatedCh,   \* the one-slot channel holds a notification
    cancelled,   \* cancel() was called: the watch context is done
    closed, closeErr, closeMtx,
    \* callers of Close
    cpc,         \* cpc[c]: where the call of Close by c is; see CPCs
    ret,         \* ret[c]: the error that call returned
    clientCloses,\* times client.Close was called
    \* history
    seen         \* seen[k]: ver[k] when a notification was last consumed

ctorVars  == <<pc, ctxDone, hasClient, started, waited>>
watchVars == <<gpc, ver, isSet>>
closeVars == <<cancelled, closed, closeErr, closeMtx, cpc, ret, clientCloses>>
chanVars  == <<updatedCh, seen>>
vars == <<ctorVars, watchVars, errCh, closeVars, chanVars>>

GPCs == {"off",      \* not started
         "watch",    \* inside Client.Watch*
         "trigger",  \* callback: material stored, notification not yet sent
         "signal",   \* callback: notification sent, ...Set not yet closed
         "send",     \* Watch* returned; its error not yet in errCh
         "exited"}   \* wg.Done
CPCs == {"idle", "lock", "wait", "closer", "unlock", "done"}

TypeOK ==
    /\ pc \in {"new", "run", "fail", "ok", "err"}
    /\ ctxDone \in BOOLEAN /\ hasClient \in BOOLEAN
    /\ started \in 0..NumKinds /\ waited \in 0..NumKinds
    /\ gpc \in [Kinds -> GPCs]
    /\ ver \in [Kinds -> 0..MaxVersion]
    /\ isSet \in [Kinds -> BOOLEAN]
    /\ errCh \in SUBSET Kinds
    /\ updatedCh \in BOOLEAN /\ cancelled \in BOOLEAN /\ closed \in BOOLEAN
    /\ closeErr \in {"nil", "err"}
    /\ closeMtx \in CloseCallers \cup {Nobody}
    /\ cpc \in [CloseCallers -> CPCs]
    /\ ret \in [CloseCallers -> {"none", "nil", "err"}]
    /\ clientCloses \in Nat
    /\ seen \in [Kinds -> 0..MaxVersion]

Init ==
    /\ pc = IF OwnsClient THEN "new" ELSE "run"
    /\ hasClient = ~OwnsClient
    /\ ctxDone = FALSE /\ started = 0 /\ waited = 0
    /\ gpc = [k \in Kinds |-> "off"]
    /\ ver = [k \in Kinds |-> 0]
    /\ isSet = [k \in Kinds |-> FALSE]
    /\ errCh = {}
    /\ updatedCh = FALSE /\ cancelled = FALSE
    /\ closed = FALSE /\ closeErr = "nil" /\ closeMtx = Nobody
    /\ cpc = [c \in CloseCallers |-> "idle"]
    /\ ret = [c \in CloseCallers |-> "none"]
    /\ clientCloses = 0
    /\ seen = [k \in Kinds |-> 0]

-----------------------------------------------------------------------------
(* newWatcher; NewWITSource and waitForInitial *)

(* New(ctx) succeeds: the source owns the client. *)
NewClient ==
    /\ pc = "new"
    /\ pc' = "run"
    /\ hasClient' = TRUE
    /\ UNCHANGED <<ctxDone, started, waited, watchVars, errCh, closeVars, chanVars>>

(* The deferred cleanup: Close is called on the half-built source. *)
Fail ==
    /\ pc' = "fail"
    /\ cpc' = [cpc EXCEPT ![Ctor] = "lock"]
    /\ UNCHANGED <<cancelled, closed, closeErr, closeMtx, ret, clientCloses>>

(* New(ctx) fails.  NewWITSource then has nothing to clean up: the source  *)
(* struct is built after the client.                                       *)
NewClientFails ==
    /\ pc = "new"
    /\ IF WIT THEN pc' = "err" /\ UNCHANGED closeVars ELSE Fail
    /\ UNCHANGED <<ctxDone, hasClient, started, waited, watchVars, errCh, chanVars>>

(* Mutant: one more watch is started than there are kinds. *)
StartWatchUnbounded ==
    /\ pc = "run"
    /\ started <= NumKinds
    /\ WIT \/ started = waited
    /\ started' = started + 1
    /\ gpc' = [gpc EXCEPT ![started + 1] = "watch"]
    /\ UNCHANGED <<pc, ctxDone, hasClient, waited, ver, isSet, errCh, closeVars, chanVars>>

(* go Watch*(watchCtx, w).  newWatcher starts a watch once the one before  *)
(* it has delivered; waitForInitial starts them all first.                 *)
StartWatch ==
    /\ pc = "run"
    /\ started < NumKinds
    /\ WIT \/ started = waited
    /\ started' = started + 1
    /\ gpc' = [gpc EXCEPT ![started + 1] = "watch"]
    /\ UNCHANGED <<pc, ctxDone, hasClient, waited, ver, isSet, errCh, closeVars, chanVars>>

(* The constructor is in the select of waitFor. *)
Waiting ==
    /\ pc = "run"
    /\ waited < started
    /\ WIT => started = NumKinds

(* Mutant: every waitFor waits for the first kind. *)
WaitForFirstSet ==
    /\ Waiting
    /\ isSet[1]
    /\ waited' = waited + 1
    /\ UNCHANGED <<pc, ctxDone, hasClient, started, watchVars, errCh, closeVars, chanVars>>

WaitForSet ==
    /\ Waiting
    /\ isSet[waited + 1]
    /\ waited' = waited + 1
    /\ UNCHANGED <<pc, ctxDone, hasClient, started, watchVars, errCh, closeVars, chanVars>>

WaitForErr ==
    /\ Waiting
    /\ \E k \in errCh : errCh' = errCh \ {k}
    /\ Fail
    /\ UNCHANGED <<ctxDone, hasClient, started, waited, watchVars, chanVars>>

(* Mutant: waitFor does not look at the context. *)
WaitForContextMissing == FALSE /\ UNCHANGED vars

WaitForContext ==
    /\ Waiting
    /\ ctxDone
    /\ Fail
    /\ UNCHANGED <<ctxDone, hasClient, started, waited, watchVars, errCh, chanVars>>

(* drainUpdated, and the constructor returns the source. *)
DrainAndReturn ==
    /\ pc = "run"
    /\ waited = NumKinds
    /\ pc' = "ok"
    /\ updatedCh' = FALSE
    /\ seen' = ver
    /\ UNCHANGED <<ctxDone, hasClient, started, waited, watchVars, errCh, closeVars>>

(* The deferred Close has returned; so does the constructor. *)
ReturnError ==
    /\ pc = "fail"
    /\ cpc[Ctor] = "done"
    /\ pc' = "err"
    /\ UNCHANGED <<ctxDone, hasClient, started, waited, watchVars, errCh, closeVars, chanVars>>

ContextDone ==
    /\ pc \in {"new", "run"}
    /\ ~ctxDone
    /\ ctxDone' = TRUE
    /\ UNCHANGED <<pc, hasClient, started, waited, watchVars, errCh, closeVars, chanVars>>

-----------------------------------------------------------------------------
(* The watch goroutine of kind k *)

(* On*Update begins: the material is stored under the source's mutex. *)
OnUpdate(k) ==
    /\ gpc[k] = "watch"
    /\ ver[k] < MaxVersion
    /\ ver' = [ver EXCEPT ![k] = @ + 1]
    /\ gpc' = [gpc EXCEPT ![k] = "trigger"]
    /\ UNCHANGED <<ctorVars, isSet, errCh, closeVars, chanVars>>

(* Mutant: only the first update is announced, inside the Once. *)
TriggerOnce(k) ==
    /\ gpc[k] = "trigger"
    /\ updatedCh' = (updatedCh \/ ~isSet[k])
    /\ gpc' = [gpc EXCEPT ![k] = "signal"]
    /\ UNCHANGED <<ctorVars, ver, isSet, errCh, closeVars, seen>>

(* Mutant: the order before the fix of #260, where the first update closes *)
(* the ...Set channel before it is announced.                              *)
TriggerAfterSignal(k) ==
    /\ gpc[k] = "trigger"
    /\ IF isSet[k]
       THEN /\ updatedCh' = TRUE
            /\ gpc' = [gpc EXCEPT ![k] = "signal"]
            /\ UNCHANGED isSet
       ELSE /\ isSet' = [isSet EXCEPT ![k] = TRUE]
            /\ UNCHANGED <<updatedCh, gpc>>
    /\ UNCHANGED <<ctorVars, ver, errCh, closeVars, seen>>

(* triggerUpdated: a send that does not block when the slot is taken. *)
Trigger(k) ==
    /\ gpc[k] = "trigger"
    /\ updatedCh' = TRUE
    /\ gpc' = [gpc EXCEPT ![k] = "signal"]
    /\ UNCHANGED <<ctorVars, ver, isSet, errCh, closeVars, seen>>

(* The ...SetOnce: close(...Set) on the first update; On*Update returns. *)
SignalSet(k) ==
    /\ gpc[k] = "signal"
    /\ isSet' = [isSet EXCEPT ![k] = TRUE]
    /\ gpc' = [gpc EXCEPT ![k] = "watch"]
    /\ UNCHANGED <<ctorVars, ver, errCh, closeVars, chanVars>>

(* Watch* returns: its context is done, or a fatal status, or a client     *)
(* closed by its owner; see WatchContract.                                 *)
WatchReturns(k) ==
    /\ gpc[k] = "watch"
    /\ gpc' = [gpc EXCEPT ![k] = "send"]
    /\ UNCHANGED <<ctorVars, ver, isSet, errCh, closeVars, chanVars>>

(* errCh <- err, then the deferred wg.Done. *)
SendErr(k) ==
    /\ gpc[k] = "send"
    /\ Cardinality(errCh) < ErrCap
    /\ errCh' = errCh \cup {k}
    /\ gpc' = [gpc EXCEPT ![k] = "exited"]
    /\ UNCHANGED <<ctorVars, ver, isSet, closeVars, chanVars>>

-----------------------------------------------------------------------------
(* Close: watcher.Close or WITSource.Close, and closeBase *)

CallClose(c) ==
    /\ pc = "ok"
    /\ cpc[c] = "idle"
    /\ cpc' = [cpc EXCEPT ![c] = "lock"]
    /\ UNCHANGED <<ctorVars, watchVars, errCh, chanVars, cancelled, closed,
                   closeErr, closeMtx, ret, clientCloses>>

(* Mutant: the watch context is not cancelled. *)
LockCloseNoCancel(c) ==
    /\ cpc[c] = "lock"
    /\ closeMtx = Nobody
    /\ closeMtx' = c
    /\ cpc' = [cpc EXCEPT ![c] = IF closed THEN "unlock" ELSE "wait"]
    /\ UNCHANGED <<ctorVars, watchVars, errCh, chanVars, cancelled, closed, closeErr,
                   ret, clientCloses>>

(* closeMtx.Lock; the first caller cancels the watch context. *)
LockClose(c) ==
    /\ cpc[c] = "lock"
    /\ closeMtx = Nobody
    /\ closeMtx' = c
    /\ cancelled' = (cancelled \/ ~closed)
    /\ cpc' = [cpc EXCEPT ![c] = IF closed THEN "unlock" ELSE "wait"]
    /\ UNCHANGED <<ctorVars, watchVars, errCh, chanVars, closed, closeErr, ret, clientCloses>>

Stopped(k) == gpc[k] \in {"off", "exited"}

(* Mutant: Close goes on without waiting for the goroutines. *)
WgWaitSkipped(c) ==
    /\ cpc[c] = "wait"
    /\ cpc' = [cpc EXCEPT ![c] = "closer"]
    /\ UNCHANGED <<ctorVars, watchVars, errCh, chanVars, cancelled, closed,
                   closeErr, closeMtx, ret, clientCloses>>

(* wg.Wait *)
WgWait(c) ==
    /\ cpc[c] = "wait"
    /\ \A k \in Kinds : Stopped(k)
    /\ cpc' = [cpc EXCEPT ![c] = "closer"]
    /\ UNCHANGED <<ctorVars, watchVars, errCh, chanVars, cancelled, closed,
                   closeErr, closeMtx, ret, clientCloses>>

(* The closer is client.Close only for a client that exists and is owned. *)
ClosesClient == hasClient /\ OwnsClient

(* Mutant: the first caller does not record that the base is closed. *)
RunCloserNotRecorded(c) ==
    /\ cpc[c] = "closer"
    /\ IF ClosesClient
       THEN /\ clientCloses' = clientCloses + 1
            /\ closeErr' \in {"nil", "err"}
       ELSE UNCHANGED <<clientCloses, closeErr>>
    /\ cpc' = [cpc EXCEPT ![c] = "unlock"]
    /\ UNCHANGED <<ctorVars, watchVars, errCh, chanVars, cancelled, closed, closeMtx, ret>>

(* closeErr = clientCloser(); closed = true *)
RunCloser(c) ==
    /\ cpc[c] = "closer"
    /\ IF ClosesClient
       THEN /\ clientCloses' = clientCloses + 1
            /\ closeErr' \in {"nil", "err"}
       ELSE UNCHANGED <<clientCloses, closeErr>>
    /\ closed' = TRUE
    /\ cpc' = [cpc EXCEPT ![c] = "unlock"]
    /\ UNCHANGED <<ctorVars, watchVars, errCh, chanVars, cancelled, closeMtx, ret>>

(* Mutant: a return path of Close without the Unlock. *)
UnlockCloseForgotten(c) ==
    /\ cpc[c] = "unlock"
    /\ ret' = [ret EXCEPT ![c] = closeErr]
    /\ cpc' = [cpc EXCEPT ![c] = "done"]
    /\ UNCHANGED <<ctorVars, watchVars, errCh, chanVars, cancelled, closed,
                   closeErr, closeMtx, clientCloses>>

(* The deferred Unlock, and Close returns closeErr. *)
UnlockClose(c) ==
    /\ cpc[c] = "unlock"
    /\ closeMtx' = Nobody
    /\ ret' = [ret EXCEPT ![c] = closeErr]
    /\ cpc' = [cpc EXCEPT ![c] = "done"]
    /\ UNCHANGED <<ctorVars, watchVars, errCh, chanVars, cancelled, closed,
                   closeErr, clientCloses>>

-----------------------------------------------------------------------------
(* A user of the source receives from Updated(), or WaitUntilUpdated does. *)
Receive ==
    /\ pc = "ok"
    /\ updatedCh
    /\ updatedCh' = FALSE
    /\ seen' = ver
    /\ UNCHANGED <<ctorVars, watchVars, errCh, closeVars>>

(* The constructor failed, or every Close has returned: nothing need happen. *)
Finished ==
    /\ pc = "err" \/ (pc = "ok" /\ \A c \in Closers : cpc[c] = "done")
    /\ UNCHANGED vars

CtorNext == NewClient \/ NewClientFails \/ StartWatch \/ WaitForSet \/ WaitForErr
            \/ WaitForContext \/ DrainAndReturn \/ ReturnError

WatchNext(k) == OnUpdate(k) \/ Trigger(k) \/ SignalSet(k) \/ WatchReturns(k) \/ SendErr(k)

CloseNext(c) == LockClose(c) \/ WgWait(c) \/ RunCloser(c) \/ UnlockClose(c)

Next ==
    \/ CtorNext
    \/ ContextDone
    \/ \E k \in Kinds : WatchNext(k)
    \/ \E c \in Closers : CallClose(c)
    \/ \E c \in CloseCallers : CloseNext(c)
    \/ Receive
    \/ Finished

(***************************************************************************)
(* Goroutines that can run do run.  No update and no failure is promised;  *)
(* only a cancelled watch is sure to return, which is what WatchLoop shows *)
(* of the client.                                                          *)
(***************************************************************************)
Fairness ==
    /\ WF_vars(CtorNext)
    /\ \A k \in Kinds : /\ WF_vars(Trigger(k) \/ SignalSet(k) \/ SendErr(k))
                        /\ WF_vars(cancelled /\ WatchReturns(k))
    /\ \A c \in CloseCallers : WF_vars(CloseNext(c))

Spec == Init /\ [][Next]_vars /\ Fairness

-----------------------------------------------------------------------------
(* Safety *)

(* A source that the constructor returned holds material of every kind it  *)
(* watches: the waitFor calls cover exactly the watches that were started. *)
ConstructedIsComplete ==
    pc = "ok" => \A k \in Kinds : ver[k] >= 1

(* The initial updates, which the constructor waited for, never show up as *)
(* a notification on the returned source: one is pending only if some kind *)
(* was updated again (#260; drainUpdated in newWatcher and NewWITSource).  *)
NoSpuriousNotification ==
    pc = "ok" /\ updatedCh => \E k \in Kinds : ver[k] >= 2

(* An update stored since a notification was last consumed is announced:   *)
(* a notification is pending, or the goroutine is about to send it.  The   *)
(* one-slot channel merges notifications and drainUpdated discards them,   *)
(* but no update goes unannounced.                                         *)
NoLostUpdate ==
    \A k \in Kinds : ver[k] # seen[k] => updatedCh \/ gpc[k] = "trigger"

(* A watch goroutine never blocks on errCh, which nobody reads once the    *)
(* constructor has returned: otherwise wg.Wait in Close would not return.  *)
ErrChNeverBlocks ==
    \A k \in Kinds : gpc[k] = "send" => Cardinality(errCh) < ErrCap

(* When a call of Close, or a failing constructor, has returned, every     *)
(* watch goroutine has exited and an owned client has been closed: nothing *)
(* leaks and the source's material no longer changes.                      *)
ClosedIsQuiet ==
    pc = "err" \/ (\E c \in CloseCallers : cpc[c] = "done") =>
        /\ \A k \in Kinds : Stopped(k)
        /\ hasClient /\ OwnsClient => clientCloses = 1

(* However many calls of Close there are, the client is closed at most     *)
(* once, only if the source owns it, and only when no watch uses it.       *)
ClientClosedOnce ==
    clientCloses > 0 => /\ clientCloses = 1
                        /\ OwnsClient
                        /\ \A k \in Kinds : Stopped(k)

(* All calls of Close return the error of the one call that closed the     *)
(* client ("It is idempotent", closeBase).                                 *)
CloseCallsAgree ==
    \A c, d \in CloseCallers :
        cpc[c] = "done" /\ cpc[d] = "done" => ret[c] = ret[d]

(***************************************************************************)
(* The inductive invariant from which the invariants above follow, in four *)
(* parts: where the constructor is and what it has waited for; what a      *)
(* goroutine inside a callback has already done; which errors are in errCh;*)
(* what the holder of closeMtx and the closed flag stand for.              *)
(***************************************************************************)
CtorInv ==
    /\ \A k \in Kinds : gpc[k] = "off" <=> k > started
    /\ waited <= started
    /\ \A k \in Kinds : k <= waited => isSet[k]
    /\ pc = "new" => started = 0 /\ ~hasClient
    /\ pc = "ok" => waited = NumKinds

UpdateInv ==
    \A k \in Kinds :
        /\ isSet[k] => ver[k] >= 1
        /\ gpc[k] \in {"trigger", "signal"} => ver[k] >= 1
        /\ isSet[k] /\ ver[k] = 1 => gpc[k] \notin {"trigger", "signal"}

ErrInv == \A k \in errCh : gpc[k] = "exited"

CloseInv ==
    /\ \A c \in CloseCallers :
        /\ closeMtx = c <=> cpc[c] \in {"wait", "closer", "unlock"}
        /\ cpc[c] # "idle" => pc \notin {"new", "run"}
        /\ cpc[c] \in {"wait", "closer"} => ~closed
        /\ cpc[c] \in {"unlock", "done"} => closed
        /\ cpc[c] = "closer" => \A k \in Kinds : Stopped(k)
        /\ cpc[c] = "done" => ret[c] = closeErr
    /\ closed => /\ pc \notin {"new", "run"}
                 /\ \A k \in Kinds : Stopped(k)
    /\ clientCloses = IF closed /\ ClosesClient THEN 1 ELSE 0
    /\ pc = "err" => closed \/ (started = 0 /\ ~hasClient)

IInv ==
    /\ CtorInv
    /\ UpdateInv
    /\ ErrInv
    /\ CloseInv
    /\ NoSpuriousNotification
    /\ NoLostUpdate

(* Liveness *)

(* Every call of Close returns. *)
CloseReturns == \A c \in CloseCallers : cpc[c] = "lock" ~> cpc[c] = "done"

(* The constructor returns once its context is done, whatever the watches  *)
(* do: it cannot hang on a server that sends nothing.                      *)
ConstructorReturns == ctxDone ~> pc \in {"ok", "err"}
=============================================================================
