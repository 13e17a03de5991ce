-------------------------------- MODULE Source --------------------------------
(***************************************************************************)
(* X509Source, JWTSource, BundleSource and WITSource (workloadapi) on top  *)
(* of the Watcher they all use, with the goroutines that call them.        *)
(*                                                                         *)
(* X509Source, JWTSource and BundleSource have a closed flag of their own, *)
(* set before the watcher is closed, and their getters test that flag; a   *)
(* WITSource tests the flag of watcherBase under closeMtx (WIT).           *)
(*                                                                         *)
(* LockedReads says whether a getter reads the material under the mutex    *)
(* the update wrote it under: GetX509SVID, the getters of BundleSource and *)
(* of WITSource do; X509Source.GetX509BundleForTrustDomain and             *)
(* JWTSource.GetJWTBundleForTrustDomain do not.  By the Go memory model an *)
(* unlocked read may return any version from the newest one that happened  *)
(* before the read (floor) to the current one.                             *)
(***************************************************************************)
EXTENDS Watcher

CONSTANTS
    Consumers,   \* goroutines that call getters and WaitUntilUpdated
    LockedReads

ASSUME SourceAssumption == LockedReads \in BOOLEAN

VARIABLES
    srcClosed,  \* s.closed
    flagged,    \* callers of Close that have set s.closed
    upc,        \* upc[u]: where consumer u is; see UPCs
    uk,         \* uk[u]: the kind whose getter u is calling
    held,       \* held[u][k]: the version u last read; 0 is none
    floor,      \* floor[u][k]: oldest version an unlocked read by u may see
    stamp,      \* stamp[k]: newest version that happened before the pending
                \*   notification was sent
    late        \* late[u]: some Close had returned when u's call began

sourceVars == <<srcClosed, flagged, upc, uk, held, floor, stamp, late>>
allVars == <<vars, sourceVars>>

UPCs == {"start",    \* waits for the constructor
         "idle",     \* between calls
         "waiting",  \* in WaitUntilUpdated
         "check",    \* in a getter, before checkClosed
         "read",     \* in a getter, after checkClosed succeeded
         "stopped"}  \* a getter returned "source is closed"

SourceTypeOK ==
    /\ TypeOK
    /\ srcClosed \in BOOLEAN
    /\ flagged \subseteq Closers
    /\ upc \in [Consumers -> UPCs]
    /\ uk \in [Consumers -> Kinds]
    /\ held \in [Consumers -> [Kinds -> 0..MaxVersion]]
    /\ floor \in [Consumers -> [Kinds -> 0..MaxVersion]]
    /\ stamp \in [Kinds -> 0..MaxVersion]
    /\ late \in [Consumers -> BOOLEAN]

SourceInit ==
    /\ Init
    /\ srcClosed = FALSE /\ flagged = {}
    /\ upc = [u \in Consumers |-> "start"]
    /\ uk = [u \in Consumers |-> 1]
    /\ held = [u \in Consumers |-> [k \in Kinds |-> 0]]
    /\ floor = [u \in Consumers |-> [k \in Kinds |-> 0]]
    /\ stamp = [k \in Kinds |-> 0]
    /\ late = [u \in Consumers |-> FALSE]

-----------------------------------------------------------------------------
(* Close *)

(* Mutant: Close goes straight to the watcher. *)
MarkClosedForgotten(c) ==
    /\ ~WIT
    /\ pc = "ok" /\ cpc[c] = "idle" /\ c \notin flagged
    /\ flagged' = flagged \cup {c}
    /\ UNCHANGED <<vars, srcClosed, upc, uk, held, floor, stamp, late>>

(* s.closed = true under the source's own closeMtx. *)
MarkClosed(c) ==
    /\ ~WIT
    /\ pc = "ok" /\ cpc[c] = "idle" /\ c \notin flagged
    /\ srcClosed' = TRUE
    /\ flagged' = flagged \cup {c}
    /\ UNCHANGED <<vars, upc, uk, held, floor, stamp, late>>

(* s.watcher.Close() or, in a WITSource, Close itself. *)
CloseWatcher(c) ==
    /\ WIT \/ c \in flagged
    /\ CallClose(c)
    /\ UNCHANGED sourceVars

-----------------------------------------------------------------------------
(* The consumers *)

CloseReturned == \E c \in Closers : cpc[c] = "done"

(* A consumer reads every kind, then waits for an update or reads again. *)
BeginGet(u, k) ==
    /\ upc' = [upc EXCEPT ![u] = "check"]
    /\ uk' = [uk EXCEPT ![u] = k]
    /\ late' = [late EXCEPT ![u] = CloseReturned]

(* The first call after the constructor returned, which the first update   *)
(* of every kind happened before.                                          *)
FirstGet(u) ==
    /\ upc[u] = "start"
    /\ pc = "ok"
    /\ BeginGet(u, 1)
    /\ floor' = [floor EXCEPT ![u] = [k \in Kinds |-> 1]]
    /\ UNCHANGED <<vars, srcClosed, flagged, held, stamp>>

CallGet(u) ==
    /\ upc[u] = "idle"
    /\ BeginGet(u, 1)
    /\ UNCHANGED <<vars, srcClosed, flagged, held, floor, stamp>>

(* The flag that checkClosed tests. *)
IsClosed == IF WIT THEN closed ELSE srcClosed

(* checkClosed; in a WITSource it takes closeMtx, so it waits for a Close  *)
(* in progress.                                                            *)
CheckClosed(u) ==
    /\ upc[u] = "check"
    /\ WIT => closeMtx = Nobody
    /\ upc' = [upc EXCEPT ![u] = IF IsClosed THEN "stopped" ELSE "read"]
    /\ UNCHANGED <<vars, srcClosed, flagged, uk, held, floor, stamp, late>>

(* Mutant: a getter for a kind the source does not watch. *)
ReadOffByOne(u) ==
    LET k == uk[u] IN
    /\ upc[u] = "read"
    /\ held' = [held EXCEPT ![u][k] = ver[k]]
    /\ IF k <= NumKinds
       THEN BeginGet(u, k + 1)
       ELSE upc' = [upc EXCEPT ![u] = "idle"] /\ UNCHANGED <<uk, late>>
    /\ UNCHANGED <<vars, srcClosed, flagged, floor, stamp>>

(* The getter returns the material it reads; then the next kind's is called. *)
Read(u) ==
    LET k == uk[u] IN
    /\ upc[u] = "read"
    /\ \E v \in (IF LockedReads THEN ver[k] ELSE floor[u][k])..ver[k] :
           /\ held' = [held EXCEPT ![u][k] = v]
           /\ floor' = [floor EXCEPT ![u][k] = v]
    /\ IF k < NumKinds
       THEN BeginGet(u, k + 1)
       ELSE upc' = [upc EXCEPT ![u] = "idle"] /\ UNCHANGED <<uk, late>>
    /\ UNCHANGED <<vars, srcClosed, flagged, stamp>>

CallWait(u) ==
    /\ upc[u] = "idle"
    /\ upc' = [upc EXCEPT ![u] = "waiting"]
    /\ late' = [late EXCEPT ![u] = CloseReturned]
    /\ UNCHANGED <<vars, srcClosed, flagged, uk, held, floor, stamp>>

(* WaitUntilUpdated receives a notification and returns nil: what happened *)
(* before the send happened before this.                                   *)
Wake(u) ==
    /\ upc[u] = "waiting"
    /\ Receive
    /\ BeginGet(u, 1)
    /\ floor' = [floor EXCEPT ![u] =
                    [k \in Kinds |-> IF stamp[k] > floor[u][k] THEN stamp[k] ELSE floor[u][k]]]
    /\ UNCHANGED <<srcClosed, flagged, held, stamp>>

(* WaitUntilUpdated returns ctx.Err(). *)
WaitExpires(u) ==
    /\ upc[u] = "waiting"
    /\ upc' = [upc EXCEPT ![u] = "idle"]
    /\ UNCHANGED <<vars, srcClosed, flagged, uk, held, floor, stamp, late>>

-----------------------------------------------------------------------------
(* triggerUpdated: a send that finds the slot taken synchronises with      *)
(* nobody.                                                                 *)
TriggerStamped(k) ==
    /\ Trigger(k)
    /\ stamp' = IF updatedCh THEN stamp ELSE [stamp EXCEPT ![k] = ver[k]]
    /\ UNCHANGED <<srcClosed, flagged, upc, uk, held, floor, late>>

WatcherStep ==
    /\ \/ CtorNext
       \/ ContextDone
       \/ \E k \in Kinds : OnUpdate(k) \/ SignalSet(k) \/ WatchReturns(k) \/ SendErr(k)
       \/ \E c \in CloseCallers : CloseNext(c)
    /\ UNCHANGED sourceVars

GetNext(u) == CheckClosed(u) \/ Read(u)

ConsumerNext(u) ==
    FirstGet(u) \/ CallGet(u) \/ GetNext(u) \/ CallWait(u) \/ Wake(u) \/ WaitExpires(u)

SourceFinished == Finished /\ UNCHANGED sourceVars

SourceNext ==
    \/ WatcherStep
    \/ \E k \in Kinds : TriggerStamped(k)
    \/ \E c \in Closers : MarkClosed(c) \/ CloseWatcher(c)
    \/ \E u \in Consumers : ConsumerNext(u)
    \/ SourceFinished

(* A getter that can go on does, and so does a started Close; when and     *)
(* whether consumers and closers begin a call is theirs to decide.         *)
SourceFairness ==
    /\ WF_allVars(CtorNext /\ UNCHANGED sourceVars)
    /\ \A k \in Kinds :
        /\ WF_allVars(TriggerStamped(k))
        /\ WF_allVars((SignalSet(k) \/ SendErr(k)) /\ UNCHANGED sourceVars)
        /\ WF_allVars(cancelled /\ WatchReturns(k) /\ UNCHANGED sourceVars)
    /\ \A c \in CloseCallers : WF_allVars(CloseNext(c) /\ UNCHANGED sourceVars)
    /\ \A c \in Closers : WF_allVars(c \in flagged /\ CloseWatcher(c))
    /\ \A u \in Consumers : WF_allVars(GetNext(u))

SourceSpec == SourceInit /\ [][SourceNext]_allVars /\ SourceFairness

-----------------------------------------------------------------------------
(* Properties *)

(* A getter called after some Close has returned reports that the source   *)
(* is closed: it does not return material that is no longer maintained.    *)
GetAfterCloseFails == \A u \in Consumers : upc[u] = "read" => ~late[u]

(* The inductive invariant behind GetAfterCloseFails: the flag a getter    *)
(* tests is set before any Close can return.                               *)
SourceIInv ==
    /\ \A c \in Closers : ~WIT /\ (c \in flagged \/ cpc[c] # "idle") => srcClosed
    /\ \A u \in Consumers : late[u] => IsClosed
    /\ GetAfterCloseFails

(* The one consumer of a source that reads after each wake-up is never     *)
(* left waiting with outdated material: either what it read last is        *)
(* current, or a notification is pending or about to be sent.              *)
BlockedConsumerIsCurrent ==
    \A u \in Consumers, k \in Kinds :
        upc[u] \in {"idle", "waiting"} /\ held[u][k] # ver[k]
            => updatedCh \/ gpc[k] = "trigger"

(* A getter that was called returns material or an error, even while Close *)
(* waits for the watches (WITSource.checkClosed waits for closeMtx).       *)
GetReturns == \A u \in Consumers : upc[u] = "check" ~> upc[u] \in {"read", "stopped"}

(* "Other source methods will return an error after Close has been called" *)
(* (X509Source.Close, JWTSource.Close, BundleSource.Close): a              *)
(* WaitUntilUpdated called after a Close returned does not succeed.        *)
WaitAfterCloseFails ==
    [][\A u \in Consumers : upc[u] = "waiting" /\ late[u] => upc'[u] # "check"]_allVars
=============================================================================
