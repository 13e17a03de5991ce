------------------------------- MODULE WatchLoop -------------------------------
(***************************************************************************)
(* One call of Client.WatchX509Context, WatchX509Bundles, WatchJWTBundles, *)
(* WatchWITSVIDs or WatchWITBundles (workloadapi/client.go): open a stream,*)
(* receive until it fails, report the failure, and retry after a linear    *)
(* backoff (workloadapi/backoff.go) unless the status ends the watch.      *)
(*                                                                         *)
(* The five methods differ only in their message type and in that the two  *)
(* WIT methods also stop on Unimplemented (wit).                           *)
(*                                                                         *)
(* A message is the version of the material it carries.  The Workload API  *)
(* server and the gRPC connection are external: the server sends its       *)
(* current material when a stream opens and every later version on it, in  *)
(* order; a stream that fails loses what was in flight.                    *)
(***************************************************************************)
EXTENDS Naturals, Sequences

CONSTANTS
    MaxVersion,            \* bound: versions the server publishes
    Malformed,             \* versions whose message does not parse
    MaxFailures,           \* bound: failures the server or network causes
    InitialDelay,          \* linearBackoff.initialDelay, 1 s in the code
    MaxDelay               \* linearBackoff.maxDelay, 30 s in the code

ASSUME WatchLoopAssumption ==
    /\ MaxVersion \in Nat /\ MaxFailures \in Nat
    /\ Malformed \subseteq 1..MaxVersion
    /\ InitialDelay \in Nat \ {0} /\ MaxDelay \in Nat \ {0}

VARIABLES
    wit,          \* the call is of WatchWITSVIDs or WatchWITBundles
    pc,           \* where the call is; see PCs
    n,            \* linearBackoff.n
    delay,        \* the last backoff.Next(); 0 before the first
    elapsed,      \* the time.After of this sleep has fired
    err,          \* status code of the last stream failure
    ctxErr,       \* ctx.Err(), "none" while the context is live
    clientClosed, \* the client's connection is closed
    delivered,    \* newest version passed to On*Update
    srv,          \* external: the server's current version
    inflight,     \* external: messages on the open stream
    failures,     \* failures caused by the server or network so far
    streak        \* history: failures since a message was last received

vars == <<wit, pc, n, delay, elapsed, err, ctxErr, clientClosed, delivered,
          srv, inflight, failures, streak>>

PCs == {"open", "recv", "handle", "sleep", "returned"}

(* "Other" stands for every status without special treatment: Unavailable, *)
(* Unknown (a clean EOF), Internal, PermissionDenied, ...                  *)
Codes == {"Canceled", "InvalidArgument", "Unimplemented",
          "DeadlineExceeded", "Other"}

(* The backoff stops growing when n reaches Saturated, so n is not counted *)
(* beyond it: Next returns the same delay for every larger n.              *)
Saturated == MaxDelay

(* Messages in flight never exceed the versions published. *)
TypeOK ==
    /\ wit \in BOOLEAN
    /\ pc \in PCs
    /\ n \in 0..Saturated
    /\ delay \in 0..MaxDelay
    /\ elapsed \in BOOLEAN
    /\ err \in Codes \cup {"none"}
    /\ ctxErr \in {"none", "Canceled", "DeadlineExceeded"}
    /\ clientClosed \in BOOLEAN
    /\ delivered \in 0..MaxVersion
    /\ srv \in 0..MaxVersion
    /\ inflight \in Seq(1..MaxVersion)
    /\ failures \in 0..MaxFailures
    /\ streak \in 0..Saturated

-----------------------------------------------------------------------------
(* linearBackoff *)

Lesser(a, b) == IF a <= b THEN a ELSE b

(* Mutant: the cap of linearBackoff.Next is forgotten. *)
BackoffNextUncapped == InitialDelay * (n + 1)

(* linearBackoff.Next: the delay for the current n. *)
BackoffNext == Lesser(InitialDelay * (n + 1), MaxDelay)

BumpBackoff == n' = Lesser(n + 1, Saturated)

(* Mutant: a received message does not reset the backoff. *)
ResetBackoffForgotten == n' = n

(* linearBackoff.Reset *)
ResetBackoff == n' = 0

-----------------------------------------------------------------------------
(* The watch loop *)

Init ==
    /\ wit \in BOOLEAN
    /\ pc = "open"
    /\ n = 0 /\ delay = 0 /\ elapsed = FALSE
    /\ err = "none" /\ ctxErr = "none" /\ clientClosed = FALSE
    /\ delivered = 0
    /\ srv = 0 /\ inflight = <<>> /\ failures = 0
    /\ streak = 0

(* The statuses with which a call fails because the caller gave up. *)
StopCodes == ({ctxErr} \ {"none"}) \cup (IF clientClosed THEN {"Canceled"} ELSE {})

(* wlClient.Fetch* succeeds; the server queues its current material. *)
OpenStream ==
    /\ pc = "open"
    /\ StopCodes = {}
    /\ pc' = "recv"
    /\ inflight' = IF srv = 0 THEN <<>> ELSE <<srv>>
    /\ UNCHANGED <<wit, n, delay, elapsed, err, ctxErr, clientClosed, delivered,
                   srv, failures, streak>>

(* The stream cannot be opened, or Recv returns an error: watch* returns   *)
(* it and the watcher's On*WatchError is told.  After the context is done  *)
(* or the client closed, the failure is theirs; any other one is counted.  *)
StreamFails ==
    /\ pc \in {"open", "recv"}
    /\ \/ err' \in StopCodes /\ UNCHANGED failures
       \/ /\ failures < MaxFailures
          /\ failures' = failures + 1
          /\ err' \in Codes
    /\ pc' = "handle"
    /\ inflight' = <<>>
    /\ streak' = Lesser(streak + 1, Saturated)
    /\ UNCHANGED <<wit, n, delay, elapsed, ctxErr, clientClosed, delivered, srv>>

(* Recv returns a message: the backoff is reset before the message is      *)
(* parsed; a malformed one goes to On*WatchError and the loop continues.   *)
RecvMessage ==
    /\ pc = "recv"
    /\ inflight # <<>>
    /\ inflight' = Tail(inflight)
    /\ ResetBackoff
    /\ streak' = 0
    /\ delivered' = IF Head(inflight) \in Malformed THEN delivered ELSE Head(inflight)
    /\ UNCHANGED <<wit, pc, delay, elapsed, err, ctxErr, clientClosed, srv, failures>>

(* The statuses after which the watch is not retried. *)
Terminal ==
    {"Canceled", "InvalidArgument"}
        \cup (IF wit THEN {"Unimplemented"} ELSE {})

(* handleWatchError (and the WIT methods' Unimplemented check before it). *)
GiveUp ==
    /\ pc = "handle"
    /\ err \in Terminal
    /\ pc' = "returned"
    /\ UNCHANGED <<wit, n, delay, elapsed, err, ctxErr, clientClosed, delivered,
                   srv, inflight, failures, streak>>

Backoff ==
    /\ pc = "handle"
    /\ err \notin Terminal
    /\ delay' = BackoffNext
    /\ BumpBackoff
    /\ elapsed' = FALSE
    /\ pc' = "sleep"
    /\ UNCHANGED <<wit, err, ctxErr, clientClosed, delivered, srv, inflight,
                   failures, streak>>

(* Mutant: the retry goes on reading the stream that failed. *)
SleepOverKeepsStream ==
    /\ pc = "sleep"
    /\ elapsed
    /\ pc' = "recv"
    /\ UNCHANGED <<wit, n, delay, elapsed, err, ctxErr, clientClosed, delivered,
                   srv, inflight, failures, streak>>

(* Mutant: handleWatchError sleeps without watching the context. *)
SleepCanceledMissing == FALSE /\ UNCHANGED vars

(* The select of handleWatchError: when both channels are ready, Go picks  *)
(* either.                                                                 *)
SleepOver ==
    /\ pc = "sleep"
    /\ elapsed
    /\ pc' = "open"
    /\ UNCHANGED <<wit, n, delay, elapsed, err, ctxErr, clientClosed, delivered,
                   srv, inflight, failures, streak>>

SleepCanceled ==
    /\ pc = "sleep"
    /\ ctxErr # "none"
    /\ pc' = "returned"
    /\ UNCHANGED <<wit, n, delay, elapsed, err, ctxErr, clientClosed, delivered,
                   srv, inflight, failures, streak>>

-----------------------------------------------------------------------------
(* The environment *)

(* time.After fires. *)
TimerFires ==
    /\ pc = "sleep"
    /\ ~elapsed
    /\ elapsed' = TRUE
    /\ UNCHANGED <<wit, pc, n, delay, err, ctxErr, clientClosed, delivered, srv,
                   inflight, failures, streak>>

(* External: the server rotates its material and sends it on an open stream. *)
Publish ==
    /\ srv < MaxVersion
    /\ srv' = srv + 1
    /\ inflight' = IF pc = "recv" THEN Append(inflight, srv + 1) ELSE inflight
    /\ UNCHANGED <<wit, pc, n, delay, elapsed, err, ctxErr, clientClosed, delivered,
                   failures, streak>>

(* The caller's context is cancelled or its deadline passes. *)
ContextDone ==
    /\ ctxErr = "none"
    /\ ctxErr' \in {"Canceled", "DeadlineExceeded"}
    /\ UNCHANGED <<wit, pc, n, delay, elapsed, err, clientClosed, delivered, srv,
                   inflight, failures, streak>>

(* Client.Close, by whoever owns the client. *)
CloseClient ==
    /\ ~clientClosed
    /\ clientClosed' = TRUE
    /\ UNCHANGED <<wit, pc, n, delay, elapsed, err, ctxErr, delivered, srv,
                   inflight, failures, streak>>

(* The call has returned; nothing is left for it to do. *)
Done == pc = "returned" /\ UNCHANGED vars

Loop == OpenStream \/ StreamFails \/ RecvMessage \/ GiveUp \/ Backoff
        \/ SleepOver \/ SleepCanceled

Next == Loop \/ TimerFires \/ Publish \/ ContextDone \/ CloseClient \/ Done

(***************************************************************************)
(* The loop's own steps are taken when they can be, except that nobody     *)
(* promises a failure: StreamFails is only forced by a context that is     *)
(* done or a client that is closed (gRPC fails the pending call).  Go's    *)
(* select chooses among ready channels at random, so a cancelled context   *)
(* that is offered again and again is taken in the end: strong fairness    *)
(* of SleepCanceled.                                                       *)
(***************************************************************************)
Fairness ==
    /\ WF_vars(OpenStream)
    /\ WF_vars(StopCodes # {} /\ StreamFails)
    /\ WF_vars(RecvMessage)
    /\ WF_vars(GiveUp)
    /\ WF_vars(Backoff)
    /\ WF_vars(SleepOver)
    /\ WF_vars(TimerFires)
    /\ SF_vars(SleepCanceled)

Spec == Init /\ [][Next]_vars /\ Fairness

-----------------------------------------------------------------------------
(* Properties *)

(* The wait before a retry (handleWatchError) grows by InitialDelay with   *)
(* each failure since a message was last received, up to MaxDelay: the     *)
(* backoff that watch* resets and handleWatchError advances, in different  *)
(* functions, counts exactly the failures in a row.                        *)
BackoffCountsFailures ==
    pc = "sleep" => delay = Lesser(InitialDelay * streak, MaxDelay)

(* The statuses that, by the methods' documentation, end a watch. *)
FatalCodes ==
    {"Canceled", "InvalidArgument"}
        \cup (IF wit THEN {"Unimplemented"} ELSE {})

(* The watch implements the contract its callers rely on: updates only go  *)
(* forward, across reconnections too; nothing is called back after Watch*  *)
(* returned; it returns for a cause, and once the context is done, the     *)
(* client is closed or the server sent a fatal status, it does return.     *)
Contract == INSTANCE WatchContract WITH
    watching <- pc # "returned",
    stop     <- StopCodes # {},
    fatal    <- pc \in {"handle", "returned"} /\ err \in FatalCodes

ImplementsContract == Contract!Spec

(* Unless the watch ends, well-formed material the server publishes        *)
(* reaches the watcher or is replaced by newer material, through any       *)
(* sequence of broken streams and retries: no failure that is not fatal    *)
(* ends the retrying.                                                      *)
MaterialArrives ==
    \A v \in (1..MaxVersion) \ Malformed :
        srv = v ~> delivered = v \/ srv > v \/ pc = "returned"
=============================================================================
