---------------------------- MODULE WatchContract ----------------------------
(***************************************************************************)
(* What a Watch* method of the Workload API client promises to its caller, *)
(* whatever the network does: it hands updates to the watcher's callback,  *)
(* never one older than the last, until it returns; once it has returned   *)
(* it calls nothing back; it returns once its context is done or the       *)
(* client's connection is closed, and otherwise only because the server    *)
(* sent a fatal status.                                                    *)
(*                                                                         *)
(* WatchLoop implements this specification.  Watcher is written against    *)
(* it: its watch goroutines take the steps Update and Return.              *)
(***************************************************************************)
EXTENDS Naturals

VARIABLES watching,   \* the method has not returned yet
          delivered,  \* newest version handed to On*Update; 0 is none
          stop,       \* the context is done or the client is closed
          fatal       \* the server has sent a fatal status

cvars == <<watching, delivered, stop, fatal>>

Init ==
    /\ watching = TRUE
    /\ delivered = 0
    /\ stop = FALSE
    /\ fatal = FALSE

(* On*Update is called with a version newer than any before; a version    *)
(* that was already delivered changes nothing here.                       *)
Update ==
    /\ watching
    /\ delivered' \in Nat /\ delivered' > delivered
    /\ UNCHANGED <<watching, stop, fatal>>

(* The caller cancels the context or closes the client. *)
Stop ==
    /\ ~stop
    /\ stop' = TRUE
    /\ UNCHANGED <<watching, delivered, fatal>>

(* The server answers with a status that ends the watch. *)
Fatal ==
    /\ watching /\ ~fatal
    /\ fatal' = TRUE
    /\ UNCHANGED <<watching, delivered, stop>>

Return ==
    /\ watching
    /\ stop \/ fatal
    /\ watching' = FALSE
    /\ UNCHANGED <<delivered, stop, fatal>>

Next == Update \/ Stop \/ Fatal \/ Return

(* What it never does, and what it does in the end. *)
Safety == Init /\ [][Next]_cvars

Spec == Safety /\ WF_cvars(Return)
=============================================================================
