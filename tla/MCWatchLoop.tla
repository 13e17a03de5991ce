------------------------------ MODULE MCWatchLoop ------------------------------
(* Instance of WatchLoop for TLC: the second of three versions is malformed. *)
EXTENDS WatchLoop

MCMalformed == {2}
=============================================================================
