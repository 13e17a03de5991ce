------------------------------ MODULE MCFederation ------------------------------
(* Instances of Federation for TLC. *)
EXTENDS Federation

CONSTANTS a1, a2

MCAuthorities == {a1, a2}
MCHints == {0, 1, 4}
=============================================================================
