-------------------------------- MODULE MCSource --------------------------------
(* Instances of Source for TLC. *)
EXTENDS Source

CONSTANTS c1, c2, u1

MCClosers == {c1, c2}
MCOneCloser == {c1}
MCConsumers == {u1}
=============================================================================
