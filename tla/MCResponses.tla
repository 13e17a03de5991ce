------------------------------ MODULE MCResponses ------------------------------
(* An instance of Responses for TLC: up to three SVIDs in two trust        *)
(* domains, and four keys of which two spell the same trust domain and one *)
(* spells none.                                                            *)
EXTENDS Responses

CONSTANTS t1, t2, k1, k2, k3, k4

MCTrustDomains == {t1, t2}
MCKeys == {k1, k2, k3, k4}
MCNames == [k \in MCKeys |-> CASE k \in {k1, k2} -> t1 [] k = k3 -> t2 [] OTHER -> Malformed]
=============================================================================
