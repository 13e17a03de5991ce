------------------------------ MODULE MCSpiffeTLS ------------------------------
(* Instance of SpiffeTLS for TLC: two mode objects, each used by two calls; *)
(* a base configuration that two calls with different modes share, one of  *)
(* a single call, and a call without.                                      *)
EXTENDS SpiffeTLS

CONSTANTS e1, e2, e3, e4, m1, m2, b1, b2

MCEndpoints == {e1, e2, e3, e4}
MCModeIds == {m1, m2}
MCModeOf == [e \in MCEndpoints |-> IF e \in {e1, e2} THEN m1 ELSE m2]
MCBases == {b1, b2}
MCBaseOf == [e \in MCEndpoints |-> CASE e = e2 -> NoBase [] e = e4 -> b2 [] OTHER -> b1]
MCBrings == [b \in MCBases |-> IF b = b1 THEN {"VerifyPeerCertificate", "VerifyConnection"}
                                          ELSE {"GetConfigForClient"}]
=============================================================================
