----------------------------- MODULE MCBundleLocks -----------------------------
(* Instances of BundleLocks for TLC. *)
EXTENDS BundleLocks

CONSTANTS t1, t2, t3

MCThreads == {t1, t2, t3}
MCPair == {t1, t2}

MCPackages == DOMAIN Body

\* Every method but the ones that take the bundle's read lock twice.
MCFlat == MethodNames \ {"BundleGetForTrustDomain"}
MCNested == {"BundleWriter", "BundleGetForTrustDomain"}
=============================================================================
