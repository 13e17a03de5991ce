---------------------------- MODULE MCBundleStore ----------------------------
EXTENDS BundleStore, TLC

CONSTANTS td1, b1, b2, a1

MCTDs == {td1}
MCSlots == {b1, b2}
MCAuthorities == {a1}

Symmetry == Permutations(MCSlots)
=============================================================================
