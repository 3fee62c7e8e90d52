---------------------------- MODULE MCLicensing -----------------------------
EXTENDS Licensing, TLC

Symmetry == Permutations(KeyIds) \cup Permutations(Nonces)
=============================================================================
