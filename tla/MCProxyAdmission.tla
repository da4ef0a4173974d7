--------------------------- MODULE MCProxyAdmission ---------------------------
EXTENDS ProxyAdmission, TLC

ConnSymmetry == Permutations(Conns)
=============================================================================
