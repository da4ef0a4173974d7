---------------------------- MODULE MCProxyServer ----------------------------
EXTENDS ProxyServer, TLC
ConnSymmetry == Permutations(Conns)
=============================================================================
