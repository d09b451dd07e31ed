------------------------- MODULE MCClusterScheduler -------------------------
EXTENDS ClusterScheduler, TLC

MCHpu == 0 .. 1
OneHpu == {0}
Sym == Permutations(Pkt)
=============================================================================
