---------------------------- MODULE MCFifoEngine ----------------------------
EXTENDS FifoEngine, TLC

Sym == Permutations(MPQ) \cup Permutations(Pkt)
=============================================================================
