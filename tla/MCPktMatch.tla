----------------------------- MODULE MCPktMatch -----------------------------
EXTENDS PktMatch, TLC

\* One to three beats of two words, with and without passthrough.
MCPackets == UNION {[1 .. n -> {1, 2}] : n \in 1 .. 3}

Rule(i, m, s, e) == [idx |-> i, mask |-> m, start |-> s, end |-> e]
TRUEs == Rule(0, 0, 0, 0)
FALSEs == Rule(0, 0, 1, 0)

\* Set 0: word 0 is 1 and word 1 is 2, end of message if word 0 has bit 0.
\* Set 1: word 0 is 2 or word 1 is 2, end of message if word 1 is 1.
MCConfig == [mode |-> (0 :> "AND") @@ (1 :> "OR") @@ (2 :> "AND"),
             rule |-> (0 :> Rule(0, 3, 1, 1)) @@ (1 :> Rule(1, 3, 2, 2)) @@ (2 :> Rule(0, 1, 1, 1))
                   @@ (3 :> Rule(0, 3, 2, 2)) @@ (4 :> Rule(1, 2, 2, 3)) @@ (5 :> Rule(1, 3, 1, 1))
                   @@ (6 :> TRUEs) @@ (7 :> FALSEs) @@ (8 :> TRUEs)]
MCConfigs == {MCConfig}
=============================================================================
