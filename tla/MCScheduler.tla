---------------------------- MODULE MCScheduler -----------------------------
EXTENDS Scheduler, TLC

CONSTANTS t0, t1, t2, t3, t4, t5

TwoClusters == 0 .. 1

\* Messages of both home clusters, three tasks each.
Six == (t0 :> 0) @@ (t1 :> 0) @@ (t2 :> 0) @@ (t3 :> 1) @@ (t4 :> 1) @@ (t5 :> 1)

\* Tasks of the same home cluster are interchangeable.
Sym == {p \in Permutations(Tasks) : \A t \in Tasks : Home[p[t]] = Home[t]}
=============================================================================
