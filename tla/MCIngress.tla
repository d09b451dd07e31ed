----------------------------- MODULE MCIngress ------------------------------
EXTENDS Ingress

MCSizes == (0 :> 4) @@ (1 :> 2)
MCCounts == (0 :> 3) @@ (1 :> 3)
=============================================================================
