------------------------------ MODULE MpqFifos ------------------------------
(***************************************************************************)
(* What the FIFO engine promises the MPQ engine: one packet queue per MPQ, *)
(* all of them drawing on a shared pool of cells.  Every queue owns        *)
(* NUM_STATIC reserved cells; NUM_CELLS dynamic cells are shared.  A queue *)
(* entry remembers which kind of cell holds it, because that decides when  *)
(* fifo_full is raised.  FifoEngine (the linked-list implementation of     *)
(* fifo_engine.sv) is shown to implement this module.                      *)
(***************************************************************************)
EXTENDS Naturals, Sequences, FiniteSets

CONSTANTS
  MPQ,        \* queue identifiers, 0 .. NUM_MPQ-1 in the RTL
  Pkt,        \* what a queue stores: the L2 address (and size) of a packet
  NUM_CELLS,  \* dynamic cells (NUM_HER_SLOTS)
  NUM_STATIC, \* static cells per queue (NUM_MPQ_STATIC_CELLS)
  None        \* an event that does not happen in a cycle

VARIABLE fifo \* [MPQ -> Seq(Entry)]

Entry == [pkt : Pkt, static : BOOLEAN]

StaticOccup(i) == Cardinality({k \in DOMAIN fifo[i] : fifo[i][k].static})

DynamicInUse ==
  UNION {{i} \X {k \in DOMAIN fifo[i] : ~fifo[i][k].static} : i \in MPQ}

\* fifo_full_o[i]: no dynamic cell left and the queue's own cells all taken.
Full(i) ==
  /\ Cardinality(DynamicInUse) = NUM_CELLS
  /\ StaticOccup(i) = NUM_STATIC

\* data_o: the entry the pop port reads in this cycle.
DataO(i) == Head(fifo[i]).pkt

(***************************************************************************)
(* One clock cycle of the engine: at most one push (an [id, pkt] record or *)
(* None) and at most one pop (a queue or None), on the same queue or on    *)
(* different ones.  The cell kind of a push is decided on the occupation   *)
(* before the cycle's pop.                                                 *)
(***************************************************************************)
FifoCycle(push, pop) ==
  fifo' = [i \in MPQ |->
    LET rest == IF i = pop THEN Tail(fifo[i]) ELSE fifo[i]
    IN  IF push # None /\ push.id = i
        THEN Append(rest, [pkt    |-> push.pkt,
                           static |-> StaticOccup(i) < NUM_STATIC])
        ELSE rest]

FifoInit == fifo = [i \in MPQ |-> << >>]

\* The user of the engine pushes only into a queue that is not full and pops
\* only from a queue that is not empty.
FifoNext ==
  \E push \in [id : {i \in MPQ : ~Full(i)}, pkt : Pkt] \cup {None},
     pop  \in {i \in MPQ : fifo[i] # << >>} \cup {None} :
    FifoCycle(push, pop)

FifoSpec == FifoInit /\ [][FifoNext]_fifo
=============================================================================
