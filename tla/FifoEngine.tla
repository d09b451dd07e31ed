----------------------------- MODULE FifoEngine -----------------------------
(***************************************************************************)
(* fifo_engine.sv: the packet queues of all MPQs as linked lists in one    *)
(* memory of cells.  Cells below NUM_CELLS are shared; the rest are        *)
(* reserved, NUM_STATIC for each queue.  A step is a clock cycle with at   *)
(* most one push and at most one pop.  The engine implements MpqFifos.     *)
(***************************************************************************)
EXTENDS Naturals, Sequences, FiniteSets

CONSTANTS MPQ, Pkt, NUM_CELLS, NUM_STATIC, None

ASSUME CellsAssumption ==
  /\ IsFiniteSet(MPQ)
  /\ NUM_CELLS \in Nat \ {0}
  /\ NUM_STATIC \in Nat \ {0}
  /\ None \notin MPQ \cup Pkt \cup [id : MPQ, pkt : Pkt]

VARIABLES
  cells,         \* cells_q: [next, is_last] of every cell
  used,          \* free_cells_q: the cells whose bit is set, which are taken
  head,          \* fifo_head_q
  last,          \* fifo_last_q
  empty,         \* fifo_empty_q
  static_occup,  \* fifo_static_occup_q
  data,          \* i_fifo_data, None where nothing was written yet
  order          \* history: the cells of each queue, oldest first

vars == <<cells, used, head, last, empty, static_occup, data, order>>

TOT_CELLS == NUM_CELLS + NUM_STATIC * Cardinality(MPQ)
Cell    == 0 .. TOT_CELLS - 1
Dynamic == 0 .. NUM_CELLS - 1
Static  == NUM_CELLS .. TOT_CELLS - 1

-----------------------------------------------------------------------------
\* lzc: the lowest member.
Lowest(S) == CHOOSE c \in S : \A d \in S : c <= d

\* Operators named _F1 are plausible faults of the operator that follows; no
\* specification uses them, they show which property would notice.
FifoFull(i) == Dynamic \subseteq used /\ static_occup[i] = NUM_STATIC

PushingToStatic(i) == static_occup[i] < NUM_STATIC

PushCell_F1(i) ==
  IF Dynamic \ used # {} THEN Lowest(Dynamic \ used) ELSE Lowest(Static \ used)
PushCell(i) ==
  IF PushingToStatic(i) THEN Lowest(Static \ used) ELSE Lowest(Dynamic \ used)

Pushes(push, i) == push # None /\ push.id = i

\* Push and pop meet in a queue of one element: the new cell replaces it.
Replaces_F1(push, pop) == FALSE
Replaces(push, pop) ==
  push # None /\ push.id = pop /\ cells[head[pop]].is_last

NewUsed_F1(push, pop, c) ==
  (used \cup (IF push # None THEN {c} ELSE {}))
     \ (IF pop # None /\ ~Replaces(push, pop) THEN {head[pop]} ELSE {})
NewUsed(push, pop, c) ==
  (used \cup (IF push # None THEN {c} ELSE {}))
     \ (IF pop # None THEN {head[pop]} ELSE {})

NewOccup_F1(push, pop) ==
  [i \in MPQ |-> static_occup[i]
     + (IF Pushes(push, i) /\ PushingToStatic(i) THEN 1 ELSE 0)
     - (IF pop = i THEN 1 ELSE 0)]
NewOccup(push, pop) ==
  [i \in MPQ |-> static_occup[i]
     + (IF Pushes(push, i) /\ PushingToStatic(i) THEN 1 ELSE 0)
     - (IF pop = i /\ head[i] \in Static THEN 1 ELSE 0)]

NewCells(push, pop, c) ==
  [x \in Cell |->
     IF push = None THEN cells[x]
     ELSE IF x = last[push.id] /\ ~empty[push.id] /\ ~Replaces(push, pop)
          THEN [next |-> c, is_last |-> FALSE]
     ELSE IF x = c THEN [cells[x] EXCEPT !.is_last = TRUE]
     ELSE cells[x]]

NewHead(push, pop, c) ==
  [i \in MPQ |->
     IF pop = i THEN IF Replaces(push, pop) THEN c ELSE cells[head[i]].next
     ELSE IF Pushes(push, i) /\ empty[i] THEN c
     ELSE head[i]]

NewEmpty(push, pop) ==
  [i \in MPQ |->
     IF pop = i /\ ~Replaces(push, pop) THEN cells[head[i]].is_last
     ELSE empty[i] /\ ~Pushes(push, i)]

Cycle(push, pop) ==
  LET c == IF push = None THEN 0 ELSE PushCell(push.id)
  IN  /\ used' = NewUsed(push, pop, c)
      /\ static_occup' = NewOccup(push, pop)
      /\ cells' = NewCells(push, pop, c)
      /\ head' = NewHead(push, pop, c)
      /\ last' = [i \in MPQ |-> IF Pushes(push, i) THEN c ELSE last[i]]
      /\ empty' = NewEmpty(push, pop)
      /\ data' = IF push = None THEN data ELSE [data EXCEPT ![c] = push.pkt]
      /\ order' = [i \in MPQ |->
                     (IF pop = i THEN Tail(order[i]) ELSE order[i])
                       \o (IF Pushes(push, i) THEN <<c>> ELSE << >>)]

Init ==
  /\ cells = [x \in Cell |-> [next |-> 0, is_last |-> FALSE]]
  /\ used = {}
  /\ head = [i \in MPQ |-> 0]
  /\ last = [i \in MPQ |-> 0]
  /\ empty = [i \in MPQ |-> TRUE]
  /\ static_occup = [i \in MPQ |-> 0]
  /\ data = [x \in Cell |-> None]
  /\ order = [i \in MPQ |-> << >>]

\* The MPQ engine pushes into queues that are not full and pops queues that
\* are not empty (MpqEngine's LengthMatchesFifo).
Next ==
  \E push \in [id : {i \in MPQ : ~FifoFull(i)}, pkt : Pkt] \cup {None},
     pop  \in {i \in MPQ : ~empty[i]} \cup {None} :
    Cycle(push, pop)

Spec == Init /\ [][Next]_vars

-----------------------------------------------------------------------------
(* Properties *)

\* The registers keep their widths: a cell index never leaves the memory and
\* the occupation counter never exceeds the reserved cells.
TypeOK ==
  /\ cells \in [Cell -> [next : Cell, is_last : BOOLEAN]]
  /\ used \subseteq Cell
  /\ head \in [MPQ -> Cell]
  /\ last \in [MPQ -> Cell]
  /\ empty \in [MPQ -> BOOLEAN]
  /\ static_occup \in [MPQ -> 0 .. NUM_STATIC]
  /\ data \in [Cell -> Pkt \cup {None}]
  /\ order \in [MPQ -> Seq(Cell)]

\* Following `next' from `head' walks the cells of a queue in the order they
\* were pushed and stops, at the cell marked is_last, which `last' names.
LinksFollowOrder ==
  \A i \in MPQ :
    /\ empty[i] <=> order[i] = << >>
    /\ ~empty[i] => head[i] = order[i][1] /\ last[i] = order[i][Len(order[i])]
    /\ \A k \in 1 .. Len(order[i]) :
         /\ cells[order[i][k]].is_last <=> k = Len(order[i])
         /\ k < Len(order[i]) => cells[order[i][k]].next = order[i][k + 1]

\* A cell belongs to at most one place of one queue, and its bit is set
\* exactly while it does: no cell is handed out twice and none is lost.
CellsExact ==
  /\ \A i, j \in MPQ : \A k \in 1 .. Len(order[i]), l \in 1 .. Len(order[j]) :
       order[i][k] = order[j][l] => i = j /\ k = l
  /\ used = UNION {{order[i][k] : k \in 1 .. Len(order[i])} : i \in MPQ}

\* The queues as the MPQ engine sees them.
Queue(i) ==
  [k \in 1 .. Len(order[i]) |-> [pkt    |-> data[order[i][k]],
                                 static |-> order[i][k] \in Static]]

Abstract == INSTANCE MpqFifos WITH fifo <- [i \in MPQ |-> Queue(i)]

\* Every cycle of the engine is a cycle of the abstract queues, with the same
\* fifo_full, the same data at the head and the same order.
ImplementsFifos == Abstract!FifoSpec
=============================================================================
