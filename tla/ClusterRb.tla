----------------------------- MODULE ClusterRb ------------------------------
(***************************************************************************)
(* The allocator of the L1 packet buffer of a cluster: cluster_rb.sv, a    *)
(* ring buffer whose regions are freed in any order, and the shim that     *)
(* spreads allocations over several of them (cluster_rb_shim.sv).          *)
(*                                                                         *)
(* Sizes and indices are in slots of MemSlotSize bytes: a size in bytes is *)
(* rounded up to slots where it enters (push_size, pop_size), which also   *)
(* preserves the comparison of a size with free_space_o.                   *)
(* A step is a clock cycle, with an allocation, a release, both or none.   *)
(***************************************************************************)
EXTENDS Integers, FiniteSets

CONSTANTS
  NumRB,     \* ring buffers behind the shim
  NumSlots,  \* slots of each
  Sizes,     \* sizes that are asked for
  None

VARIABLES
  rb,        \* the registers of every ring buffer: [bitmap, head, tail]
  regions    \* regions in use: [rb, idx, size], size > 0 (history)

rbVars == <<rb, regions>>

RB    == 0 .. NumRB - 1
Slots == 0 .. NumSlots - 1
Rb == [bitmap : SUBSET Slots, head : Slots, tail : Slots]
Region == [rb : RB, idx : Slots, size : Sizes]

ASSUME RingsAssumption == NumRB \in Nat /\ NumRB > 0
ASSUME SlotsAssumption == NumSlots \in Nat /\ NumSlots > 0
ASSUME SizesAssumption == Sizes \subseteq 0 .. NumSlots
ASSUME NoneAssumption == None \notin Sizes \cup Region

\* slot_ptr_t has as many bits as a slot number, NumSlots being a power of
\* two: a pointer past the end wraps around.
Wrap(n) == IF n < NumSlots THEN n ELSE n - NumSlots
Interval(idx, size) == {i \in Slots : idx <= i /\ i < idx + size}

-----------------------------------------------------------------------------
(* One ring buffer.  Names ending in _F and a number are faults, unused.   *)

EqualFull(r) == r.head = r.tail /\ r.bitmap # {}
EqualEmpty(r) == r.head = r.tail /\ r.bitmap = {}

\* free_space_o: the longest region that can be allocated next.
FreeSlots_F1(r) ==
  IF EqualFull(r) THEN 0
  ELSE IF r.head <= r.tail THEN (NumSlots - r.tail) + r.head
  ELSE r.head - r.tail
FreeSlots(r) ==
  CASE EqualFull(r) -> 0
    [] ~EqualFull(r) /\ r.head <= r.tail ->
         IF NumSlots - r.tail > r.head THEN NumSlots - r.tail ELSE r.head
    [] OTHER -> r.head - r.tail

\* data_fits.  tail - head is computed on one bit more than a slot number
\* (the width of push_size), so it is 2 * NumSlots - (head - tail) here.
DataFits(r, n) ==
  /\ ~EqualFull(r)
  /\ IF r.head <= r.tail THEN n <= NumSlots - r.tail \/ n <= r.head
     ELSE n <= 2 * NumSlots + r.tail - r.head

\* A region does not wrap around: the slots up to the end are skipped.
Padding(r, n) ==
  IF r.head <= r.tail /\ n > NumSlots - r.tail THEN NumSlots - r.tail ELSE 0
PushIdx(r, n) == Wrap(r.tail + Padding(r, n))

Pushed(r, n) == Interval(PushIdx(r, n), n)

\* i_lzc_head_ptr_incr: free slots in front of the head, all if none is used.
LeadingFree(r) ==
  IF r.bitmap = {} THEN NumSlots
  ELSE CHOOSE k \in Slots : /\ Wrap(r.head + k) \in r.bitmap
                            /\ \A j \in 0 .. k - 1 : Wrap(r.head + j) \notin r.bitmap
IncrMax(r) ==
  IF r.tail >= r.head THEN r.tail - r.head ELSE r.tail + NumSlots - r.head
HeadIncr(r) == IF IncrMax(r) > LeadingFree(r) THEN LeadingFree(r) ELSE IncrMax(r)

\* n: the size allocated, or None; f: the region released, or None.
NextTail_F1(r, n) == Wrap(r.tail + n)
NextTail(r, n) == Wrap(r.tail + Padding(r, n) + n)
Quiet_F1(r, push, pop) == FALSE
Quiet(r, push, pop) == ~push /\ ~pop /\ EqualEmpty(r)
RbCycle(r, n, f) ==
  LET push   == n # None /\ DataFits(r, n)
      pop    == f # None
      flip   == (IF push THEN Pushed(r, n) ELSE {})
                  \cup (IF pop THEN Interval(f.idx, f.size) ELSE {})
  IN  [bitmap |-> (r.bitmap \ flip) \cup (flip \ r.bitmap),
       head   |-> IF Quiet(r, push, pop) THEN 0 ELSE Wrap(r.head + HeadIncr(r)),
       tail   |-> IF Quiet(r, push, pop) THEN 0
                  ELSE IF push THEN NextTail(r, n) ELSE r.tail]

-----------------------------------------------------------------------------
(* The shim *)

WithSpace(n) == {i \in RB : FreeSlots(rb[i]) >= n}
\* free_space_o >= n: the largest free space among the ring buffers suffices.
HasSpace(n) == WithSpace(n) # {}
\* i_lzc_rb_selector: the first ring buffer with enough space.
Selected(n) == LET W == WithSpace(n) IN CHOOSE i \in W : \A j \in W : i <= j
AllocIndex(n) ==
  [rb |-> Selected(n), idx |-> PushIdx(rb[Selected(n)], n), size |-> n]

\* n: the size asked for, or None; f: the region released, or None.
ShimCycle(n, f) ==
  rb' = [i \in RB |->
           RbCycle(rb[i], IF n # None /\ i = Selected(n) THEN n ELSE None,
                   IF f # None /\ f.rb = i THEN f ELSE None)]

Cycle(n, f) ==
  /\ n # None => HasSpace(n)
  /\ ShimCycle(n, f)
  /\ regions' = (regions \ {f})
                  \cup (IF n \in Sizes \ {0} THEN {AllocIndex(n)} ELSE {})

RbInit ==
  /\ rb = [i \in RB |-> [bitmap |-> {}, head |-> 0, tail |-> 0]]
  /\ regions = {}

\* The surroundings: the cluster scheduler asks only for sizes that
\* free_space_o admits and releases regions in the order handlers end.  A
\* packet of no byte occupies no slot, but its release is a release.
NoBytes == [rb : RB, idx : {0}, size : {0} \cap Sizes]
RbNext ==
  \E n \in Sizes \cup {None}, f \in regions \cup NoBytes \cup {None} :
    Cycle(n, f)

RbSpec == RbInit /\ [][RbNext]_rbVars

-----------------------------------------------------------------------------
(* Properties *)

\* Every register stays in its type and every region in its ring buffer.
RbTypeOK ==
  /\ rb \in [RB -> Rb]
  /\ regions \subseteq Region
  /\ \A g \in regions : g.idx + g.size <= NumSlots

SlotsOf(g) == Interval(g.idx, g.size)

\* No L1 slot ever belongs to two packets, whatever the order of releases
\* and although only the head pointer and a bitmap record them.
RegionsDisjoint ==
  \A g, h \in regions : g # h /\ g.rb = h.rb => SlotsOf(g) \cap SlotsOf(h) = {}

\* What the shim reports as free space can be allocated in one piece: the
\* selected ring buffer accepts the size and the region does not run past its
\* end.  The scheduler relies on it, as it ignores alloc_ready_o.
SpaceIsUsable ==
  \A n \in Sizes : HasSpace(n) /\ n > 0 =>
    LET r == rb[Selected(n)] IN
      /\ DataFits(r, n)
      /\ PushIdx(r, n) + n <= NumSlots
=============================================================================
