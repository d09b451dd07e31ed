------------------------------ MODULE Ingress -------------------------------
(***************************************************************************)
(* From the matching engine to a HER: the packet allocator                 *)
(* (pspin_pkt_alloc.v) takes a slot of L2 packet memory for each matched   *)
(* packet, the ingress DMA (pspin_ingress_dma.v around axi_dma_wr.v)       *)
(* copies the packet there and latches the completion, and the HER         *)
(* generator (pspin_her_gen.v) turns the completion into a HER.  PsPIN     *)
(* gives the slot back with a feedback.  A step is a clock cycle.          *)
(*                                                                         *)
(* A frame is its tag, its execution context and its length in bytes.  The *)
(* matching engine sends the data into the RX FIFO and then holds the      *)
(* metadata until the allocator takes it.                                  *)
(***************************************************************************)
EXTENDS Integers, Sequences, FiniteSets, FiniteSetsExt, SequencesExt

CONSTANTS Ctx,          \* execution contexts; 0 is the default context
          Lengths,      \* lengths of frames, in bytes
          BEAT,         \* bytes of a beat of the stream
          SLOT_SIZE,    \* bytes of a slot of pool 0 and of pool 1
          SLOT_COUNT,   \* slots of pool 0 and of pool 1
          MaxFrames,    \* bound: frames received
          None

Pools == 0 .. 1
DEFAULT_CTX_ID == 0

\* Two stages of the free FIFOs' output pipeline and one for the write: an
\* initialised pool of three slots shows its first one.
ASSUME SizesAssumption ==
    /\ BEAT \in Nat \ {0}
    /\ SLOT_SIZE \in [Pools -> Nat \ {0}] /\ SLOT_SIZE[1] < SLOT_SIZE[0]
    /\ \A k \in Pools : SLOT_SIZE[k] % BEAT = 0
    /\ SLOT_COUNT \in [Pools -> Nat] /\ \A k \in Pools : SLOT_COUNT[k] >= 3
    /\ DEFAULT_CTX_ID \in Ctx

VARIABLES initialised, free_count, fifo, dropped_pkts,   \* allocator
          rx, meta,                                      \* stream and metadata
          writing, status, bready, desc_status,          \* axi_dma_wr
          her_gen,                                       \* completion latch
          ctx_enabled,                                   \* HER generator
          pspin,                                         \* HERs in PsPIN
          frames,                                        \* frames received
          missed, lost, failed                           \* history

alloc == <<initialised, free_count, fifo, dropped_pkts>>
dma == <<writing, status, bready, desc_status, her_gen>>
vars == <<alloc, rx, meta, dma, ctx_enabled, pspin, frames, missed, lost, failed>>

-----------------------------------------------------------------------------
\* Addresses of the slots: pool 0 first, then pool 1.
SLOT_START(k) == IF k = 0 THEN 0 ELSE SLOT_COUNT[0] * SLOT_SIZE[0]
SlotAddr(k, i) == SLOT_START(k) + SLOT_SIZE[k] * i
SlotsOf(k) == {SlotAddr(k, i) : i \in 0 .. SLOT_COUNT[k] - 1}
Slots == UNION {SlotsOf(k) : k \in Pools}

\* The matching engine counts whole beats.
MetaSize(len) == ((len + BEAT - 1) \div BEAT) * BEAT

\* The pool of a length, or None for one that fits no slot.
PoolOf(len) == IF SLOT_SIZE[0] >= len /\ len > SLOT_SIZE[1] THEN 0
               ELSE IF SLOT_SIZE[1] >= len THEN 1 ELSE None

-----------------------------------------------------------------------------
(* A free FIFO (axis_fifo.v, one RAM pipeline register): a word written is  *)
(* in mem in the next cycle and needs two more to reach the output `out'.   *)
EmptyFifo == [mem |-> <<>>, pipe |-> None, out |-> None]
Depth == [k \in Pools |-> Min({n \in {2^j : j \in 0 .. SLOT_COUNT[k]} : n >= SLOT_COUNT[k]})]
EnqReady(k) == Len(fifo[k].mem) < Depth[k]
FifoStep(f, enq, deq_ready) ==
    LET load == deq_ready \/ f.pipe = None \/ f.out = None
    IN  [mem  |-> (IF load /\ f.mem # <<>> THEN Tail(f.mem) ELSE f.mem)
                     \o (IF enq = None THEN <<>> ELSE <<enq>>),
         pipe |-> IF ~load THEN f.pipe
                  ELSE IF f.mem = <<>> THEN None ELSE Head(f.mem),
         out  |-> IF deq_ready \/ f.out = None THEN f.pipe ELSE f.out]

-----------------------------------------------------------------------------
\* The tag only tells frames apart: it is the number of the frame.
Tags == 1 .. MaxFrames
Frames == [tag : Tags, ctx : Ctx, len : Lengths]

GenReady(h) == ctx_enabled[DEFAULT_CTX_ID] /\ h
dma_ready == writing = None
PktReady_F1(h) == /\ dma_ready /\ GenReady(h) /\ initialised
                  /\ free_count[0] > 0 \/ free_count[1] > 0
PktReady(h) == /\ dma_ready /\ GenReady(h) /\ initialised
               /\ \A k \in Pools : free_count[k] > 0
feedback_ready == \A k \in Pools : EnqReady(k)

\* The descriptor the allocator hands to the DMA, or None.
Descriptor(h) ==
    IF meta = None \/ ~PktReady(h) THEN None
    ELSE LET k == PoolOf(meta.len)
         IN  IF k = None \/ fifo[k].out = None THEN None
             ELSE [addr |-> fifo[k].out, len |-> meta.len, tag |-> meta.tag, ctx |-> meta.ctx]

-----------------------------------------------------------------------------
(* The allocator: fills the pools one slot each per cycle, then serves the *)
(* metadata and the feedback of the cycle.                                 *)
Filling(k) == ~initialised /\ free_count[k] < SLOT_COUNT[k] /\ EnqReady(k)
TakenFrom(k, h) == meta # None /\ PktReady(h) /\ PoolOf(meta.len) = k
FreedTo_F1(k, fb) == fb # None /\ k = (IF SLOT_SIZE[1] > fb.len THEN 1 ELSE 0)
FreedTo(k, fb) == fb # None /\ PoolOf(fb.len) = k
Enq(k, fb) == IF Filling(k) THEN SlotAddr(k, free_count[k])
              ELSE IF initialised /\ FreedTo(k, fb) THEN fb.addr ELSE None

\* The counter sees the filling, the allocation and the feedback of a cycle.
FreeCount_F1(k, h, fb) == free_count[k] + (IF Filling(k) THEN 1 ELSE 0)
                            + (IF TakenFrom(k, h) THEN -1 ELSE IF FreedTo(k, fb) THEN 1 ELSE 0)
FreeCount(k, h, fb) == free_count[k] + (IF Filling(k) THEN 1 ELSE 0)
                                     - (IF TakenFrom(k, h) THEN 1 ELSE 0)
                                     + (IF FreedTo(k, fb) THEN 1 ELSE 0)

Alloc(h, fb) ==
    /\ fifo' = [k \in Pools |-> FifoStep(fifo[k], Enq(k, fb), TakenFrom(k, h))]
    /\ free_count' = [k \in Pools |-> FreeCount(k, h, fb)]
    /\ initialised' = (initialised \/ \A k \in Pools : free_count'[k] = SLOT_COUNT[k])
    /\ dropped_pkts' = dropped_pkts + (IF TakenFrom(None, h) THEN 1 ELSE 0)
    /\ missed' = [k \in Pools |->
                    missed[k] + (IF TakenFrom(k, h) /\ fifo[k].out = None THEN 1 ELSE 0)]

-----------------------------------------------------------------------------
(* The matching engine: a matched frame's data goes to the RX FIFO, and    *)
(* its metadata stays up until it is taken.  The beats of a frame and the  *)
(* cycles they take are abstracted: a frame arrives and is written in any  *)
(* number of cycles.                                                       *)
Receive(f, done, h) ==
    /\ frames' = frames + (IF f = None THEN 0 ELSE 1)
    /\ rx' = (IF done THEN Tail(rx) ELSE rx) \o (IF f = None THEN <<>> ELSE <<f>>)
    /\ meta' = IF f # None THEN [tag |-> f.tag, ctx |-> f.ctx, len |-> MetaSize(f.len)]
               ELSE IF PktReady(h) THEN None ELSE meta

(* The DMA takes a descriptor, writes the next frame of the RX FIFO until  *)
(* the frame or the descriptor ends (`done'), and waits for the memory's   *)
(* answer b.  bready is down for a cycle after each answer.                *)
Written_F1(d, f) == [addr |-> d.addr, len |-> Min({d.len, f.len}),
                     tag |-> IF meta = None THEN d.tag ELSE meta.tag, ctx |-> d.ctx, data |-> f.tag]
Written(d, f) == [addr |-> d.addr, len |-> Min({d.len, f.len}), tag |-> d.tag,
                  ctx |-> d.ctx, data |-> f.tag]
Dma(done, b, h) ==
    /\ writing' = IF done THEN None ELSE IF writing = None THEN Descriptor(h) ELSE writing
    /\ status' = (IF b = None THEN status ELSE Tail(status))
                   \o (IF done THEN <<Written(writing, Head(rx))>> ELSE <<>>)
    /\ bready' = (status # <<>> /\ b = None)
    /\ desc_status' = IF b = "OKAY" THEN Head(status) ELSE None
    /\ failed' = failed \cup (IF b = "SLVERR" THEN {Head(status).addr} ELSE {})

(* The completion latch: a completion is loaded; an acknowledgement in the *)
(* same cycle clears the latch, whatever was loaded.                       *)
Acked(h) == her_gen # None /\ GenReady(h)
NextLatch_F1(h) == IF desc_status # None THEN desc_status ELSE her_gen
NextLatch(h) == IF Acked(h) THEN None
                ELSE IF desc_status # None THEN desc_status ELSE her_gen
Latch(h) ==
    /\ her_gen' = NextLatch(h)
    /\ lost' = lost \cup {c.addr : c \in {d \in {desc_status} \ {None} : Acked(h)}
                                          \cup {d \in {her_gen} \ {None} : desc_status # None /\ ~Acked(h)}}

(* The HER generator: a HER of the packet's context, or of the default     *)
(* context when that one is not enabled.  PsPIN takes it when it is ready. *)
Her(c) == [addr |-> c.addr, len |-> c.len, tag |-> c.tag, data |-> c.data,
           ctx |-> IF ctx_enabled[c.ctx] THEN c.ctx ELSE DEFAULT_CTX_ID]
Dispatch(h, fb, c) ==
    /\ pspin' = (pspin \ {fb}) \cup (IF her_gen # None /\ h THEN {Her(her_gen)} ELSE {})
    /\ ctx_enabled' = IF c = None THEN ctx_enabled ELSE [ctx_enabled EXCEPT ![c] = TRUE]

Cycle(f, done, b, h, fb, c) ==
    /\ done => writing # None /\ rx # <<>>
    /\ b # None => bready /\ status # <<>>
    /\ fb # None => feedback_ready
    /\ Receive(f, done, h)
    /\ Alloc(h, fb)
    /\ Dma(done, b, h)
    /\ Latch(h)
    /\ Dispatch(h, fb, c)

Init ==
    /\ initialised = FALSE /\ free_count = [k \in Pools |-> 0]
    /\ fifo = [k \in Pools |-> EmptyFifo] /\ dropped_pkts = 0
    /\ rx = <<>> /\ meta = None
    /\ writing = None /\ status = <<>> /\ bready = FALSE /\ desc_status = None
    /\ her_gen = None
    /\ ctx_enabled = [c \in Ctx |-> FALSE]
    /\ pspin = {}
    /\ frames = 0 /\ missed = [k \in Pools |-> 0] /\ lost = {} /\ failed = {}

\* A frame the matching engine may send now.
Arriving == {None} \cup (IF frames = MaxFrames \/ meta # None THEN {}
                         ELSE {f \in Frames : f.tag = frames + 1})

Next == \E f \in Arriving, done \in BOOLEAN, b \in {None, "OKAY", "SLVERR"},
           h \in BOOLEAN, fb \in pspin \cup {None}, c \in {x \in Ctx : ~ctx_enabled[x]} \cup {None} :
            Cycle(f, done, b, h, fb, c)

Spec == Init /\ [][Next]_vars

-----------------------------------------------------------------------------
Descs == [addr : Slots, len : Nat, tag : Tags, ctx : Ctx, data : Tags]

\* The shape of the registers, the FIFOs and the HERs.
TypeOK ==
    /\ initialised \in BOOLEAN /\ bready \in BOOLEAN
    /\ free_count \in [Pools -> Nat] /\ missed \in [Pools -> Nat] /\ dropped_pkts \in Nat
    /\ \A k \in Pools : /\ fifo[k].mem \in Seq(Slots)
                        /\ fifo[k].pipe \in Slots \cup {None}
                        /\ fifo[k].out \in Slots \cup {None}
    /\ rx \in Seq(Frames)
    /\ meta \in [tag : Tags, ctx : Ctx, len : Nat] \cup {None}
    /\ writing \in [addr : Slots, len : Nat, tag : Tags, ctx : Ctx] \cup {None}
    /\ status \in Seq(Descs)
    /\ {desc_status, her_gen} \subseteq Descs \cup {None}
    /\ ctx_enabled \in [Ctx -> BOOLEAN]
    /\ pspin \subseteq Descs /\ lost \subseteq Slots /\ failed \subseteq Slots

\* The slots held in each place, and how many are held in it.
FreeSeq(k) == fifo[k].mem \o SelectSeq(<<fifo[k].pipe, fifo[k].out>>, LAMBDA a : a # None)
Unfilled(k) == IF initialised THEN {}
               ELSE {SlotAddr(k, i) : i \in free_count[k] .. SLOT_COUNT[k] - 1}
AddrsOf(S) == {d.addr : d \in S \ {None}}
Places == <<ToSet(FreeSeq(0)), ToSet(FreeSeq(1)), Unfilled(0), Unfilled(1),
            AddrsOf({writing}), AddrsOf(ToSet(status)), AddrsOf({desc_status}),
            AddrsOf({her_gen}), AddrsOf(pspin), lost, failed>>

\* A slot is in exactly one place from its insertion in a free FIFO to its
\* feedback: none is handed out twice, none comes back twice, and none
\* vanishes except with a completion that is lost or failed.
SlotsAccounted ==
    /\ LET P == Places
       IN  /\ UNION Range(P) = Slots
           /\ \A i, j \in DOMAIN P : i # j => P[i] \cap P[j] = {}
    /\ \A k \in Pools : Cardinality(ToSet(FreeSeq(k))) = Len(FreeSeq(k))
    /\ Cardinality(AddrsOf(pspin)) = Cardinality(pspin)
    /\ Cardinality(AddrsOf(ToSet(status))) = Len(status)

\* The counter of a pool is the number of slots in its FIFO, less one for
\* every frame that was taken while the FIFO's output was not valid.
CountExact == \A k \in Pools : free_count[k] = Len(FreeSeq(k)) - missed[k]

\* Every frame taken so far got a slot.
AllServed == dropped_pkts = 0 /\ \A k \in Pools : missed[k] = 0

\* The slot of a HER holds the frame whose tag the HER carries, as long as
\* every frame taken got a slot: a frame without one leaves its data in the
\* stream.
DataMatchesTag == AllServed => \A d \in pspin : d.data = d.tag

\* A slot goes back to the pool it was taken from, though the allocation
\* goes by whole beats and the feedback by the bytes written.
PoolsKept == AllServed => \A k \in Pools : ToSet(FreeSeq(k)) \subseteq SlotsOf(k)

\* "either packet is successfully allocated, or dropped" (the allocator's
\* test): no frame is taken without a descriptor or a count of the drop.
AllocatedOrDropped == \A k \in Pools : missed[k] = 0

\* A descriptor is only taken when the HER generator is ready, "otherwise we
\* risk being unable to deliver the completion (HER)" (pspin_ingress_dma.v):
\* no completion is overwritten or cleared before PsPIN took it.
CompletionDelivered == lost = {}
=============================================================================
