# A TLA+ development for FPsPIN

FPsPIN puts a PsPIN cluster (a multi-core accelerator that runs *handlers* on
packets, the sPIN model) into the application block of the Corundum FPGA NIC.
This directory holds TLA+ modules for the parts of it that schedule work and own
memory, the TLC configurations that check them on small instances, and
TLAPS proofs about the most important part, the MPQ engine. `PROJECT.json` gives
the same information in a form tools can read: for every definition the source
lines it models, for every property a fault it detects, and the list of hazards.

Check a run with `tlc -config X.cfg MCm`, the proofs with
`tlapm MpqEngineProofs.tla` (about five minutes). Paths below are relative
to `src/`; `P/` stands for `fpga/app/pspin/deps/pspin/hw/src/pkt_scheduler/` and
`R/` for `fpga/app/pspin/rtl/`.

## 1. The system

### The way of a packet

1. The **matching engine** (`R/pspin_pkt_match.v`) stores the first two beats of a
   packet, compares them with four rule sets and sends the whole packet
   either back to the NIC or to PsPIN; in the second case it also hands over
   metadata: size, context (the number of the rule set), message ID, end of message.
2. The **allocator** (`R/pspin_pkt_alloc.v`) takes a slot of L2 packet memory from
   one of two pools, or drops the packet.
3. The **ingress DMA** (`R/pspin_ingress_dma.v`, around `axi_dma_wr.v`) copies the
   packet into the slot. Its completion is latched for the **HER
   generator** (`R/pspin_her_gen.v`), which adds the execution context and
   offers a *handler execution request* to PsPIN.
4. The **MPQ engine** (`P/mpq_engine.sv`) keeps one *message processing queue* per
   message and makes the tasks: header handler, payload handlers, completion
   handler. The packets wait in the linked lists of the **FIFO engine**
   (`P/fifo_engine.sv`).
5. The **scheduler** (`P/scheduler.sv`) sends a task to its home cluster or to the
   least loaded one.
6. The **cluster scheduler** (`P/cluster_scheduler.sv`) allocates L1 memory in ring
   buffers (`P/cluster_rb.sv`, `P/cluster_rb_shim.sv`), has the packet copied
   there and gives the task to a free core (HPU).
7. The **HPU driver** (`P/hpu_driver.sv`) shows the task to the core, which runs the
   loop of `hpu.c`, and carries the handler's commands (host DMA, packet
   sends) to the outside.
8. When the handler has returned and its commands have ended, a *feedback*
   goes back through all of these; the last one of a packet frees its slot.

Besides: the **egress data path** sends packets for handlers, the **host memory
DMA** moves data between handlers and the host, **control registers** hold rules,
contexts and resets, the **kernel module** and the **host library** load handlers
and exchange requests with them, and **SLMP** is a small message protocol.

### Inventory

| Part | State | Operations | What is hard about it | Correct if |
|---|---|---|---|---|
| MPQ engine | per queue: FSM state, length, in_flight, eom_seen, context; output register | accept HER, grant a queue, take feedback, all in the same cycle | three events meet on one queue; two counters decide transitions; a message ends while the next begins | sPIN handler order; exact counters; each buffer released once, and last; nothing left in an idle engine |
| FIFO engine | cells with links, head, last, cell occupation | push and pop in one cycle | a push into the list whose only cell is being popped; shared and reserved cells | it is a set of FIFO queues |
| Scheduler | occupancy counters, a task that waits for a cluster, spill registers | choose, transfer, merge feedbacks | decision kept over a stall; counter raised and lowered in a cycle | exact occupancy, capacity kept, no task lost or doubled |
| Cluster scheduler | request FIFO, transfer FSM, `to_pop` | accept, issue DMA, dispatch, free | DMA responses carry no name, tasks without bytes have no transfer | no handler before its data; memory owned by tasks in the cluster; progress |
| L1 ring buffers | bitmap, head, tail of each ring | push, out-of-order pop | wrap with padding, full or empty at head = tail, lazy reclaim | regions disjoint; reported space usable |
| HPU driver and runtime | task FSM, one feedback, command FSM, IDs in use, command buffer | accept task, doorbell, issue, wait, test, answers | the handler returns before its commands end; ID freed and taken in one cycle | commands attributed to their task; feedback after commands; no stall for ever |
| Matching engine | FSM of ten states, stored beats, loaded rules | receive, match, send, pass through, metadata | short packets, sinks that stall, rules changed under way | packet whole and on one side, metadata exact and once |
| Allocator, ingress DMA, HER generator | counters, free FIFOs, DMA state, completion latch, enabled contexts | allocate, drop, copy, complete, free | counter and FIFO differ in latency; one-entry latch behind a pipelined DMA; failing writes | no slot in two places; HER names the slot of its own packet |
| Egress data path, command unit | DMA descriptors, response arbitration | send command, answer | failures, commands at the limit of the buffers | each command answered once, with its own ID |
| Host memory DMA | AXI to PCIe descriptors, ID of the request in service | read, write with unaligned ends | errors, reset of one side only | data and answers match requests |
| Kernel module, loader | mapped regions, device files, enable registers | open, write image, enable, release | probe fails half way, two openers, unload order | exclusive contexts, nothing runs that is not loaded |
| Host request handshake | 8-bit `dma_id` and flag words in host memory | push, poll | wrap of the ID, stale flags | each request answered once |
| SLMP sender | one window per sending thread on a shared socket | send, receive ACK, time out | ACK lost, late or from an earlier message | all packets acknowledged on return |

The hazards (40, with their lines) are in `PROJECT.json`; 27 have properties, the
others name the part they belong to, which is not modelled yet.

## 2. How the modules are written

The hardware modules are synchronous, so a step of a module is one clock cycle:
an action `Cycle(...)` whose parameters are the inputs of that cycle (`None` for an
event that does not happen), and a next-state relation that chooses the
inputs. All registers that change in a cycle change in the same step;
combinational signals are operators with the names of the signals. This keeps the
coincidences that are hard to simulate: everything that can happen in one
cycle is one choice of parameters. Several accesses of a core take several steps.

Data are abstracted: a packet is a model value, a size is a number of slots, a
payload is the tag of the packet it came from. Variables marked *history* are not
in the code; properties use them, guards do not, except in the choice of new inputs.
Parts outside a module appear as sets of things handed over and not yet answered,
from which the next answer is chosen in any order.

Names that end in `_F1` or `_F2` are *faults*: versions of the definition that
follows, each with a plausible mistake. No specification uses them; they
show for every property that it can fail (`mutants` in `PROJECT.json`).

| Module | Code | State and actions |
|---|---|---|
| `MpqFifos` | what `P/fifo_engine.sv` promises | `fifo`, a sequence of packets per queue; `FifoCycle(push, pop)` |
| `FifoEngine` | `P/fifo_engine.sv` | `cells`, `used`, `head`, `last`, `empty`, `static_occup`, `data`; history `order`. `Cycle(push, pop)`. Refines `MpqFifos` |
| `MpqEngine` | `P/mpq_engine.sv` with `mpq_fsm` | `mpq` (the FSM records), `meta`, `state_q`, `task_o`, and the outside: `running`, `held`. `Cycle(her, task_ready, grant, fb)`. Extends `MpqFifos` |
| `MpqEngineProofs` | | theorems about `MpqEngine` |
| `Scheduler` | `P/scheduler.sv` | occupancy, waiting task, spill registers of both directions. `Cycle(offer, takes, reports, fb)` |
| `ClusterRb` | `P/cluster_rb.sv`, `P/cluster_rb_shim.sv` | `rb` (bitmap, head, tail of each ring), history `regions`. `Cycle(n, f)`: push of size n, pop of region f |
| `ClusterScheduler` | `P/cluster_scheduler.sv` | composes `ClusterRb` with request FIFO, transfer FSM, `to_pop`, and as the outside DMA engine and HPUs. `ClusterCycle(offer, ready, resp, h, ends)` |
| `HpuDriver` | `P/hpu_driver.sv`, `hpu_run` in `hpu.c`, the calls in `handler.h` | `CmdCycle`, `TaskCycle`, `CoreCycle`, `DmaCycle`, one `Cycle` of all. The core's program is `core`: fetch, fun, handler, issue, wait, test, bell |
| `PktMatch` | `R/pspin_pkt_match.v` | FSM, stored beats, output registers. `Cycle(nic, psp, mr, conf, v)`: readiness of the sinks, the registers, a beat there |
| `Ingress` | `R/pspin_pkt_alloc.v`, `R/pspin_ingress_dma.v`, `R/pspin_her_gen.v`, `axi_dma_wr.v` | composes `Alloc`, `Receive`, `Dma`, `Latch`, `Dispatch`. `Cycle(f, done, b, h, fb, c)`: frame, end of a write, its answer, HER taken, feedback, context enabled |

The `MC…` modules give the constants values; each `.cfg` names one.

Two things are worth knowing before reading. An MPQ is the low bits of a
message ID, so two messages can share an MPQ; `Overlap` says whether a HER may
reach an MPQ whose end of message has been seen. And `HpuDriver` has `Detached`,
which allows a handler to return without waiting for its commands; the driver
is built for this (a comment in `copy_to_host.c` says so), and while most example handlers
wait, those of `slmp.c` return with a DMA write and a packet send open.

## 3. What the runs check

Twelve runs: eight pass, four show a disagreement between the code and what the
repository says of it (section 4).

| Run | Configuration | Instance | Size |
|---|---|---|---|
| `mpq` | `MpqEngine.cfg` | 2 MPQs, 3 packets, 1 shared and 1 reserved cell each, contexts with both optional handlers and with none | 21,541 states |
| `fifo_engine` | `FifoEngine.cfg` | 2 queues, 2 shared and 1 reserved cell each, 2 packet values | 101,049 states |
| `hpu` | `HpuDriver.cfg` | 2 tasks and one without handler, 2 command IDs, buffer of 2, 3 open handles | 11,003 states |
| `cluster_safety` | `ClusterScheduler_safety.cfg` | 2 rings of 4 slots, packets of 0, 1, 3 slots, 3 packets, 2 HPUs, request FIFO of 2 | 314,929 states |
| `cluster_liveness` | `ClusterScheduler_liveness.cfg` | 1 ring of 2 slots, packets of 0, 1, 2 slots, 3 packets, 1 HPU | 5,827 states |
| `sched` | `Scheduler.cfg` | 2 clusters, 6 tasks of both homes, capacity 3 | 30,483 states |
| `ingress` | `Ingress.cfg` | 4 frames of 2, 3 or 5 bytes, beats of 2, pools of 3 slots of 4 and of 2 bytes, 2 contexts | 248,897 states |
| `match` | `PktMatch.cfg` | packets of 1 to 3 beats, matcher of 2 beats, 3 rule sets of 3 rules | 4,002 states |
| `mpq_overlap`, `hpu_handle`, `ingress_pool`, `ingress_latch` | `MpqEngine_overlap`, `HpuDriver_handle`, `Ingress_pool`, `Ingress_latch` | as above, smaller | counterexample |

**mpq.** `HandlerOrder`: two outstanding tasks of one message are both payload
tasks. `InFlightExact` and `LengthMatchesFifo`: the counters that decide the
transitions agree with the tasks outstanding and with the queue, through every
coincidence of events. `NoUseAfterRelease` and `EveryPacketOwed`: the packet buffer
is given back by exactly one task, and when nothing refers to it any more.
`PhaseHasHandler`: no header or completion task for a context without such a handler.
`IdleMeansEmpty`: the assertion in the code. `EveryPacketReleased` (liveness).

**fifo_engine.** `LinksFollowOrder`: following the links from `head` gives the
cells in the order of the pushes and ends at `last`. `CellsExact`: a cell is in use
exactly if one list holds it at one place. `ImplementsFifos`: the refinement; pushes happen
only into queues the code reports as not full, and always find a cell.

**hpu.** `IdsExact`: the IDs marked in use are those of commands buffered or
unanswered. `OneOwner`: at any time all commands under way belong to one task.
`FeedbackExact`: the task FSM and the feedback buffer hold exactly the tasks owed a
feedback. `FeedbackAfterCommands` (an action property): a
feedback leaves only when no command and no DMA transfer of its task is open.
`EveryTaskAnswered` (liveness): no stall of the core lasts, also when an answer comes in
the cycle in which the core starts to wait for it.

**cluster_safety, cluster_liveness.** `RegionsDisjoint`: the
regions handed out never overlap. `SpaceIsUsable`: the
space the shim reports is contiguous and free, whatever order regions were released
in. `StartAfterCopy`: a handler runs only after its packet has been copied, although
responses are only counted. `MemoryOwned`: L1 memory is
held by exactly the tasks in the cluster. `EveryTaskAccepted`, `EveryTaskLeaves`.

**sched.** `OccupExact`, `WithinCapacity`, `OnePlace`: the counters are
exact, no cluster gets more than its capacity, a task is at one place from its
offer to its feedback.

**ingress.** `SlotsAccounted`: every slot is in exactly one place (a pool, the DMA, the
latch, PsPIN), and those that are nowhere were lost to a failed write or an
overwritten completion. `CountExact`: the counter of a pool is the number of slots in
its FIFO, less the frames that were taken without one. `DataMatchesTag`, `PoolsKept`: as
long as no frame was dropped or missed, a HER points to its own packet's data and slots
return to their pool. (A dropped frame leaves its data in the RX FIFO, so the
condition is needed.)

**match.** `PacketIntact`: the beats sent are the beats of the packet, in
order, all to the side the rules loaded at its start choose. `MetaExact`: the
metadata are those of the packet, once, after its last beat, and only for PsPIN.
`IdleMeansDone`: in IDLE the packet has left completely. `PacketEnds` (liveness).

### Why the bounds are enough

Each bound is the least at which all cases of the code occur. Two MPQs and three
packets: same queue or not, a queue that is full while another still has its reserved
cell, a message with a first, a middle and a last packet. Two queues and four cells:
lists of length 0, 1 and more, both kinds of cell, replacement of a list's only cell.
Two command IDs: one taken while another is free, none free. Rings of four slots
with regions of three: padding, wrap, both meanings of head = tail, and holes. Six
tasks for two clusters of three: both full, one full, home full, spill registers full.
Three slots per pool: the two pipeline stages of the free FIFO filled and one slot behind
them; four frames: a pool used up and refilled. Packets shorter than, as long as and
longer than the matcher. Named bounds are `MaxFrames` (frames received) and `MaxOpen`
(handles a handler keeps); every other state space is finite by itself. `ClusterScheduler`,
`Scheduler` and `FifoEngine` use symmetry only in runs without liveness properties.

### Fairness

* `mpq`: the scheduler does not refuse a task for ever (`Accepted`), the
  round-robin arbiter grants every queue that stays valid (`Granted`), every task
  taken is fed back (`Returned`: what `hpu` and `cluster_liveness` show, if
  handlers end). Nothing says that HERs arrive: the liveness property therefore
  covers messages that are never completed, whose packets still have to be released.
* `hpu`: the clock runs, the core goes on fetching (`Fetches`), commands and feedbacks are taken, every
  command and DMA transfer is answered (weak), and handlers return (`Returns`, strong,
  because a handler that issues and waits leaves the state again and again).
* `cluster_liveness`: the DMA engine takes and ends transfers, handlers end, the
  round-robin arbiter reports each of them.
* `match`: NIC, PsPIN and allocator are ready again and again, and the NIC goes on
  with a packet it has begun.

## 4. Disagreements the runs show

1. **A message that overtakes the end of the previous one** (`mpq_overlap`,
   `P/mpq_engine.sv:531`). The FSM goes from draining to `Free` without looking at
   `length`. A packet that came meanwhile for the same MPQ stays queued in a free MPQ
   until another one arrives. The assertion at lines 424-426 says that this does not
   happen. It does not, if messages that share an MPQ do not overlap (`IdleIsEmpty`,
   proved); nothing in the ingress path makes sure of that.
2. **A stale command handle** (`hpu_handle`, `P/hpu_driver.sv:848`). A command issued
   while the previous feedback is still buffered shows the core another ID than the one it
   gets later. Waiting for it ends too early. This needs a task before it that returned
   with commands open: if every handler waits for its commands (`Detached` false), the two
   IDs are the same and the property holds on this instance.
3. **A frame with neither slot nor drop** (`ingress_pool`,
   `R/pspin_pkt_alloc.v:159`). A returned slot is counted in the next cycle, but is two cycles
   longer in the output pipeline of the free FIFO; a frame that is taken in between is
   lost without being counted, and its data are copied for the next one.
4. **An overwritten completion** (`ingress_latch`, `R/pspin_ingress_dma.v:126`). The
   latch has one entry while the DMA can have two packets under way; the
   comment at lines 156-157 says the gating prevents the loss.

Further observations made while reading, which no run covers. In the matching engine:
the header comment says that a mask of 0 makes a rule the unit of its mode, which
does not hold for OR mode with start 0; the rule index
`j*UMATCH_RULESETS+i` is right only because there are as many rule sets as rules; one
matcher beat would send one-beat packets into the passthrough state (`MatcherAssumption`
keeps the model at the parameters the code is right for); sizes count whole beats. In
the scheduler, the choice looks at ready clusters only. `spin_cmd_test` always asks for
command 0, because the ID of a load is not in `wdata` (`P/hpu_driver.sv:656`). The host
memory DMA does not get the reset that ingress, egress and PsPIN get
(`R/mqnic_app_block.v:2048`).

## 5. What is proved

`MpqEngineProofs` proves for **every** set of MPQs, packets and contexts, and all numbers
of cells:

| Theorem | Statement |
|---|---|
| `TypeCorrect` | `Spec => []TypeOK`; the counters never underflow |
| `HandlersOrdered` | `Spec => []HandlerOrder` |
| `InFlightIsExact` | `Spec => []InFlightExact` |
| `LengthIsExact` | `Spec => []LengthMatchesFifo` |
| `ReleasedLast` | `Spec => []NoUseAfterRelease` |
| `PacketsOwed` | `Spec => []EveryPacketOwed` |
| `HandlersExist` | `Spec => []PhaseHasHandler` |
| `IdleIsEmpty` | `~Overlap` and `Spec` imply `[]IdleMeansEmpty` |

All but the last also hold when messages overlap in an MPQ.

*Assumptions.* `ContextsAssumption` (a context says which handlers it has),
`NoneAssumption` (the value for "no event" is none of the events) and
`OverlapAssumption` (a Boolean). TLC evaluates them in the run `mpq`.

*The argument.* None of the properties is inductive by itself. A message is taken
for drained when a feedback comes while `in_flight` is 1; for that to mean anything
`in_flight` has to be exact; for the count to stay exact the task that is
added must be new and the one removed must be there, hence no two outstanding tasks
may be equal; hence no packet may be queued twice, or both queued and carried
by a task that will release it. The invariant `IInv` joins:

* `PhaseOK`: what each FSM state says of counters and flags;
* `KindOK`: which kinds of task can be outstanding in each state;
* `InFlightExact`, `LengthMatchesFifo`: the counters;
* `OwnerOK`: a task either carries its packet away (and then no queue holds it), or
  works on the head of its queue, which stays there (the header's packet, and the
  last packet of a message with a completion handler);
* `DistinctOK`, `HeldOK`: no packet twice, and the buffers handed over are those in a
  queue or owed by a task;
* `MetaOK`, `OutputOK`, `QuietOK`: context memory, output register, and, without
  `Overlap`, empty queues behind finished messages.

The step is split in two. `FsmFields`, `FsmStep`, `FsmQuiet` and `FsmLength` treat one
FSM record in one cycle, without sets or queues. `CycleInv` lifts this to the
engine, one step per conjunct of `IInv`, with `SwapCardinality` (one element added,
one removed) for `in_flight` and `TailPositions`, `AppendPositions` for the queues.
`InitInv`, `NextInv` and `Invariance` close the induction; each theorem
follows from `IInv`.

*Only model-checked.* Liveness properties, since the proof system does not treat
fairness and ENABLED; the refinement of `MpqFifos` by `FifoEngine` (its mapping is a
plain function, so that a proof is possible and planned); all properties of the other
modules.

## 6. What is not modelled

* Egress data path, command unit, host-direct and SoC DMA interfaces: planned. In
  `HpuDriver` they are the environment that answers each command once.
* Host memory DMA: planned.
* Kernel module, host library, host handshake, SLMP: planned.
* Control registers (a generated register file), the wiring in `mqnic_app_block.v`,
  interconnects, memories, clock crossings: no protocol of their own beyond AXI.
  Register contents are inputs of `PktMatch` and `Ingress`.
* The bodies of the example handlers: `HpuDriver` has a handler that issues, waits,
  tests and returns as it likes.
* Corundum: an external project. It is the source and the sink of frames.
* Within modelled parts: PMP registers and read-only task words of the HPU driver, locks
  and output of the HPU runtime, bursts of `axi_dma_wr` (a write takes any number of
  cycles), words of a context, disabling of contexts, resets in operation.

## 7. Plan

Done: the path of a packet from the matcher to the handler and back, in the order in
which memory is owned and released. Next, in this order:

1. **Egress and commands**: `CmdUnit` (`cmd_unit.sv`, response buffers, arbitration) and
   `Egress` (NIC command, read descriptor, status, error register). Abstract
   specification: each command is answered once with its own ID. That is the environment
   `HpuDriver` assumes, so that the refinement closes the gap between them.
2. **Host memory DMA**: `HostMem` (read and write FSM, unaligned ends, error
   answers, reset of one side).
3. **Host side**: `HostRequest` (flag handshake of `spin_host.h` and `runtime.c`, with
   the 8-bit ID), `Loader` with the kernel module (open, load, enable, release against the
   running hardware), `Slmp` (threads, windows, acknowledgements, timeouts).
4. **Composition**: allocator and MPQ engine with the feedback between them: a slot
   is reused only after the last task of its packet, from `Ingress` and
   `MpqEngine` together; `Scheduler` as the environment of `MpqEngine` and
   `ClusterScheduler` as that of `Scheduler`.
5. **Proofs**: `FifoEngine` implements `MpqFifos`; `RegionsDisjoint` and
   `SpaceIsUsable` of `ClusterRb` for rings of any size; `OccupExact` and
   `WithinCapacity` of `Scheduler`; `IdsExact` and `OneOwner` of `HpuDriver`;
   `SlotsAccounted` of `Ingress`.

Runs stay few: where a composed module covers the question of a run of its parts, it
replaces that run.
