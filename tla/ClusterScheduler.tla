-------------------------- MODULE ClusterScheduler --------------------------
(***************************************************************************)
(* The scheduler of a cluster (cluster_scheduler.sv): it accepts a task,   *)
(* allocates L1 memory for its packet, has the DMA engine copy the packet  *)
(* from L2, hands the task to a free HPU once the copy has ended, and      *)
(* frees the memory when the HPU's feedback leaves.                        *)
(*                                                                         *)
(* The DMA engine and the HPUs are external.  The engine completes its     *)
(* transfers in the order of their requests and reports nothing but the    *)
(* fact that one has ended (dma_resp_i).  An HPU holds the task it runs    *)
(* and, behind it, one whose feedback is waiting (see HpuDriver).          *)
(***************************************************************************)
EXTENDS ClusterRb, Sequences

CONSTANTS
  Pkt,       \* packets
  HPU,       \* the HPUs of the cluster: 0 .. NUM_CORES - 1
  NUM_HERS   \* depth of the request FIFO

VARIABLES
  task_i,    \* the task offered by the scheduler, held until accepted
  requests,  \* i_dma_request_fifo
  state,     \* Ready or WaitDMA
  xfer,      \* dma_xfer_q: the packet whose transfer waits for the engine
  to_pop,    \* to_pop_q
  engine,    \* transfers accepted by the DMA engine, oldest first
  copied,    \* packets whose transfer has ended (history)
  running,   \* the task each HPU runs, or None
  done       \* the task each HPU has finished and not yet reported, or None

extVars == <<engine, copied, running, done>>
vars == <<rbVars, task_i, requests, state, xfer, to_pop, extVars>>

Offer == [pkt : Pkt, size : Sizes]
Task  == [pkt : Pkt, size : Sizes, region : Region]

ASSUME HersAssumption == NUM_HERS \in Nat /\ NUM_HERS > 0
ASSUME TasksAssumption == None \notin Offer \cup Task \cup Pkt
ASSUME HpuAssumption == HPU \subseteq Nat /\ HPU # {}

-----------------------------------------------------------------------------
(* Accepting a task.  Names ending in _F and a number are faults, unused.  *)

TaskReady_F1 == state = "Ready" /\ Len(requests) <= NUM_HERS /\ HasSpace(task_i.size)
TaskReady ==
  state = "Ready" /\ Len(requests) < NUM_HERS /\ HasSpace(task_i.size)
Accept == task_i # None /\ TaskReady
NewTask ==
  [pkt |-> task_i.pkt, size |-> task_i.size, region |-> AllocIndex(task_i.size)]
CanIssueDma == Accept /\ task_i.size # 0

\* ready: dma_xfer_ready_i.  A transfer the engine does not take is held.
DmaCycle(ready) ==
  /\ state' = IF CanIssueDma \/ state = "WaitDMA"
              THEN IF ready THEN "Ready" ELSE "WaitDMA"
              ELSE state
  /\ xfer' = IF CanIssueDma THEN task_i.pkt ELSE xfer
Issued(ready) ==
  CASE ready /\ CanIssueDma -> <<task_i.pkt>>
    [] ready /\ state = "WaitDMA" -> <<xfer>>
    [] OTHER -> << >>

-----------------------------------------------------------------------------
(* Handing tasks to HPUs *)

FreeHpus == {h \in HPU : running[h] = None}
FreeHpu == CHOOSE h \in FreeHpus : \A g \in FreeHpus : h <= g
ReadyTask == Head(requests)
Pop_F1 == requests # << >> /\ FreeHpus # {}
Pop ==
  requests # << >> /\ FreeHpus # {} /\ (to_pop > 0 \/ ReadyTask.size = 0)
PopNz == Pop /\ to_pop > 0 /\ ReadyTask.size > 0

\* resp: dma_resp_i.  A completion and a pop in one cycle cancel.
ToPop_F1(resp) ==
  IF PopNz THEN to_pop - 1 ELSE IF resp THEN to_pop + 1 ELSE to_pop
ToPop(resp) ==
  CASE resp /\ ~PopNz -> to_pop + 1
    [] ~resp /\ PopNz -> to_pop - 1
    [] OTHER -> to_pop

\* h: the HPU whose feedback the arbiter passes on, or None; ends: an HPU
\* whose handler ends, or None.
Ended(ends) == ends # None /\ running[ends] # None /\ done[ends] = None
Running(ends) ==
  [g \in HPU |-> IF Pop /\ g = FreeHpu THEN ReadyTask
                 ELSE IF Ended(ends) /\ g = ends THEN None ELSE running[g]]
Done(h, ends) ==
  [g \in HPU |-> IF Ended(ends) /\ g = ends THEN running[g]
                 ELSE IF g = h THEN None ELSE done[g]]

\* The region a feedback releases (free_index_i, free_size_i), or None.
Freed_F1(h) == None
Freed(h) == IF h = None THEN None ELSE done[h].region

ClusterCycle(offer, ready, resp, h, ends) ==
  LET rest == IF Pop THEN Tail(requests) ELSE requests
  IN  /\ Cycle(IF Accept THEN task_i.size ELSE None, Freed(h))
      /\ task_i' = IF task_i = None \/ Accept THEN offer ELSE task_i
      /\ requests' = IF Accept THEN Append(rest, NewTask) ELSE rest
      /\ DmaCycle(ready)
      /\ to_pop' = ToPop(resp)
      /\ engine' = (IF resp THEN Tail(engine) ELSE engine) \o Issued(ready)
      /\ copied' = (copied \cup (IF resp THEN {Head(engine)} ELSE {}))
                     \ (IF h = None THEN {} ELSE {done[h].pkt})
      /\ running' = Running(ends)
      /\ done' = Done(h, ends)

-----------------------------------------------------------------------------
\* Tasks in the cluster: queued, running or finished and not reported.
Queued == {requests[k] : k \in DOMAIN requests}
OnHpu  == ({running[h] : h \in HPU} \cup {done[h] : h \in HPU}) \ {None}
Live   == Queued \cup OnHpu

\* A packet is offered once while it is in the cluster, and only when the
\* offer before it has been accepted.
Offers ==
  LET present == {t.pkt : t \in Live \cup ({task_i} \ {None})}
  IN  (IF task_i = None \/ Accept THEN [pkt : Pkt \ present, size : Sizes] ELSE {})
        \cup {None}
Responses == IF engine = << >> THEN {FALSE} ELSE BOOLEAN
Reporting == {h \in HPU : done[h] # None} \cup {None}
Ending == {h \in HPU : Ended(h)} \cup {None}

Init ==
  /\ RbInit
  /\ task_i = None /\ requests = << >> /\ state = "Ready" /\ xfer = None
  /\ to_pop = 0 /\ engine = << >> /\ copied = {}
  /\ running = [h \in HPU |-> None] /\ done = [h \in HPU |-> None]

Next ==
  \E offer \in Offers, ready \in BOOLEAN,
     resp \in Responses, h \in Reporting, ends \in Ending :
    ClusterCycle(offer, ready, resp, h, ends)

Spec == Init /\ [][Next]_vars

(* Fairness: the DMA engine takes and ends transfers, handlers end, the    *)
(* round-robin arbiter passes every feedback on.                           *)
Transferred ==
  /\ engine # << >>
  /\ \E offer \in Offers, ready \in BOOLEAN, h \in Reporting,
        ends \in Ending : ClusterCycle(offer, ready, TRUE, h, ends)
Taken ==
  /\ state = "WaitDMA"
  /\ \E offer \in Offers, resp \in Responses, h \in Reporting,
        ends \in Ending : ClusterCycle(offer, TRUE, resp, h, ends)
HandlerEnds(g) ==
  /\ Ended(g)
  /\ \E offer \in Offers, ready \in BOOLEAN, resp \in Responses,
        h \in Reporting : ClusterCycle(offer, ready, resp, h, g)
Reported(g) ==
  /\ done[g] # None
  /\ \E offer \in Offers, ready \in BOOLEAN, resp \in Responses,
        ends \in Ending : ClusterCycle(offer, ready, resp, g, ends)
FairSpec ==
  /\ Spec
  /\ WF_vars(Next) /\ WF_vars(Taken) /\ WF_vars(Transferred)
  /\ \A h \in HPU : WF_vars(HandlerEnds(h)) /\ WF_vars(Reported(h))

-----------------------------------------------------------------------------
(* Properties *)

\* Every variable stays in its type; to_pop never underflows.
TypeOK ==
  /\ RbTypeOK
  /\ task_i \in Offer \cup {None}
  /\ requests \in Seq(Task) /\ Len(requests) <= NUM_HERS
  /\ state \in {"Ready", "WaitDMA"} /\ xfer \in Pkt \cup {None}
  /\ to_pop \in 0 .. NUM_HERS
  /\ engine \in Seq(Pkt) /\ copied \subseteq Pkt
  /\ running \in [HPU -> Task \cup {None}] /\ done \in [HPU -> Task \cup {None}]

\* A handler starts only when its packet is complete in L1, although the
\* engine's completions carry no identity and zero-byte tasks overtake none.
StartAfterCopy == \A t \in OnHpu : t.size > 0 => t.pkt \in copied

\* Packets the DMA engine has still to copy.
Uncopied ==
  {engine[k] : k \in DOMAIN engine} \cup (IF state = "WaitDMA" THEN {xfer} ELSE {})

\* The L1 memory in use is the memory of the tasks in the cluster: none is
\* released while its task is queued, runs or reports, none is leaked, no
\* two tasks own one region, and a copy only lands in a queued task's memory.
MemoryOwned ==
  /\ regions = {t.region : t \in {u \in Live : u.size > 0}}
  /\ \A t, u \in Live : t # u /\ t.size > 0 => t.region # u.region
  /\ \A p \in Uncopied : \E t \in Queued : t.pkt = p /\ t.size > 0

\* A task the scheduler offers is eventually accepted: the allocator's
\* fragmentation and its full state resolve while the input is blocked.
EveryTaskAccepted ==
  \A p \in Pkt : (task_i # None /\ task_i.pkt = p)
                   ~> (\E t \in Live : t.pkt = p)

\* Every task accepted eventually leaves the cluster.
EveryTaskLeaves ==
  \A p \in Pkt : (\E t \in Live : t.pkt = p) ~> ~\E t \in Live : t.pkt = p
=============================================================================
