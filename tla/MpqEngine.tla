----------------------------- MODULE MpqEngine ------------------------------
(***************************************************************************)
(* The message processing queue engine (mpq_engine.sv with its mpq_fsm).   *)
(* It turns handler execution requests (HERs, one per packet) into handler *)
(* tasks: a header task for the first packet of a message, a payload task  *)
(* for every packet, a completion task once all payload handlers are done. *)
(*                                                                         *)
(* A step is a clock cycle.  In one cycle the engine may accept a HER, win *)
(* the arbitration for one MPQ (which puts a task into the output register)*)
(* and receive the feedback of one finished task, all on the same MPQ or   *)
(* on different ones.  The scheduler, clusters and cores are external:     *)
(* `running' is the set of tasks they have taken and not yet fed back.     *)
(***************************************************************************)
EXTENDS MpqFifos

CONSTANTS
  Contexts,  \* execution contexts: [hh, th] says which handlers are non-null
  Overlap    \* TRUE: a HER may reach an MPQ that still drains a message

VARIABLES
  mpq,       \* mpq_q: the FSM record of every MPQ
  meta,      \* i_mpq_meta_mem: the context of the message of every MPQ
  state_q,   \* output FSM: Idle, Ready, Stalled
  task_o,    \* the task offered to the scheduler, None in Idle
  running,   \* tasks handed to the scheduler, not yet fed back (external)
  held       \* packet buffers the NIC has handed over, not yet released

vars == <<fifo, mpq, meta, state_q, task_o, running, held>>

MpqState == {"Free", "Header", "HeaderRunning", "Payload",
             "PayloadDraining", "Completion", "CompletionRunning"}
Mpq  == [state : MpqState, length : Nat, in_flight : Nat,
         eom_seen : BOOLEAN, has_completion : BOOLEAN]
Meta == [hh : BOOLEAN, th : BOOLEAN]
Her  == [id : MPQ, pkt : Pkt, eom : BOOLEAN, meta : Contexts]
Task == [msgid : MPQ, kind : {"Header", "Payload", "Completion"}, pkt : Pkt,
         meta : Meta, trigger_feedback : BOOLEAN]

ASSUME ContextsAssumption == Contexts \subseteq Meta
ASSUME NoneAssumption     == None \notin MPQ \cup Her \cup Task
ASSUME OverlapAssumption  == Overlap \in BOOLEAN

One(b) == IF b THEN 1 ELSE 0

-----------------------------------------------------------------------------
(* mpq_fsm.  An operator whose name ends in _F followed by a number is a    *)
(* plausible fault of the operator after it.  No specification uses them:  *)
(* they show which property would notice the slip.                         *)

\* length and in_flight: an increment and a decrement in one cycle cancel.
Counter_F1(n, up, down) == IF down THEN n - 1 ELSE n + One(up)
Counter_F2(n, up, down) == IF up THEN n + 1 ELSE n - One(down)
Counter(n, up, down) == n + One(up) - One(down)

\* The task being sent is the one of the last packet of a complete message.
LastSent_F1(q, sent) == sent /\ q.eom_seen
LastSent(q, sent) == sent /\ q.eom_seen /\ q.length = 1

\* The feedback is that of the last task in flight.
Drained_F1(q, feedback) == feedback
Drained_F2(q, feedback) == feedback /\ q.in_flight = 0
Drained(q, feedback) == feedback /\ q.in_flight = 1

\* her: the HER this MPQ receives, or None; sent, feedback: BOOLEAN.
FsmState(q, her, sent, feedback) ==
  CASE q.state = "Free" /\ her # None ->
         IF her.meta.hh THEN "Header" ELSE "Payload"
    [] q.state = "Header" /\ sent -> "HeaderRunning"
    [] q.state = "HeaderRunning" /\ feedback -> "Payload"
    [] q.state = "Payload" /\ LastSent(q, sent) -> "PayloadDraining"
    [] q.state = "PayloadDraining" /\ Drained(q, feedback) ->
         IF q.has_completion THEN "Completion" ELSE "Free"
    [] q.state = "Completion" /\ sent -> "CompletionRunning"
    [] q.state = "CompletionRunning" /\ feedback -> "Free"
    [] OTHER -> q.state

Fsm(q, her, sent, feedback) ==
  LET state == FsmState(q, her, sent, feedback)
  IN  [state          |-> state,
       length         |-> Counter(q.length, her # None,
                                  sent /\ q.state = "Payload"),
       in_flight      |-> Counter(q.in_flight, sent, feedback),
       eom_seen       |-> /\ \/ q.eom_seen
                             \/ her # None /\ her.eom
                          /\ state # "Free",
       has_completion |-> IF q.state = "Free" /\ her # None
                          THEN her.meta.th ELSE q.has_completion]

-----------------------------------------------------------------------------
(* The engine *)

MpqValid(m) ==
  \/ mpq[m].state \in {"Header", "Completion"}
  \/ mpq[m].state = "Payload" /\ mpq[m].length > 0

MpqBusy(m) == mpq[m].state # "Free"

\* The events of a cycle as one MPQ sees them.
HerOf(m, her)     == IF her # None /\ her.id = m THEN her ELSE None
FeedbackOf(m, fb) == fb # None /\ fb.msgid = m

MpqD(her, grant, fb) ==
  [m \in MPQ |-> Fsm(mpq[m], HerOf(m, her), grant = m, FeedbackOf(m, fb))]

\* The metadata memory is written by the first HER of a message.
MetaD_F1(her) ==
  [m \in MPQ |-> IF HerOf(m, her) # None THEN her.meta ELSE meta[m]]
MetaD(her) ==
  [m \in MPQ |-> IF HerOf(m, her) # None /\ ~MpqBusy(m)
                 THEN her.meta ELSE meta[m]]

\* fifo_pop: a packet leaves its queue with its last task.  The last packet
\* of a message stays for the completion handler, if there is one.
FifoPop_F1(q, d) ==
  \/ q.state = "Payload" /\ d.state \in {"Payload", "PayloadDraining"}
  \/ q.state = "Completion"
FifoPop(q, d) ==
  \/ q.state = "Payload" /\ d.state = "Payload"
  \/ q.state = "Payload" /\ d.state = "PayloadDraining" /\ ~d.has_completion
  \/ q.state = "Completion"

\* The output register: the head of the MPQ's queue and its context.  The
\* task that pops the packet releases the packet buffer when it is done.
NewTask_F1(m, pop) ==
  [msgid |-> m, kind |-> mpq[m].state, pkt |-> DataO(m), meta |-> meta[m],
   trigger_feedback |-> TRUE]
NewTask_F2(m, pop) ==
  [msgid |-> m, kind |-> mpq[m].state, pkt |-> DataO(m), meta |-> meta[m],
   trigger_feedback |-> pop /\ mpq[m].state = "Payload"]
NewTask(m, pop) ==
  [msgid |-> m, kind |-> mpq[m].state, pkt |-> DataO(m), meta |-> meta[m],
   trigger_feedback |-> pop]

\* arb_ready: with a task in the output register the arbiter waits for the
\* scheduler; the arbiter always has a winner when some MPQ is valid.
Grants(task_ready) ==
  IF (state_q = "Idle" \/ task_ready) /\ \E m \in MPQ : MpqValid(m)
  THEN {m \in MPQ : MpqValid(m)} ELSE {None}

OutputFsm(task_ready, grant) ==
  IF grant # None THEN "Ready"
  ELSE IF state_q = "Idle" \/ task_ready THEN "Idle" ELSE "Stalled"

Cycle(her, task_ready, grant, fb) ==
  LET d   == MpqD(her, grant, fb)
      pop == grant # None /\ FifoPop(mpq[grant], d[grant])
      taken == IF state_q # "Idle" /\ task_ready THEN {task_o} ELSE {}
  IN  /\ mpq' = d
      /\ FifoCycle(her, IF pop THEN grant ELSE None)
      /\ meta' = MetaD(her)
      /\ state_q' = OutputFsm(task_ready, grant)
      /\ task_o' = IF grant # None THEN NewTask(grant, pop)
                   ELSE IF taken = {} THEN task_o ELSE None
      /\ running' = (running \cup taken) \ {fb}
      /\ held' = (held \cup (IF her # None THEN {her.pkt} ELSE {}))
                   \ (IF fb # None /\ fb.trigger_feedback
                      THEN {fb.pkt} ELSE {})

\* HERs the NIC may present: a free packet buffer, and her_ready_o.  Without
\* Overlap the sender waits for the end of a message before it reuses the MPQ.
Offered ==
  {h \in Her : /\ h.pkt \notin held
               /\ ~Full(h.id)
               /\ Overlap \/ ~mpq[h.id].eom_seen}

Init ==
  /\ FifoInit
  /\ mpq = [m \in MPQ |-> [state |-> "Free", length |-> 0, in_flight |-> 0,
                           eom_seen |-> FALSE, has_completion |-> FALSE]]
  /\ meta \in [MPQ -> Contexts]
  /\ state_q = "Idle"
  /\ task_o = None
  /\ running = {}
  /\ held = {}

Next ==
  \E her \in Offered \cup {None}, fb \in running \cup {None} :
    \E task_ready \in BOOLEAN : \E grant \in Grants(task_ready) :
      Cycle(her, task_ready, grant, fb)

Spec == Init /\ [][Next]_vars

(***************************************************************************)
(* Fairness: the clock runs, the scheduler does not refuse a task forever, *)
(* the round-robin arbiter (rr_arb_tree with LockIn) serves every valid    *)
(* MPQ, and every task that was handed over is eventually fed back         *)
(* (handlers terminate and the NIC accepts feedback).  HERs are not fair.  *)
(***************************************************************************)
Granted(m) ==
  \E her \in Offered \cup {None}, fb \in running \cup {None} :
    m \in Grants(TRUE) /\ Cycle(her, TRUE, m, fb)

Returned(p) ==
  \E her \in Offered \cup {None}, fb \in {t \in running : t.pkt = p} :
    \E task_ready \in BOOLEAN : \E grant \in Grants(task_ready) :
      Cycle(her, task_ready, grant, fb)

Accepted ==
  \E her \in Offered \cup {None}, fb \in running \cup {None} :
    /\ state_q # "Idle"
    /\ \E grant \in Grants(TRUE) : Cycle(her, TRUE, grant, fb)

FairSpec ==
  /\ Spec
  /\ WF_vars(Accepted)
  /\ \A m \in MPQ : WF_vars(Granted(m))
  /\ \A p \in Pkt : WF_vars(Returned(p))

-----------------------------------------------------------------------------
(* Properties *)

\* Every variable stays in its type.  The counters are naturals, which is
\* what the assertions negativelength and negativeinflight of the engine say.
TypeOK ==
  /\ fifo \in [MPQ -> Seq(Entry)]
  /\ mpq \in [MPQ -> Mpq]
  /\ meta \in [MPQ -> Contexts]
  /\ state_q \in {"Idle", "Ready", "Stalled"}
  /\ task_o \in Task \cup {None}
  /\ running \subseteq Task
  /\ held \subseteq Pkt

\* Tasks granted and not yet fed back: running ones and the one in the output
\* register.
Outstanding == running \cup ({task_o} \ {None})
Of(m) == {t \in Outstanding : t.msgid = m}

\* The sPIN handler order, through all simultaneous events of a cycle: two
\* tasks of one MPQ are outstanding together only if both are payload tasks,
\* so a header handler is done before any payload handler of its message
\* starts and a completion handler runs alone, after all of them.
HandlerOrder ==
  \A m \in MPQ : \A t, u \in Of(m) :
    t # u => t.kind = "Payload" /\ u.kind = "Payload"

\* in_flight, which decides when a message is drained, counts exactly the
\* outstanding tasks of its MPQ, whatever coincides with a grant or feedback.
InFlightExact == \A m \in MPQ : mpq[m].in_flight = Cardinality(Of(m))

\* The last packet of a draining message still sits in its queue while its
\* completion handler has not been started.
Retained(m) ==
  One(/\ mpq[m].state \in {"PayloadDraining", "Completion"}
      /\ mpq[m].has_completion)

\* The FSM's length counter and the FIFO engine never drift apart: the queue
\* holds the packets the counter counts, plus the one kept for completion.
\* Otherwise fifo_pop would pop an empty queue or a packet would be skipped.
LengthMatchesFifo ==
  \A m \in MPQ : Len(fifo[m]) = mpq[m].length + Retained(m)

Queued == UNION {{fifo[m][k].pkt : k \in DOMAIN fifo[m]} : m \in MPQ}

\* A packet buffer is given back to the NIC (and may be overwritten by the
\* next packet) only when no queue and no outstanding task refers to it.
NoUseAfterRelease ==
  /\ Queued \subseteq held
  /\ \A t \in Outstanding : t.pkt \in held

\* No packet buffer is leaked or released twice: every buffer the NIC handed
\* over is either in a queue or is owed by exactly one outstanding task.
EveryPacketOwed ==
  \A p \in held :
    \/ p \in Queued /\ \A t \in Outstanding : t.pkt = p => ~t.trigger_feedback
    \/ /\ p \notin Queued
       /\ \E t \in Outstanding :
            /\ t.pkt = p /\ t.trigger_feedback
            /\ \A u \in Outstanding : u.pkt = p => u = t

\* Header and completion tasks are only made for a context that has such a
\* handler: the metadata memory, written while the MPQ is free, agrees with
\* the FSM's own record of the message.
PhaseHasHandler ==
  \A t \in Outstanding :
    /\ t.kind = "Header" => t.meta.hh
    /\ t.kind = "Completion" => t.meta.th

\* The engine's own assertion `nonempty': when no MPQ is busy, no packet is
\* left in the FIFO engine.
IdleMeansEmpty ==
  (\A m \in MPQ : ~MpqBusy(m)) => \A m \in MPQ : fifo[m] = << >>

\* Every packet buffer handed over is eventually released to the NIC.
EveryPacketReleased == \A p \in Pkt : p \in held ~> p \notin held
=============================================================================
