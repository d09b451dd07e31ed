----------------------------- MODULE HpuDriver ------------------------------
(***************************************************************************)
(* The driver of one handler processing unit (hpu_driver.sv): the task     *)
(* frontend, which hands a task to the core and buffers its feedback, and  *)
(* the command frontend, through which the handler issues commands (DMA to *)
(* the host, packet sends) and waits for them.                             *)
(*                                                                         *)
(* A step is a clock cycle.  `core' is the program the HPU runs: the loop  *)
(* hpu_run around a handler that may issue, wait for and test commands and *)
(* start cluster DMA transfers as it likes.  The consumer of the commands  *)
(* and the DMA engine are external: they answer in any order.              *)
(***************************************************************************)
EXTENDS Naturals, Sequences, FiniteSets

CONSTANTS
  Tasks,         \* handler tasks the cluster scheduler may dispatch
  NullTasks,     \* those whose handler_fun is 0
  NUM_CMDS,      \* command IDs
  NUM_BUFFERED,  \* depth of the command buffer; NUM_CMDS in this design
  Detached,      \* TRUE: a handler may return without waiting for commands
  MaxOpen,       \* handles a handler keeps open at once
  None

VARIABLES
  tf_state,      \* task_frontend.state_q
  current_task,  \* task_frontend.current_task_q
  feedback,      \* the feedback buffer (depth 1): a task, or None
  cf_state,      \* cmd_frontend.state_q
  cmd_ids,       \* the bits set in free_cmd_ids_q: IDs in use
  cmd_id,        \* cmd_q.cmd_id.local_cmd_id
  wt_cmd_idx,    \* wt_cmd_idx_q
  rdata,         \* cmd_frontend.rdata_q
  cmd_buff,      \* the command buffer: [id, owner]
  out,           \* commands accepted by their interface, unanswered
  dma,           \* tasks with an unfinished cluster DMA transfer
  core,          \* fetch, fun, handler, issue, wait, test, bell
  arg,           \* the handle the core waits for or tests
  handles,       \* the handles the running handler has not waited for
  open,          \* its unfinished commands: [handle, id] (history)
  owed           \* accepted tasks whose feedback has not left (history)

tfVars   == <<tf_state, current_task, feedback, owed>>
cfVars   == <<cf_state, cmd_ids, cmd_id, wt_cmd_idx, rdata, cmd_buff, out>>
coreVars == <<core, arg, handles, open, dma>>
vars     == <<tfVars, cfVars, coreVars>>

Ids == 0 .. NUM_CMDS - 1
Cmd == [id : Ids, owner : Tasks]

ASSUME CmdsAssumption == NUM_CMDS \in Nat /\ NUM_CMDS > 1
ASSUME BufferAssumption == NUM_BUFFERED \in Nat /\ NUM_BUFFERED > 0
ASSUME TasksAssumption ==
  NullTasks \subseteq Tasks /\ None \notin Tasks \cup Ids

-----------------------------------------------------------------------------
(* cmd_frontend.  resp is the ID answered in this cycle, or None.  As in   *)
(* MpqEngine, names ending in _F and a number are faults, never used.      *)

CmdIssued == core = "issue"
WaitIssued == core = "wait"
TestIssued == core = "test"
Disabled_F1 == FALSE
Disabled == feedback # None
NoFreeIds == cmd_ids = Ids
BuffFull == Len(cmd_buff) = NUM_BUFFERED

\* i_lzc_free_cmd_ids: the lowest ID not in use; the last one if there is none.
CmdIdx_F1 == IF NoFreeIds THEN NUM_CMDS ELSE CHOOSE i \in Ids \ cmd_ids : TRUE
CmdIdx ==
  IF NoFreeIds THEN NUM_CMDS - 1
  ELSE CHOOSE i \in Ids \ cmd_ids : \A j \in Ids \ cmd_ids : i <= j

\* spin_cmd_test writes the handle, which nothing latches, and then reads: a
\* load drives 0 on wdata (the decoder's default third operand is x0).
WtCmdIdx ==
  IF WaitIssued THEN arg ELSE IF TestIssued THEN 0 ELSE wt_cmd_idx
WtFinished_F1(resp) == resp = WtCmdIdx
WtFinished(resp) == WtCmdIdx \notin cmd_ids \/ resp = WtCmdIdx

\* Where an issued command goes once commands are enabled.
Acquire ==
  IF NoFreeIds THEN "WaitingID" ELSE IF BuffFull THEN "WaitingBuffer"
  ELSE "Ready"

CfState(resp) ==
  CASE cf_state = "Ready" /\ CmdIssued ->
         IF Disabled THEN "Disabled" ELSE Acquire
    [] cf_state = "Ready" /\ WaitIssued /\ ~WtFinished(resp) -> "Waiting"
    [] cf_state = "Disabled" /\ ~Disabled -> Acquire
    [] cf_state = "WaitingID" /\ resp # None ->
         IF BuffFull THEN "WaitingBuffer" ELSE "Ready"
    [] cf_state = "WaitingBuffer" /\ ~BuffFull -> "Ready"
    [] cf_state = "Waiting" /\ resp = wt_cmd_idx -> "Ready"
    [] OTHER -> cf_state

AssignId ==
  /\ (cf_state = "Ready" /\ CmdIssued) \/ cf_state = "Disabled"
  /\ ~Disabled /\ ~NoFreeIds

\* In WaitingID the answered ID passes directly to the waiting command.
Freed_F1(resp) == {resp} \ {None}
Freed(resp) == IF cf_state = "WaitingID" THEN {} ELSE {resp} \ {None}
CmdIds(resp) ==
  (cmd_ids \cup (IF AssignId THEN {CmdIdx} ELSE {})) \ Freed(resp)
LocalCmdId(resp) ==
  IF cf_state = "WaitingID" /\ resp # None THEN resp
  ELSE IF AssignId THEN CmdIdx ELSE cmd_id

RData(resp) ==
  CASE cf_state = "Ready" /\ CmdIssued -> CmdIdx
    [] cf_state = "Ready" /\ TestIssued -> IF WtFinished(resp) THEN 1 ELSE 0
    [] cf_state = "Waiting" /\ resp # None -> resp
    [] OTHER -> rdata

\* The core's access is granted when it does not block or is unblocked.
Granted(resp) ==
  core \in {"issue", "wait", "test"} /\ CfState(resp) = "Ready"
CmdPush(resp) == ~BuffFull /\ CmdIssued /\ CfState(resp) = "Ready"

\* take: cmd_ready_i; the interface accepts the command at the buffer's head.
CmdCycle(resp, take) ==
  LET pop == take /\ cmd_buff # << >>
      new == [id |-> LocalCmdId(resp), owner |-> current_task]
      rest == IF pop THEN Tail(cmd_buff) ELSE cmd_buff
  IN  /\ cf_state' = CfState(resp)
      /\ cmd_ids' = CmdIds(resp)
      /\ cmd_id' = LocalCmdId(resp)
      /\ wt_cmd_idx' = WtCmdIdx
      /\ rdata' = RData(resp)
      /\ cmd_buff' = IF CmdPush(resp) THEN Append(rest, new) ELSE rest
      /\ out' = {c \in out : c.id # resp}
                  \cup (IF pop THEN {Head(cmd_buff)} ELSE {})

-----------------------------------------------------------------------------
(* task_frontend *)

TriggerFeedback == tf_state = "Running" /\ core = "bell"
FeedbackPush ==
  feedback = None /\ (TriggerFeedback \/ tf_state = "SendingFeedback")
FeedbackValid_F1 == feedback # None /\ cmd_ids = {}
FeedbackValid == feedback # None /\ dma = {} /\ cmd_ids = {}
TaskGranted == tf_state = "Running" /\ core \in {"fun", "bell"}

AfterBell_F1 == "Idle"
AfterBell == IF feedback # None THEN "SendingFeedback" ELSE "Idle"

\* task: the task the cluster scheduler offers, or None.
TfState(task) ==
  CASE tf_state = "Init" /\ core = "fun" -> "Idle"
    [] tf_state = "Idle" /\ task # None ->
         IF task \in NullTasks THEN "SendingFeedback" ELSE "Running"
    [] TriggerFeedback -> AfterBell
    [] tf_state = "SendingFeedback" /\ feedback = None -> "Idle"
    [] OTHER -> tf_state

TaskCycle(task, ready) ==
  LET accept == tf_state = "Idle" /\ task # None
      pop == ready /\ FeedbackValid
  IN  /\ tf_state' = TfState(task)
      /\ current_task' = IF accept THEN task ELSE current_task
      /\ feedback' = IF FeedbackPush THEN current_task
                     ELSE IF pop THEN None ELSE feedback
      /\ owed' = (owed \cup (IF accept THEN {task} ELSE {}))
                   \ (IF pop THEN {feedback} ELSE {})

-----------------------------------------------------------------------------
(* The core: hpu_run of the runtime around an arbitrary handler. *)

\* An access is held on the bus until it is granted.
Held == UNCHANGED <<core, arg, handles>>
Unfinished(resp) == {c \in open : c.id # resp}

Fetch(resp) ==
  /\ core = "fetch"
  /\ core' \in {"fetch", "fun"}
  /\ open' = Unfinished(resp)
  /\ UNCHANGED <<arg, handles>>

Fun(resp) ==
  /\ core = "fun"
  /\ core' = IF TaskGranted THEN "handler" ELSE "fun"
  /\ open' = Unfinished(resp)
  /\ UNCHANGED <<arg, handles>>

\* The handler computes, or puts its next access on the bus.
Handler(resp) ==
  /\ core = "handler"
  /\ open' = Unfinished(resp)
  /\ handles' = handles
  /\ \/ core' = "handler" /\ arg' = arg
     \/ core' = "issue" /\ arg' = arg /\ Cardinality(handles) < MaxOpen
     \/ core' \in {"wait", "test"} /\ arg' \in handles
     \/ core' = "bell" /\ arg' = arg /\ (Detached \/ handles = {})

\* A load from CMD_ISSUE returns the handle of the command.
Issue(resp) ==
  /\ core = "issue"
  /\ IF Granted(resp)
     THEN /\ core' = "handler" /\ arg' = arg
          /\ handles' = handles \cup {RData(resp)}
          /\ open' = Unfinished(resp)
               \cup {[handle |-> RData(resp), id |-> LocalCmdId(resp)]}
     ELSE Held /\ open' = Unfinished(resp)

Wait(resp) ==
  /\ core = "wait"
  /\ open' = Unfinished(resp)
  /\ IF Granted(resp)
     THEN core' = "handler" /\ arg' = arg /\ handles' = handles \ {arg}
     ELSE Held

Test(resp) ==
  /\ core = "test"
  /\ open' = Unfinished(resp)
  /\ IF Granted(resp)
     THEN core' = "handler" /\ UNCHANGED <<arg, handles>>
     ELSE Held

\* Reading the doorbell ends the handler.
Bell(resp) ==
  /\ core = "bell"
  /\ IF TaskGranted
     THEN core' = "fetch" /\ arg' = arg /\ handles' = {} /\ open' = {}
     ELSE Held /\ open' = Unfinished(resp)

CoreCycle(resp) ==
  \/ Fetch(resp) \/ Fun(resp) \/ Handler(resp)
  \/ Issue(resp) \/ Wait(resp) \/ Test(resp) \/ Bell(resp)

\* done: the task whose DMA transfers end; a running handler may start one.
DmaCycle(done) ==
  \E start \in SUBSET (IF core = "handler" THEN {current_task} ELSE {}) :
    dma' = (dma \ {done}) \cup start

Cycle(task, ready, resp, take, done) ==
  /\ TaskCycle(task, ready)
  /\ CmdCycle(resp, take)
  /\ CoreCycle(resp)
  /\ DmaCycle(done)

\* What the surroundings may present: a task that is not already here (it
\* stands for a packet in L1), answers to accepted commands.
Offers == (Tasks \ owed) \cup {None}
Answers == {c.id : c \in out} \cup {None}

Init ==
  /\ tf_state = "Init" /\ current_task = None /\ feedback = None
  /\ cf_state = "Ready" /\ cmd_ids = {} /\ cmd_id = 0 /\ wt_cmd_idx = 0
  /\ rdata = 0 /\ cmd_buff = << >> /\ out = {} /\ dma = {}
  /\ core = "fetch" /\ arg = 0 /\ handles = {} /\ open = {} /\ owed = {}

Next ==
  \E task \in Offers, ready, take \in BOOLEAN, resp \in Answers,
     done \in dma \cup {None} : Cycle(task, ready, resp, take, done)

Spec == Init /\ [][Next]_vars

(* Fairness.  Each is a cycle in which something the surroundings owe      *)
(* happens: a core in its runtime loop reads the next task, a handler that *)
(* keeps running returns, the arbiters take what is offered, commands and  *)
(* DMA transfers end.                                                      *)
Fetches == core = "fetch" /\ Next /\ core' = "fun"
Returns == core = "handler" /\ Next /\ core' = "bell"
Answered(i) ==
  /\ \E c \in out : c.id = i
  /\ \E task \in Offers, ready, take \in BOOLEAN, done \in dma \cup {None} :
       Cycle(task, ready, i, take, done)
CmdTaken ==
  /\ cmd_buff # << >>
  /\ \E task \in Offers, ready \in BOOLEAN, resp \in Answers,
        done \in dma \cup {None} : Cycle(task, ready, resp, TRUE, done)
FeedbackTaken ==
  /\ FeedbackValid
  /\ \E task \in Offers, take \in BOOLEAN, resp \in Answers,
        done \in dma \cup {None} : Cycle(task, TRUE, resp, take, done)
DmaEnds(t) ==
  /\ t \in dma
  /\ \E task \in Offers, ready, take \in BOOLEAN, resp \in Answers :
       Cycle(task, ready, resp, take, t) /\ t \notin dma'

FairSpec ==
  /\ Spec
  /\ WF_vars(Next) /\ WF_vars(Fetches) /\ SF_vars(Returns)
  /\ WF_vars(CmdTaken) /\ WF_vars(FeedbackTaken)
  /\ \A i \in Ids : WF_vars(Answered(i))
  /\ \A t \in Tasks : WF_vars(DmaEnds(t))

-----------------------------------------------------------------------------
(* Properties *)

CfStates == {"Ready", "Disabled", "WaitingID", "WaitingBuffer", "Waiting"}

\* Every variable stays in its type: the command buffer within its depth,
\* every ID on the bus within the ID space.
TypeOK ==
  /\ tf_state \in {"Init", "Idle", "Running", "SendingFeedback"}
  /\ current_task \in Tasks \cup {None} /\ feedback \in Tasks \cup {None}
  /\ owed \subseteq Tasks /\ dma \subseteq Tasks
  /\ cf_state \in CfStates /\ cmd_ids \subseteq Ids
  /\ cmd_id \in Ids /\ wt_cmd_idx \in Ids /\ rdata \in Ids
  /\ cmd_buff \in Seq(Cmd) /\ Len(cmd_buff) <= NUM_BUFFERED
  /\ out \subseteq Cmd
  /\ core \in {"fetch", "fun", "handler", "issue", "wait", "test", "bell"}
  /\ arg \in Ids /\ handles \subseteq Ids
  /\ open \subseteq [handle : Ids, id : Ids]

Buffered == {cmd_buff[k] : k \in DOMAIN cmd_buff}
InFlight == Buffered \cup out

\* An ID is marked in use exactly as long as one command holds it, and no
\* two commands hold the same ID, although answers free and reassign IDs in
\* the cycles in which commands are issued.  A command waiting for the buffer
\* already holds its ID.
IdsExact ==
  /\ cmd_ids = {c.id : c \in InFlight}
                 \cup (IF cf_state = "WaitingBuffer" THEN {cmd_id} ELSE {})
  /\ Cardinality(cmd_ids)
       = Len(cmd_buff) + Cardinality(out)
           + (IF cf_state = "WaitingBuffer" THEN 1 ELSE 0)

\* Commands of two tasks are never in flight together: while a feedback waits
\* for its commands, the next handler cannot issue any.  `no_pending_cmd'
\* therefore speaks of the commands of the task at hand only.
OneOwner ==
  /\ feedback # None => \A c \in InFlight : c.owner = feedback
  /\ feedback = None => \A c \in InFlight : c.owner = current_task

\* A task accepted from the scheduler is in exactly one place until its
\* feedback leaves: with the core or in the feedback buffer.
Busy == tf_state \in {"Running", "SendingFeedback"}
FeedbackExact ==
  /\ owed = (IF Busy THEN {current_task} ELSE {}) \cup ({feedback} \ {None})
  /\ Busy => current_task # feedback

\* "The hw will enforce that the feedback is not sent until all commands
\* issued by this handlers are completed" (copy_to_host.c), and likewise its
\* DMA transfers: when a feedback leaves, its packet may be overwritten.
FeedbackAfterCommands ==
  [][\A t \in owed \ owed' :
       t \notin dma /\ \A c \in InFlight : c.owner # t]_vars

\* When spin_cmd_wait returns, the command whose handle it was given is
\* complete.
WaitMeansDone ==
  [][(core = "wait" /\ core' = "handler")
       => \A c \in open' : c.handle # arg]_vars

\* Every accepted task is eventually answered by its feedback.
EveryTaskAnswered == \A t \in Tasks : t \in owed ~> t \notin owed
=============================================================================
