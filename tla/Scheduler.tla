----------------------------- MODULE Scheduler ------------------------------
(***************************************************************************)
(* The global scheduler (scheduler.sv): it sends each task of the MPQ      *)
(* engine to a cluster, to the home cluster of its message if it can, and  *)
(* merges the clusters' feedbacks.  A step is a clock cycle.               *)
(*                                                                         *)
(* A spill register between the scheduler and a cluster is a queue of two. *)
(* The clusters are external: they take tasks and report them in any order *)
(* (see ClusterScheduler).                                                 *)
(***************************************************************************)
EXTENDS Naturals, Sequences, FiniteSets

CONSTANTS
  Cluster,   \* 0 .. NUM_CLUSTERS - 1
  Tasks,
  Home,      \* the home cluster of each task: the low bits of its msgid
  MAX_OCC,   \* NUM_HERS_PER_CLUSTER
  None

VARIABLES
  task_i,         \* the task the MPQ engine offers, held until accepted
  state,          \* ServePacket or WaitTransfer
  cluster_id,     \* cluster_id_q
  task_q,         \* the task that waits for its cluster
  cluster_occup,  \* cluster_occup_q
  task_spill,     \* i_cluster_task_spill of every cluster
  inside,         \* tasks every cluster has taken and not yet reported
  fb_spill,       \* i_cluster_feedback_spill of every cluster
  owed            \* tasks whose feedback has not been passed on (history)

vars == <<task_i, state, cluster_id, task_q, cluster_occup, task_spill,
          inside, fb_spill, owed>>

SPILL == 2

ASSUME ClusterAssumption == Cluster \subseteq Nat /\ Cluster # {} /\ 0 \in Cluster
ASSUME HomeAssumption == Home \in [Tasks -> Cluster] /\ None \notin Tasks \cup Cluster
ASSUME MaxAssumption == MAX_OCC \in Nat /\ MAX_OCC > 0

One(b) == IF b THEN 1 ELSE 0

-----------------------------------------------------------------------------
(* Choosing a cluster.  Names ending in _F and a number are faults, unused. *)

Ready_F1(c) == TRUE
Ready(c) == Len(task_spill[c]) < SPILL

\* argmin4: a cluster that is not ready counts as full, the lower index wins.
Value(c) == IF Ready(c) THEN cluster_occup[c] ELSE MAX_OCC + 1
OccupMin ==
  CHOOSE c \in Cluster : \A d \in Cluster :
    Value(c) < Value(d) \/ (Value(c) = Value(d) /\ c <= d)

NoClusterAvail_F1 == cluster_occup[OccupMin] > MAX_OCC
NoClusterAvail == cluster_occup[OccupMin] >= MAX_OCC
CanUseHome(t) ==
  NoClusterAvail \/ (cluster_occup[Home[t]] < MAX_OCC /\ Ready(Home[t]))
Sel(t) == IF CanUseHome(t) THEN Home[t] ELSE OccupMin

\* A task is accepted even if its cluster is not ready: it then waits.
Serve == state = "ServePacket" /\ task_i # None /\ ~NoClusterAvail
ClusterId == IF Serve THEN Sel(task_i) ELSE cluster_id

\* The task transferred to a cluster in this cycle, if any, is on the wires.
Serving == Serve \/ state = "WaitTransfer"
Transfer == Serving /\ Ready(ClusterId)
Descr == IF Serve THEN task_i ELSE task_q
Sent(c) == Transfer /\ ClusterId = c

NextState_F1 == IF Serve THEN "WaitTransfer" ELSE "ServePacket"
NextState == IF Serving /\ ~Transfer THEN "WaitTransfer" ELSE "ServePacket"

Occup_F1(c, fb) ==
  IF fb = c THEN cluster_occup[c] - 1 ELSE cluster_occup[c] + One(Sent(c))
Occup(c, fb) == cluster_occup[c] + One(Sent(c)) - One(fb = c)

\* offer: the next task of the MPQ engine, or None; takes: clusters that take
\* a task; reports: the tasks clusters report; fb: the cluster whose feedback
\* the arbiter passes on, or None.
Cycle(offer, takes, reports, fb) ==
  /\ task_i' = IF task_i = None \/ Serve THEN offer ELSE task_i
  /\ state' = NextState
  /\ cluster_id' = ClusterId
  /\ task_q' = IF Serve THEN task_i ELSE task_q
  /\ cluster_occup' = [c \in Cluster |-> Occup(c, fb)]
  /\ task_spill' =
       [c \in Cluster |->
          (IF c \in takes THEN Tail(task_spill[c]) ELSE task_spill[c])
            \o (IF Sent(c) THEN <<Descr>> ELSE << >>)]
  /\ inside' =
       [c \in Cluster |->
          (inside[c] \ {reports[c]})
            \cup (IF c \in takes THEN {Head(task_spill[c])} ELSE {})]
  /\ fb_spill' =
       [c \in Cluster |->
          (IF c = fb THEN Tail(fb_spill[c]) ELSE fb_spill[c])
            \o (IF reports[c] # None THEN <<reports[c]>> ELSE << >>)]
  /\ owed' = (owed \cup ({task_i'} \ {None}))
               \ (IF fb = None THEN {} ELSE {Head(fb_spill[fb])})

-----------------------------------------------------------------------------
Elems(s) == {s[k] : k \in DOMAIN s}
On(c) == Elems(task_spill[c]) \cup inside[c] \cup Elems(fb_spill[c])
Waiting == IF state = "WaitTransfer" THEN {task_q} ELSE {}
Here == Waiting \cup ({task_i} \ {None}) \cup UNION {On(c) : c \in Cluster}

Takers == {c \in Cluster : task_spill[c] # << >>}
Reports ==
  {r \in [Cluster -> Tasks \cup {None}] :
     \A c \in Cluster : r[c] # None =>
       r[c] \in inside[c] /\ Len(fb_spill[c]) < SPILL}
Feedbacks == {c \in Cluster : fb_spill[c] # << >>} \cup {None}
Offers == (Tasks \ owed) \cup {None}

Init ==
  /\ task_i = None /\ state = "ServePacket" /\ cluster_id = 0 /\ task_q = None
  /\ cluster_occup = [c \in Cluster |-> 0]
  /\ task_spill = [c \in Cluster |-> << >>]
  /\ inside = [c \in Cluster |-> {}]
  /\ fb_spill = [c \in Cluster |-> << >>]
  /\ owed = {}

Next ==
  \E offer \in Offers, takes \in SUBSET Takers, reports \in Reports,
     fb \in Feedbacks : Cycle(offer, takes, reports, fb)

Spec == Init /\ [][Next]_vars

-----------------------------------------------------------------------------
(* Properties *)

\* Every variable stays in its type: no counter of tasks underflows and no
\* spill register is filled beyond its two places.
TypeOK ==
  /\ task_i \in Tasks \cup {None} /\ task_q \in Tasks \cup {None}
  /\ state \in {"ServePacket", "WaitTransfer"} /\ cluster_id \in Cluster
  /\ cluster_occup \in [Cluster -> Nat]
  /\ task_spill \in [Cluster -> Seq(Tasks)] /\ fb_spill \in [Cluster -> Seq(Tasks)]
  /\ \A c \in Cluster : Len(task_spill[c]) <= SPILL /\ Len(fb_spill[c]) <= SPILL
  /\ inside \in [Cluster -> SUBSET Tasks] /\ owed \subseteq Tasks

\* cluster_occup, on which every decision rests, is the number of tasks
\* between the scheduler and the return of their feedback, also when a task
\* goes in and a feedback comes out in one cycle.
OccupExact ==
  \A c \in Cluster :
    cluster_occup[c] = Len(task_spill[c]) + Cardinality(inside[c]) + Len(fb_spill[c])

\* "We expect the scheduler to not forward us tasks if we are at capacity"
\* (cluster_scheduler.sv): a cluster never holds more tasks than its request
\* FIFO, even through a transfer that had to wait.
WithinCapacity ==
  \A c \in Cluster : Cardinality(inside[c]) + Len(task_spill[c]) <= MAX_OCC

\* A task is in one place until its feedback is passed on: it is neither
\* lost nor sent twice when it has to wait for its cluster.
OnePlace ==
  /\ owed = Here
  /\ \A c, d \in Cluster : c # d => On(c) \cap On(d) = {}
  /\ \A c \in Cluster :
       /\ Waiting \cap On(c) = {}
       /\ Cardinality(On(c)) = Len(task_spill[c]) + Cardinality(inside[c])
                                 + Len(fb_spill[c])
  /\ task_i \notin Waiting \cup UNION {On(c) : c \in Cluster}
=============================================================================
