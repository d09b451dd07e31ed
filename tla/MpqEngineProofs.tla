-------------------------- MODULE MpqEngineProofs ---------------------------
(***************************************************************************)
(* Proofs about the MPQ engine, for any number of MPQs, packets, cells and *)
(* contexts.  The safety properties are not inductive one by one: that a   *)
(* message is drained when in_flight falls to 0 depends on in_flight being *)
(* exact, that depends on no two outstanding tasks being equal, and that   *)
(* on which packets are queued and which are owed.  IInv joins them.       *)
(***************************************************************************)
EXTENDS MpqEngine, FiniteSetTheorems, TLAPS

-----------------------------------------------------------------------------
(* The inductive invariant *)

\* What each FSM state says about its counters and flags.
PhaseOK(q) ==
  /\ q.state = "Free" => q.in_flight = 0 /\ ~q.eom_seen
  /\ q.state = "Header" => q.in_flight = 0 /\ q.length > 0
  /\ q.state = "HeaderRunning" => q.in_flight = 1 /\ q.length > 0
  /\ q.state = "PayloadDraining" => q.in_flight > 0 /\ q.eom_seen
  /\ q.state = "Completion" => q.in_flight = 0 /\ q.has_completion /\ q.eom_seen
  /\ q.state = "CompletionRunning" => q.in_flight = 1 /\ q.eom_seen

\* Without overlapping messages, nothing is queued behind a finished one.
QuietOK(q) ==
  q.state \notin {"Header", "HeaderRunning", "Payload"} => q.length = 0

\* The metadata memory and the FSM describe the same message.
MetaOK(m) ==
  /\ mpq[m].state # "Free" => mpq[m].has_completion = meta[m].th
  /\ mpq[m].state = "Header" => meta[m].hh

\* The state of its MPQ tells which tasks can be outstanding.
KindOK(t) ==
  /\ t.kind = "Header" => mpq[t.msgid].state = "HeaderRunning" /\ t.meta.hh
  /\ t.kind = "Payload" =>
       mpq[t.msgid].state \in {"Payload", "PayloadDraining"}
  /\ t.kind = "Completion" =>
       mpq[t.msgid].state = "CompletionRunning" /\ t.meta.th

\* The head of the queue of m stays there while a task works on it.
HeadKept(m) ==
  \/ mpq[m].state = "HeaderRunning"
  \/ mpq[m].state = "PayloadDraining" /\ mpq[m].has_completion

\* A task either carries its packet away or works on the kept head.
OwnerOK(t) ==
  IF t.trigger_feedback
  THEN \A m \in MPQ : \A k \in 1 .. Len(fifo[m]) : fifo[m][k].pkt # t.pkt
  ELSE /\ HeadKept(t.msgid)
       /\ Len(fifo[t.msgid]) > 0
       /\ fifo[t.msgid][1].pkt = t.pkt

\* No packet is queued twice and no two outstanding tasks share a packet.
DistinctOK ==
  /\ \A m, n \in MPQ : \A k \in 1 .. Len(fifo[m]), l \in 1 .. Len(fifo[n]) :
       fifo[m][k].pkt = fifo[n][l].pkt => m = n /\ k = l
  /\ \A t, u \in Outstanding : t.pkt = u.pkt => t = u

\* The packet buffers handed over are those queued or owed by a task.
HeldOK ==
  /\ \A m \in MPQ : \A k \in 1 .. Len(fifo[m]) : fifo[m][k].pkt \in held
  /\ \A t \in Outstanding : t.pkt \in held
  /\ \A p \in held :
       \/ \E m \in MPQ : \E k \in 1 .. Len(fifo[m]) : fifo[m][k].pkt = p
       \/ \E t \in Outstanding : t.pkt = p /\ t.trigger_feedback

\* The output register is occupied unless the output FSM is idle, and its
\* task has not been handed over yet.
OutputOK ==
  /\ state_q = "Idle" <=> task_o = None
  /\ task_o \notin running
  /\ IsFiniteSet(running)

IInv ==
  /\ TypeOK
  /\ OutputOK
  /\ \A m \in MPQ : PhaseOK(mpq[m])
  /\ ~Overlap => \A m \in MPQ : QuietOK(mpq[m])
  /\ \A m \in MPQ : MetaOK(m)
  /\ \A t \in Outstanding : KindOK(t)
  /\ InFlightExact
  /\ LengthMatchesFifo
  /\ \A t \in Outstanding : OwnerOK(t)
  /\ DistinctOK
  /\ HeldOK

-----------------------------------------------------------------------------
(* One MPQ, one cycle *)

ValidQ(q) == \/ q.state \in {"Header", "Completion"}
             \/ q.state = "Payload" /\ q.length > 0

RetainedQ(q) ==
  One(q.state \in {"PayloadDraining", "Completion"} /\ q.has_completion)

\* The next record of an MPQ, field by field.
LEMMA FsmFields ==
  ASSUME NEW q \in Mpq, NEW h \in Her \cup {None},
         NEW s \in BOOLEAN, NEW f \in BOOLEAN
  PROVE  LET d == Fsm(q, h, s, f) IN
         /\ d.state = FsmState(q, h, s, f)
         /\ d.length = q.length + One(h # None) - One(s /\ q.state = "Payload")
         /\ d.in_flight = q.in_flight + One(s) - One(f)
         /\ d.state = "Free" => ~d.eom_seen
         /\ d.state # "Free" /\ q.eom_seen => d.eom_seen
         /\ q.state # "Free" => d.has_completion = q.has_completion
         /\ q.state = "Free" /\ h # None => d.has_completion = h.meta.th
BY DEF Fsm, Counter

\* A step of the FSM keeps the counters natural and the phase consistent, if
\* only valid MPQs are granted and feedback comes only for tasks in flight.
LEMMA FsmStep ==
  ASSUME NEW q \in Mpq, NEW h \in Her \cup {None},
         NEW s \in BOOLEAN, NEW f \in BOOLEAN,
         PhaseOK(q), s => ValidQ(q), f => q.in_flight > 0
  PROVE  Fsm(q, h, s, f) \in Mpq /\ PhaseOK(Fsm(q, h, s, f))
<1> DEFINE d == Fsm(q, h, s, f)
<1>1. /\ q.length \in Nat /\ q.in_flight \in Nat /\ q.state \in MpqState
      /\ q.eom_seen \in BOOLEAN /\ q.has_completion \in BOOLEAN
      /\ h # None => h.meta.th \in BOOLEAN
  BY ContextsAssumption DEF Mpq, Her, Meta
<1>2. d.length \in Nat /\ d.in_flight \in Nat
  BY <1>1, FsmFields DEF One, ValidQ
<1>3. d.eom_seen \in BOOLEAN /\ d.has_completion \in BOOLEAN
  BY <1>1 DEF Fsm
<1>4. d \in Mpq
  <2>1. FsmState(q, h, s, f) \in MpqState
    BY <1>1 DEF FsmState, MpqState
  <2> QED BY <1>2, <1>3, <2>1 DEF Mpq, Fsm
<1>5. PhaseOK(d)
  <2>1. /\ d.state = FsmState(q, h, s, f)
        /\ d.length = q.length + One(h # None) - One(s /\ q.state = "Payload")
        /\ d.in_flight = q.in_flight + One(s) - One(f)
        /\ d.state = "Free" => ~d.eom_seen
        /\ d.state # "Free" /\ q.eom_seen => d.eom_seen
        /\ q.state # "Free" => d.has_completion = q.has_completion
    BY FsmFields
  <2> HIDE DEF d
  <2> QED BY <1>1, <2>1
     DEF PhaseOK, ValidQ, One, FsmState, LastSent, Drained, MpqState
<1> QED BY <1>4, <1>5

\* Without overlap a HER never meets a message whose EOM was seen, so the
\* queue behind a draining message stays empty.
LEMMA FsmQuiet ==
  ASSUME NEW q \in Mpq, NEW h \in Her \cup {None},
         NEW s \in BOOLEAN, NEW f \in BOOLEAN,
         PhaseOK(q), s => ValidQ(q), QuietOK(q), h # None => ~q.eom_seen
  PROVE  QuietOK(Fsm(q, h, s, f))
<1> DEFINE d == Fsm(q, h, s, f)
<1>1. /\ d.state = FsmState(q, h, s, f)
      /\ d.length = q.length + One(h # None) - One(s /\ q.state = "Payload")
  BY FsmFields
<1>2. q.length \in Nat /\ q.state \in MpqState
  BY DEF Mpq
<1> SUFFICES QuietOK(d)
  OBVIOUS
<1> HIDE DEF d
<1> QED BY <1>1, <1>2
  DEF QuietOK, PhaseOK, ValidQ, One, FsmState, LastSent, Drained, MpqState

\* The length counter plus the retained packet changes by what the cycle
\* pushes and pops.
LEMMA FsmLength ==
  ASSUME NEW q \in Mpq, NEW h \in Her \cup {None},
         NEW s \in BOOLEAN, NEW f \in BOOLEAN,
         PhaseOK(q), s => ValidQ(q)
  PROVE  LET d == Fsm(q, h, s, f)
         IN  d.length + RetainedQ(d) =
               q.length + RetainedQ(q) + One(h # None) - One(s /\ FifoPop(q, d))
<1> DEFINE d == Fsm(q, h, s, f)
<1>1. /\ d.state = FsmState(q, h, s, f)
      /\ d.length = q.length + One(h # None) - One(s /\ q.state = "Payload")
      /\ q.state # "Free" => d.has_completion = q.has_completion
  BY FsmFields
<1>2. q.length \in Nat /\ q.state \in MpqState
  BY DEF Mpq
<1> HIDE DEF d
<1> SUFFICES d.length + RetainedQ(d) =
               q.length + RetainedQ(q) + One(h # None) - One(s /\ FifoPop(q, d))
  BY DEF d
<1> QED BY <1>1, <1>2
  DEF RetainedQ, PhaseOK, ValidQ, One, FsmState, LastSent, Drained, MpqState, FifoPop

\* The two operations on a queue: what stands at each position afterwards.
LEMMA TailPositions ==
  ASSUME NEW S, NEW s \in Seq(S), Len(s) > 0
  PROVE  /\ Tail(s) \in Seq(S)
         /\ Len(Tail(s)) = Len(s) - 1
         /\ \A k \in 1 .. Len(Tail(s)) : Tail(s)[k] = s[k + 1]
OBVIOUS

\* A push keeps the positions of a queue and adds one at its end.
LEMMA AppendPositions ==
  ASSUME NEW S, NEW s \in Seq(S), NEW e \in S
  PROVE  /\ Append(s, e) \in Seq(S)
         /\ Len(Append(s, e)) = Len(s) + 1
         /\ \A k \in 1 .. Len(s) : Append(s, e)[k] = s[k]
         /\ Append(s, e)[Len(s) + 1] = e
OBVIOUS

-----------------------------------------------------------------------------
(* The whole engine *)

\* After reset every MPQ is free and empty, which satisfies the invariant.
LEMMA InitInv == Init => IInv
<1> SUFFICES ASSUME Init PROVE IInv
  OBVIOUS
<1>1. Outstanding = {}
  BY DEF Init, Outstanding
<1>2. TypeOK
  <2>1. fifo \in [MPQ -> Seq(Entry)]
    BY DEF Init, FifoInit
  <2> QED BY <2>1 DEF Init, TypeOK, Mpq, MpqState
<1>3. OutputOK
  BY FS_EmptySet DEF Init, OutputOK
<1>4. InFlightExact
  <2>1. \A m \in MPQ : Of(m) = {}
    BY <1>1 DEF Of
  <2> QED BY <2>1, FS_EmptySet DEF Init, InFlightExact
<1>5. LengthMatchesFifo
  BY DEF Init, FifoInit, LengthMatchesFifo, Retained, One
<1>6. DistinctOK /\ HeldOK
  BY <1>1 DEF Init, FifoInit, DistinctOK, HeldOK
<1> QED BY <1>1, <1>2, <1>3, <1>4, <1>5, <1>6
     DEF Init, IInv, PhaseOK, QuietOK, MetaOK

\* Adding one new element and removing one member of a finite set.
LEMMA SwapCardinality ==
  ASSUME NEW S, IsFiniteSet(S), NEW x, NEW y, NEW add \in BOOLEAN,
         NEW del \in BOOLEAN, x \notin S, del => y \in S,
         NEW T, T = (S \ (IF del THEN {y} ELSE {})) \cup (IF add THEN {x} ELSE {})
  PROVE  /\ IsFiniteSet(T)
         /\ Cardinality(T) = Cardinality(S) + One(add) - One(del)
         /\ Cardinality(S) \in Nat
         /\ del => Cardinality(S) > 0
         /\ \A z \in S : del /\ z # y => Cardinality(S) > 1
<1> DEFINE R == S \ (IF del THEN {y} ELSE {})
<1>0. T = R \cup (IF add THEN {x} ELSE {})
  OBVIOUS
<1>1. Cardinality(S) \in Nat
  BY FS_CardinalityType
<1>2. IsFiniteSet(R) /\ Cardinality(R) = Cardinality(S) - One(del)
  <2>1. CASE del
    <3>1. R = S \ {y} /\ One(del) = 1
      BY <2>1 DEF One
    <3> QED BY <2>1, <3>1, FS_RemoveElement
  <2>2. CASE ~del
    <3>1. R = S /\ One(del) = 0
      BY <2>2 DEF One
    <3>2. Cardinality(S) - 0 = Cardinality(S)
      BY <1>1
    <3> QED BY <3>1, <3>2, Zenon
  <2> QED BY <2>1, <2>2
<1>3. Cardinality(R) \in Nat
  BY <1>2, FS_CardinalityType
<1>4. x \notin R
  OBVIOUS
<1>5. \A z \in S : del /\ z # y => Cardinality(R) # 0
  <2> SUFFICES ASSUME NEW z \in S, del, z # y PROVE Cardinality(R) # 0
    OBVIOUS
  <2>1. z \in R
    OBVIOUS
  <2> QED BY <2>1, <1>2, FS_EmptySet
<1> HIDE DEF R
<1>6. IsFiniteSet(T) /\ Cardinality(T) = Cardinality(R) + One(add)
  <2>1. CASE add
    <3>1. T = R \cup {x} /\ One(add) = 1
      BY <1>0, <2>1 DEF One
    <3> QED BY <1>2, <1>4, <3>1, FS_AddElement
  <2>2. CASE ~add
    <3>1. T = R /\ One(add) = 0
      BY <1>0, <2>2 DEF One
    <3>2. Cardinality(R) + 0 = Cardinality(R)
      BY <1>3
    <3> QED BY <1>2, <3>1, <3>2, Zenon
  <2> QED BY <2>1, <2>2
<1>7. One(add) \in Nat /\ One(del) \in Nat /\ (del => One(del) = 1)
  BY DEF One
<1>8. ASSUME del PROVE Cardinality(S) = Cardinality(R) + 1
  <2>1. Cardinality(R) = Cardinality(S) - 1
    BY <1>2, <1>7, <1>8
  <2> QED BY <1>1, <1>3, <2>1
<1>9. del => Cardinality(S) > 0
  BY <1>3, <1>8
<1>10. \A z \in S : del /\ z # y => Cardinality(S) > 1
  BY <1>3, <1>5, <1>8
<1>11. Cardinality(T) = Cardinality(S) + One(add) - One(del)
  BY <1>1, <1>2, <1>3, <1>6, <1>7
<1> QED BY <1>1, <1>6, <1>9, <1>10, <1>11 DEF R

\* A clock cycle preserves the invariant.
LEMMA CycleInv ==
  ASSUME IInv,
         NEW her \in Offered \cup {None}, NEW fb \in running \cup {None},
         NEW task_ready \in BOOLEAN, NEW grant \in Grants(task_ready),
         Cycle(her, task_ready, grant, fb)
  PROVE  IInv'
<1> DEFINE h(m)   == HerOf(m, her)
           f(m)   == FeedbackOf(m, fb)
           snt(m) == grant = m
           d      == MpqD(her, grant, fb)
           pop    == grant # None /\ FifoPop(mpq[grant], d[grant])
           new    == NewTask(grant, pop)
           Pop(m) == pop /\ m = grant
<1>type. TypeOK
  BY DEF IInv
<1>out. OutputOK
  BY DEF IInv
<1>phase. \A m \in MPQ : PhaseOK(mpq[m])
  BY DEF IInv
<1>quiet. ~Overlap => \A m \in MPQ : QuietOK(mpq[m])
  BY DEF IInv
<1>meta. \A m \in MPQ : MetaOK(m)
  BY DEF IInv
<1>kind. \A t \in Outstanding : KindOK(t)
  BY DEF IInv
<1>count. InFlightExact
  BY DEF IInv
<1>len. LengthMatchesFifo
  BY DEF IInv
<1>owner. \A t \in Outstanding : OwnerOK(t)
  BY DEF IInv
<1>dist. DistinctOK
  BY DEF IInv
<1>held. HeldOK
  BY DEF IInv
\* The inputs of the cycle.
<1>1. /\ her \in Her \cup {None}
      /\ her # None => her.pkt \notin held /\ (Overlap \/ ~mpq[her.id].eom_seen)
      /\ her # None => her.id \in MPQ /\ her.pkt \in Pkt /\ her.meta \in Contexts
  BY DEF Offered, Her
<1>2. /\ grant \in MPQ \cup {None}
      /\ \A m \in MPQ : grant = m => ValidQ(mpq[m])
      /\ grant # None => state_q = "Idle" \/ task_ready
  BY NoneAssumption DEF Grants, MpqValid, ValidQ
<1>3. /\ fb \in Outstanding \cup {None} /\ (fb # task_o \/ fb = None)
      /\ fb # None => fb \in Task /\ fb.msgid \in MPQ
      /\ None \notin Outstanding /\ Outstanding \subseteq Task
  BY NoneAssumption, <1>type, <1>out DEF TypeOK, OutputOK, Outstanding, Task
<1>4. \A m \in MPQ : /\ h(m) \in Her \cup {None} /\ f(m) \in BOOLEAN
                     /\ h(m) # None => h(m) = her /\ her.id = m /\ her # None
                     /\ (her # None /\ her.id = m) => h(m) = her
  BY <1>1 DEF HerOf, FeedbackOf
<1>5. \A m \in MPQ : /\ mpq[m] \in Mpq
                     /\ mpq'[m] = Fsm(mpq[m], h(m), snt(m), f(m))
                     /\ d[m] = mpq'[m]
  BY <1>type DEF TypeOK, Cycle, MpqD
\* The task granted in this cycle, if any, is a new one.
<1>6. \A m \in MPQ : /\ fifo[m] \in Seq(Entry) /\ Len(fifo[m]) \in Nat
                     /\ Len(fifo[m]) = mpq[m].length + RetainedQ(mpq[m])
                     /\ grant = m => Len(fifo[m]) > 0
  <2> SUFFICES ASSUME NEW m \in MPQ
               PROVE  /\ fifo[m] \in Seq(Entry) /\ Len(fifo[m]) \in Nat
                      /\ Len(fifo[m]) = mpq[m].length + RetainedQ(mpq[m])
                      /\ grant = m => Len(fifo[m]) > 0
    OBVIOUS
  <2>1. fifo[m] \in Seq(Entry) /\ Len(fifo[m]) \in Nat
    BY <1>type DEF TypeOK
  <2>2. Len(fifo[m]) = mpq[m].length + RetainedQ(mpq[m])
    BY <1>len DEF LengthMatchesFifo, Retained, RetainedQ
  <2>3. grant = m => Len(fifo[m]) > 0
    BY <1>2, <1>5, <2>2, <1>phase DEF ValidQ, PhaseOK, RetainedQ, One, Mpq
  <2> QED BY <2>1, <2>2, <2>3
<1>7. grant # None =>
        /\ new \in Task /\ new.msgid = grant /\ new.kind = mpq[grant].state
        /\ new.pkt = fifo[grant][1].pkt /\ new.meta = meta[grant]
        /\ new.trigger_feedback = pop
  <2> SUFFICES ASSUME grant # None
               PROVE  /\ new \in Task
                      /\ new.msgid = grant /\ new.kind = mpq[grant].state
                      /\ new.pkt = fifo[grant][1].pkt /\ new.meta = meta[grant]
                      /\ new.trigger_feedback = pop
    OBVIOUS
  <2>1. grant \in MPQ /\ Len(fifo[grant]) > 0 /\ fifo[grant] \in Seq(Entry)
    BY <1>2, <1>6
  <2>2. DataO(grant) = fifo[grant][1].pkt /\ DataO(grant) \in Pkt
    <3>1. Head(fifo[grant]) = fifo[grant][1] /\ fifo[grant][1] \in Entry
      BY <2>1
    <3> QED BY <3>1 DEF DataO, Entry
  <2>3. mpq[grant].state \in {"Header", "Payload", "Completion"}
    BY <1>2, <2>1 DEF ValidQ
  <2>4. meta[grant] \in Meta
    BY <2>1, ContextsAssumption, <1>type DEF TypeOK
  <2>5. pop \in BOOLEAN
    BY DEF FifoPop
  <2> HIDE DEF pop
  <2> QED BY <2>1, <2>2, <2>3, <2>4, <2>5 DEF NewTask, Task
<1>8. grant # None => \A t \in Outstanding : t.pkt # new.pkt
  <2> SUFFICES ASSUME grant # None, NEW t \in Outstanding, t.pkt = new.pkt
               PROVE  FALSE
    OBVIOUS
  <2>1. grant \in MPQ /\ t.msgid \in MPQ /\ 1 \in 1 .. Len(fifo[grant])
    BY <1>2, <1>3, <1>6 DEF Task
  <2>2. OwnerOK(t) /\ fifo[grant][1].pkt = t.pkt
    BY <1>owner, <1>7
  <2>3. ~t.trigger_feedback
    BY <2>1, <2>2 DEF OwnerOK
  <2>4. HeadKept(t.msgid) /\ 1 \in 1 .. Len(fifo[t.msgid])
        /\ fifo[t.msgid][1].pkt = t.pkt
    BY <1>6, <2>1, <2>2, <2>3 DEF OwnerOK
  <2>5. t.msgid = grant
    BY <2>1, <2>2, <2>4, <1>dist DEF DistinctOK
  <2> QED BY <1>2, <2>1, <2>4, <2>5 DEF HeadKept, ValidQ
<1>9. Outstanding' = (Outstanding \ {fb}) \cup (IF grant = None THEN {} ELSE {new})
  <2>1. running' = (running \cup (IF state_q # "Idle" /\ task_ready
                                  THEN {task_o} ELSE {})) \ {fb}
    BY DEF Cycle
  <2>2. task_o' = IF grant # None THEN new
                  ELSE IF state_q # "Idle" /\ task_ready THEN None ELSE task_o
    BY DEF Cycle
  <2>3. grant # None => new # None /\ (state_q # "Idle" => task_ready)
    BY <1>2, <1>7, NoneAssumption
  <2> HIDE DEF new
  <2> QED BY <1>3, <2>1, <2>2, <2>3, <1>out DEF Outstanding, OutputOK
<1> HIDE DEF new
\* Counting the outstanding tasks of one MPQ.
<1>10. \A m \in MPQ :
         /\ IsFiniteSet(Of(m))
         /\ Cardinality(Of(m)') = mpq[m].in_flight + One(snt(m)) - One(f(m))
         /\ f(m) => mpq[m].in_flight > 0
         /\ \A t \in Of(m) : f(m) /\ t # fb => mpq[m].in_flight > 1
  <2> SUFFICES ASSUME NEW m \in MPQ
               PROVE  /\ IsFiniteSet(Of(m))
                      /\ Cardinality(Of(m)') =
                           mpq[m].in_flight + One(snt(m)) - One(f(m))
                      /\ f(m) => mpq[m].in_flight > 0
                      /\ \A t \in Of(m) : f(m) /\ t # fb => mpq[m].in_flight > 1
    OBVIOUS
  <2>1. IsFiniteSet(Of(m))
    <3>1. IsFiniteSet({task_o})
      BY FS_Singleton
    <3>2. IsFiniteSet(running \cup {task_o})
      BY <3>1, FS_Union, <1>out DEF OutputOK
    <3>3. Of(m) \subseteq running \cup {task_o}
      BY DEF Of, Outstanding
    <3> QED BY <3>2, <3>3, FS_Subset
  <2>2. f(m) => fb \in Of(m)
    BY <1>3 DEF FeedbackOf, Of
  <2>3. grant = m => new \notin Of(m)
    BY <1>2, <1>8, NoneAssumption DEF Of
  <2>4. Of(m)' = (Of(m) \ (IF f(m) THEN {fb} ELSE {}))
                    \cup (IF grant = m THEN {new} ELSE {})
    <3>1. grant = m => new.msgid = m /\ grant # None
      BY <1>7, NoneAssumption
    <3>2. grant # None => new.msgid = grant
      BY <1>7
    <3>3. \A t \in Outstanding : t # None
      BY <1>3
    <3> QED BY <1>9, <3>1, <3>2, <3>3 DEF Of, FeedbackOf
  <2>5. PICK x : x \notin Of(m) /\ (grant = m => x = new)
    <3>1. CASE grant = m
      BY <2>3, <3>1
    <3>2. CASE grant # m
      <4>1. None \notin Of(m)
        BY <1>3 DEF Of
      <4> QED BY <3>2, <4>1
    <3> QED BY <3>1, <3>2
  <2>6. Of(m)' = (Of(m) \ (IF f(m) THEN {fb} ELSE {}))
                    \cup (IF snt(m) THEN {x} ELSE {})
    BY <2>4, <2>5
  <2>7. mpq[m].in_flight = Cardinality(Of(m))
    BY <1>count DEF InFlightExact
  <2>8. f(m) \in BOOLEAN /\ snt(m) \in BOOLEAN
    BY <1>4
  <2> DEFINE S   == Of(m)
             T   == (S \ (IF f(m) THEN {fb} ELSE {}))
                      \cup (IF snt(m) THEN {x} ELSE {})
  <2>9. x \notin S /\ IsFiniteSet(S) /\ (f(m) => fb \in S)
    BY <2>1, <2>2, <2>5
  <2> HIDE DEF f, S, snt
  <2>10. T = (S \ (IF f(m) THEN {fb} ELSE {})) \cup (IF snt(m) THEN {x} ELSE {})
    OBVIOUS
  <2> HIDE DEF T
  <2>11. /\ Cardinality(T) = Cardinality(S) + One(snt(m)) - One(f(m))
         /\ f(m) => Cardinality(S) > 0
         /\ \A z \in S : f(m) /\ z # fb => Cardinality(S) > 1
    BY <2>8, <2>9, <2>10, SwapCardinality
  <2> QED BY <2>1, <2>6, <2>7, <2>11 DEF S, T
<1>11. \A m \in MPQ : mpq'[m] \in Mpq /\ PhaseOK(mpq'[m])
  <2> SUFFICES ASSUME NEW m \in MPQ PROVE mpq'[m] \in Mpq /\ PhaseOK(mpq'[m])
    OBVIOUS
  <2>1. /\ mpq[m] \in Mpq /\ h(m) \in Her \cup {None} /\ f(m) \in BOOLEAN
        /\ snt(m) \in BOOLEAN /\ PhaseOK(mpq[m])
        /\ snt(m) => ValidQ(mpq[m])
        /\ f(m) => mpq[m].in_flight > 0
        /\ mpq'[m] = Fsm(mpq[m], h(m), snt(m), f(m))
    BY <1>phase, <1>2, <1>4, <1>5, <1>10
  <2> HIDE DEF h, f, snt
  <2> QED BY <2>1, FsmStep
<1>12. InFlightExact'
  <2>1. \A m \in MPQ : mpq'[m].in_flight
                         = mpq[m].in_flight + One(snt(m)) - One(f(m))
    <3> SUFFICES ASSUME NEW m \in MPQ
                 PROVE  mpq'[m].in_flight
                          = mpq[m].in_flight + One(snt(m)) - One(f(m))
      OBVIOUS
    <3>1. /\ mpq[m] \in Mpq /\ h(m) \in Her \cup {None} /\ f(m) \in BOOLEAN
          /\ snt(m) \in BOOLEAN
          /\ mpq'[m] = Fsm(mpq[m], h(m), snt(m), f(m))
      BY <1>4, <1>5
    <3> HIDE DEF h, f, snt
    <3> QED BY <3>1, FsmFields
  <2> QED BY <1>10, <2>1 DEF InFlightExact
<1>13. ~Overlap => \A m \in MPQ : QuietOK(mpq'[m])
  <2> SUFFICES ASSUME ~Overlap, NEW m \in MPQ PROVE QuietOK(mpq'[m])
    OBVIOUS
  <2>1. /\ mpq[m] \in Mpq /\ h(m) \in Her \cup {None} /\ f(m) \in BOOLEAN
        /\ snt(m) \in BOOLEAN /\ PhaseOK(mpq[m]) /\ QuietOK(mpq[m])
        /\ snt(m) => ValidQ(mpq[m])
        /\ h(m) # None => ~mpq[m].eom_seen
        /\ mpq'[m] = Fsm(mpq[m], h(m), snt(m), f(m))
    BY <1>phase, <1>quiet, <1>1, <1>2, <1>4, <1>5
  <2> HIDE DEF h, f, snt
  <2> QED BY <2>1, FsmQuiet
\* The queues after the cycle, position by position.
<1> DEFINE i(m) == One(Pop(m))
           j(m) == One(h(m) # None)
<1>14. \A m \in MPQ : /\ i(m) \in {0, 1} /\ j(m) \in {0, 1} /\ i(m) <= Len(fifo[m])
                      /\ i(m) = 1 <=> Pop(m)
                      /\ j(m) = 1 <=> her # None /\ her.id = m
  BY <1>1, <1>2, <1>4, <1>6, NoneAssumption DEF One
<1>15. \A m \in MPQ :
         /\ fifo'[m] \in Seq(Entry)
         /\ Len(fifo'[m]) = Len(fifo[m]) + j(m) - i(m)
         /\ \A k \in 1 .. Len(fifo'[m]) :
              \/ j(m) = 1 /\ k = Len(fifo'[m]) /\ fifo'[m][k].pkt = her.pkt
              \/ /\ k + i(m) \in 1 .. Len(fifo[m])
                 /\ fifo'[m][k] = fifo[m][k + i(m)]
  <2> SUFFICES ASSUME NEW m \in MPQ
               PROVE  /\ fifo'[m] \in Seq(Entry)
                      /\ Len(fifo'[m]) = Len(fifo[m]) + j(m) - i(m)
                      /\ \A k \in 1 .. Len(fifo'[m]) :
                           \/ /\ j(m) = 1 /\ k = Len(fifo'[m])
                              /\ fifo'[m][k].pkt = her.pkt
                           \/ /\ k + i(m) \in 1 .. Len(fifo[m])
                              /\ fifo'[m][k] = fifo[m][k + i(m)]
    OBVIOUS
  <2> DEFINE e == [pkt |-> her.pkt, static |-> StaticOccup(m) < NUM_STATIC]
             r == IF Pop(m) THEN Tail(fifo[m]) ELSE fifo[m]
  <2>1. FifoCycle(her, IF pop THEN grant ELSE None)
    BY DEF Cycle
  <2>2. m = (IF pop THEN grant ELSE None) <=> Pop(m)
    BY NoneAssumption
  <2> HIDE DEF pop
  <2>3. fifo'[m] = IF her # None /\ her.id = m THEN Append(r, e) ELSE r
    BY <2>1, <2>2 DEF FifoCycle
  <2>4. j(m) = 1 => e \in Entry /\ e.pkt = her.pkt
    BY <1>1, <1>14 DEF Entry
  <2>5. /\ i(m) = 1 => r = Tail(fifo[m])
        /\ i(m) = 0 => r = fifo[m]
    BY <1>14
  <2>6. /\ j(m) = 1 => fifo'[m] = Append(r, e)
        /\ j(m) = 0 => fifo'[m] = r
    BY <1>14, <2>3
  <2>7. fifo[m] \in Seq(Entry) /\ i(m) \in {0, 1} /\ j(m) \in {0, 1}
        /\ i(m) <= Len(fifo[m])
    BY <1>6, <1>14
  <2>8. /\ fifo'[m] \in Seq(Entry)
        /\ Len(fifo'[m]) = Len(fifo[m]) + j(m) - i(m)
        /\ \A k \in 1 .. Len(fifo'[m]) :
             \/ j(m) = 1 /\ k = Len(fifo'[m]) /\ fifo'[m][k] = e
             \/ k + i(m) \in 1 .. Len(fifo[m]) /\ fifo'[m][k] = fifo[m][k + i(m)]
    <3> DEFINE sq == fifo[m]
               t  == fifo'[m]
    <3> HIDE DEF i, j, e, r, sq, t
    <3>1. Len(sq) \in Nat /\ sq \in Seq(Entry) /\ i(m) <= Len(sq)
      BY <1>6, <2>7 DEF sq
    <3>2. /\ r \in Seq(Entry) /\ Len(r) = Len(sq) - i(m)
          /\ \A k \in 1 .. Len(r) : k + i(m) \in 1 .. Len(sq) /\ r[k] = sq[k + i(m)]
      <4>1. CASE i(m) = 1
        <5>1. r = Tail(sq) /\ Len(sq) > 0
          BY <2>5, <3>1, <4>1 DEF sq
        <5> QED BY <3>1, <4>1, <5>1, TailPositions
      <4>2. CASE i(m) = 0
        <5>1. r = sq
          BY <2>5, <4>2 DEF sq
        <5> QED BY <3>1, <4>2, <5>1
      <4> QED BY <2>7, <4>1, <4>2
    <3>3. Len(r) \in Nat
      BY <3>2
    <3>4. /\ t \in Seq(Entry) /\ Len(t) = Len(r) + j(m)
          /\ \A k \in 1 .. Len(t) : \/ j(m) = 1 /\ k = Len(t) /\ t[k] = e
                                    \/ k \in 1 .. Len(r) /\ t[k] = r[k]
      <4>1. CASE j(m) = 1
        <5>1. t = Append(r, e) /\ e \in Entry
          BY <2>4, <2>6, <4>1 DEF t
        <5> QED BY <3>2, <3>3, <4>1, <5>1, AppendPositions
      <4>2. CASE j(m) = 0
        <5>1. t = r
          BY <2>6, <4>2 DEF t
        <5> QED BY <3>2, <3>3, <4>2, <5>1
      <4> QED BY <2>7, <4>1, <4>2
    <3>5. Len(t) = Len(sq) + j(m) - i(m)
      BY <2>7, <3>1, <3>2, <3>4
    <3>6. \A k \in 1 .. Len(t) :
             \/ j(m) = 1 /\ k = Len(t) /\ t[k] = e
             \/ k + i(m) \in 1 .. Len(sq) /\ t[k] = sq[k + i(m)]
      BY <3>2, <3>4
    <3> QED BY <3>4, <3>5, <3>6 DEF sq, t
  <2> HIDE DEF i, j, e
  <2> QED BY <2>4, <2>8
<1>16. LengthMatchesFifo'
  <2> SUFFICES ASSUME NEW m \in MPQ
               PROVE  Len(fifo'[m]) = mpq'[m].length + RetainedQ(mpq'[m])
    BY DEF LengthMatchesFifo, Retained, RetainedQ
  <2> DEFINE q == mpq[m]
             g == mpq'[m]
  <2>1. /\ q \in Mpq /\ h(m) \in Her \cup {None} /\ f(m) \in BOOLEAN
        /\ snt(m) \in BOOLEAN /\ PhaseOK(q) /\ (snt(m) => ValidQ(q))
        /\ g = Fsm(q, h(m), snt(m), f(m))
    BY <1>phase, <1>2, <1>4, <1>5
  <2>2. i(m) = One(snt(m) /\ FifoPop(q, g))
    BY <1>5, NoneAssumption DEF One
  <2>3. Len(fifo'[m]) = q.length + RetainedQ(q) + j(m) - i(m)
    <3> HIDE DEF i, j
    <3> QED BY <1>6, <1>15
  <2>4. g.length + RetainedQ(g)
          = q.length + RetainedQ(q) + One(h(m) # None) - One(snt(m) /\ FifoPop(q, g))
    <3> HIDE DEF h, f, snt, q, g
    <3> QED BY <2>1, FsmLength
  <2>5. j(m) = One(h(m) # None)
    OBVIOUS
  <2> HIDE DEF i, j, q, g, h, snt
  <2> QED BY <2>2, <2>3, <2>4, <2>5 DEF q, g
<1> HIDE DEF i, j, d
\* Queued packets keep their order; the new one comes last.
<1>17. \A m \in MPQ : \A k \in 1 .. Len(fifo[m]) :
         k > i(m) => /\ k - i(m) \in 1 .. Len(fifo'[m])
                     /\ fifo'[m][k - i(m)] = fifo[m][k]
  <2> SUFFICES ASSUME NEW m \in MPQ, NEW k \in 1 .. Len(fifo[m]), k > i(m)
               PROVE  /\ k - i(m) \in 1 .. Len(fifo'[m])
                      /\ fifo'[m][k - i(m)] = fifo[m][k]
    OBVIOUS
  <2>1. i(m) \in {0, 1} /\ j(m) \in {0, 1} /\ Len(fifo[m]) \in Nat
    BY <1>6, <1>14
  <2>2. Len(fifo'[m]) = Len(fifo[m]) + j(m) - i(m)
    BY <1>15
  <2>3. k - i(m) \in 1 .. Len(fifo'[m]) /\ (k - i(m)) + i(m) = k
        /\ ~(j(m) = 1 /\ k - i(m) = Len(fifo'[m]))
    BY <2>1, <2>2
  <2> QED BY <1>15, <2>3
<1>18. her # None => /\ Len(fifo'[her.id]) \in 1 .. Len(fifo'[her.id])
                     /\ fifo'[her.id][Len(fifo'[her.id])].pkt = her.pkt
  <2> SUFFICES ASSUME her # None
               PROVE  /\ Len(fifo'[her.id]) \in 1 .. Len(fifo'[her.id])
                      /\ fifo'[her.id][Len(fifo'[her.id])].pkt = her.pkt
    OBVIOUS
  <2>1. her.id \in MPQ /\ j(her.id) = 1 /\ i(her.id) \in {0, 1}
        /\ i(her.id) <= Len(fifo[her.id]) /\ Len(fifo[her.id]) \in Nat
    BY <1>1, <1>6, <1>14
  <2>2. Len(fifo'[her.id]) = Len(fifo[her.id]) + 1 - i(her.id)
    BY <1>15, <2>1
  <2>3. Len(fifo'[her.id]) \in 1 .. Len(fifo'[her.id])
    BY <2>1, <2>2
  <2> QED BY <1>15, <2>1, <2>2, <2>3
\* Seen from the packets: each queue entry is an old one or the new HER.
<1>19. \A m \in MPQ : \A k \in 1 .. Len(fifo'[m]) :
         \/ her # None /\ her.id = m /\ k = Len(fifo'[m]) /\ fifo'[m][k].pkt = her.pkt
         \/ /\ k + i(m) \in 1 .. Len(fifo[m])
            /\ fifo'[m][k].pkt = fifo[m][k + i(m)].pkt
            /\ fifo'[m][k].pkt \in held
  BY <1>14, <1>15, <1>held DEF HeldOK
<1>20. DistinctOK'
  <2>1. \A m, n \in MPQ : \A k \in 1 .. Len(fifo'[m]), l \in 1 .. Len(fifo'[n]) :
          fifo'[m][k].pkt = fifo'[n][l].pkt => m = n /\ k = l
    <3> SUFFICES ASSUME NEW m \in MPQ, NEW n \in MPQ, NEW k \in 1 .. Len(fifo'[m]),
                        NEW l \in 1 .. Len(fifo'[n]),
                        fifo'[m][k].pkt = fifo'[n][l].pkt
                 PROVE  m = n /\ k = l
      OBVIOUS
    <3>1. CASE her # None /\ her.pkt = fifo'[m][k].pkt
      BY <1>1, <1>19, <3>1
    <3>2. CASE ~(her # None /\ her.pkt = fifo'[m][k].pkt)
      <4>1. /\ k + i(m) \in 1 .. Len(fifo[m]) /\ l + i(n) \in 1 .. Len(fifo[n])
            /\ fifo[m][k + i(m)].pkt = fifo[n][l + i(n)].pkt
        BY <1>19, <3>2
      <4>2. m = n /\ k + i(m) = l + i(n)
        BY <4>1, <1>dist DEF DistinctOK
      <4> QED BY <1>14, <4>2
    <3> QED BY <3>1, <3>2
  <2>2. \A t, u \in Outstanding' : t.pkt = u.pkt => t = u
    <3> QED BY <1>8, <1>9, <1>dist DEF DistinctOK
  <2> QED BY <2>1, <2>2 DEF DistinctOK
<1>21. held' = (held \cup (IF her # None THEN {her.pkt} ELSE {}))
                \ (IF fb # None /\ fb.trigger_feedback THEN {fb.pkt} ELSE {})
  BY DEF Cycle
\* A released packet is in no queue and is no other task's.
<1>22. fb # None /\ fb.trigger_feedback =>
         /\ fb \in Outstanding
         /\ her # None => her.pkt # fb.pkt
         /\ \A m \in MPQ : \A k \in 1 .. Len(fifo'[m]) : fifo'[m][k].pkt # fb.pkt
         /\ \A t \in Outstanding' : t.pkt # fb.pkt
  <2> SUFFICES ASSUME fb # None, fb.trigger_feedback
               PROVE  /\ fb \in Outstanding
                      /\ her # None => her.pkt # fb.pkt
                      /\ \A m \in MPQ : \A k \in 1 .. Len(fifo'[m]) :
                           fifo'[m][k].pkt # fb.pkt
                      /\ \A t \in Outstanding' : t.pkt # fb.pkt
    OBVIOUS
  <2>1. fb \in Outstanding
    BY <1>3
  <2>2. fb.pkt \in held /\ (her # None => her.pkt # fb.pkt)
    BY <1>1, <2>1, <1>held DEF HeldOK
  <2>3. \A m \in MPQ : \A k \in 1 .. Len(fifo[m]) : fifo[m][k].pkt # fb.pkt
    BY <2>1, <1>owner DEF OwnerOK
  <2>4. \A m \in MPQ : \A k \in 1 .. Len(fifo'[m]) : fifo'[m][k].pkt # fb.pkt
    BY <1>19, <2>2, <2>3
  <2>5. \A t \in Outstanding' : t.pkt # fb.pkt
    <3> QED BY <1>8, <1>9, <2>1, <1>dist DEF DistinctOK
  <2> QED BY <2>1, <2>2, <2>4, <2>5
<1>23. HeldOK'
  <2>1. \A m \in MPQ : \A k \in 1 .. Len(fifo'[m]) : fifo'[m][k].pkt \in held'
    BY <1>19, <1>21, <1>22
  <2>2. \A t \in Outstanding' : t.pkt \in held'
    <3> SUFFICES ASSUME NEW t \in Outstanding' PROVE t.pkt \in held
      BY <1>21, <1>22
    <3>1. CASE t \in Outstanding
      BY <3>1, <1>held DEF HeldOK
    <3>2. CASE grant # None /\ t = new
      <4>1. grant \in MPQ /\ 1 \in 1 .. Len(fifo[grant])
        BY <1>2, <1>6, <3>2
      <4> QED BY <1>7, <3>2, <4>1, <1>held DEF HeldOK
    <3> QED BY <1>9, <3>1, <3>2
  <2>3. ASSUME NEW p \in held'
        PROVE  \/ \E m \in MPQ : \E k \in 1 .. Len(fifo'[m]) : fifo'[m][k].pkt = p
               \/ \E t \in Outstanding' : t.pkt = p /\ t.trigger_feedback
    <3>1. CASE her # None /\ p = her.pkt
      BY <1>1, <1>18, <3>1
    <3>2. CASE \E m \in MPQ : \E k \in 1 .. Len(fifo[m]) : fifo[m][k].pkt = p
      <4> PICK m \in MPQ : \E k \in 1 .. Len(fifo[m]) : fifo[m][k].pkt = p
        BY <3>2
      <4> PICK k \in 1 .. Len(fifo[m]) : fifo[m][k].pkt = p
        OBVIOUS
      <4>1. CASE k > i(m)
        BY <1>17, <4>1
      <4>2. CASE ~(k > i(m))
        <5>1. k = 1 /\ Pop(m)
          BY <1>6, <1>14, <4>2
        <5>2. grant # None /\ m = grant /\ pop
          BY <5>1
        <5>3. new.pkt = p /\ new.trigger_feedback
          BY <1>7, <5>1, <5>2
        <5> QED BY <1>9, <5>2, <5>3
      <4> QED BY <4>1, <4>2
    <3>3. CASE \E t \in Outstanding : t.pkt = p /\ t.trigger_feedback
      <4> PICK t \in Outstanding : t.pkt = p /\ t.trigger_feedback
        BY <3>3
      <4>1. t # fb
        BY <1>3, <1>21
      <4> QED BY <1>9, <4>1
    <3> QED BY <1>21, <3>1, <3>2, <3>3, <1>held DEF HeldOK
  <2> QED BY <2>1, <2>2, <2>3 DEF HeldOK
\* The state each MPQ moves to.
<1>24. \A m \in MPQ :
         /\ mpq[m].state \in MpqState
         /\ mpq'[m].state = FsmState(mpq[m], h(m), snt(m), f(m))
         /\ mpq[m].state # "Free" =>
              mpq'[m].has_completion = mpq[m].has_completion
         /\ mpq[m].state = "Free" /\ h(m) # None =>
              mpq'[m].has_completion = her.meta.th
         /\ snt(m) => ValidQ(mpq[m])
  <2> SUFFICES ASSUME NEW m \in MPQ
               PROVE  /\ mpq[m].state \in MpqState
                      /\ mpq'[m].state = FsmState(mpq[m], h(m), snt(m), f(m))
                      /\ mpq[m].state # "Free" =>
                           mpq'[m].has_completion = mpq[m].has_completion
                      /\ mpq[m].state = "Free" /\ h(m) # None =>
                           mpq'[m].has_completion = her.meta.th
                      /\ snt(m) => ValidQ(mpq[m])
    OBVIOUS
  <2>1. /\ mpq[m] \in Mpq /\ h(m) \in Her \cup {None} /\ f(m) \in BOOLEAN
        /\ snt(m) \in BOOLEAN /\ (h(m) # None => h(m) = her)
        /\ mpq'[m] = Fsm(mpq[m], h(m), snt(m), f(m))
        /\ snt(m) => ValidQ(mpq[m])
    BY <1>2, <1>4, <1>5
  <2> HIDE DEF h, f, snt
  <2>2. mpq[m].state \in MpqState
    BY <2>1 DEF Mpq
  <2> QED BY <2>1, <2>2, FsmFields
<1>25. \A m \in MPQ : MetaOK(m)'
  <2> SUFFICES ASSUME NEW m \in MPQ
               PROVE  /\ mpq'[m].state # "Free" =>
                           mpq'[m].has_completion = meta'[m].th
                      /\ mpq'[m].state = "Header" => meta'[m].hh
    BY DEF MetaOK
  <2>1. meta'[m] = IF h(m) # None /\ mpq[m].state = "Free"
                   THEN her.meta ELSE meta[m]
    BY DEF Cycle, MetaD, MpqBusy
  <2>2. h(m) # None => h(m) = her
    BY <1>4
  <2>3. MetaOK(m)
    BY <1>meta
  <2> HIDE DEF h, f, snt
  <2> QED BY <1>24, <2>1, <2>2, <2>3
       DEF MetaOK, FsmState, LastSent, Drained, ValidQ, MpqState
\* An old task that stays outstanding keeps its MPQ in the same phase: only
\* the feedback of the last task moves an MPQ on.
<1>26. ASSUME NEW t \in Outstanding, t # fb
       PROVE  /\ t.msgid \in MPQ
              /\ mpq[t.msgid].state = "Payload" =>
                   mpq'[t.msgid].state \in {"Payload", "PayloadDraining"}
              /\ mpq[t.msgid].state \in
                   {"HeaderRunning", "PayloadDraining", "CompletionRunning"} =>
                   mpq'[t.msgid].state = mpq[t.msgid].state /\ ~snt(t.msgid)
  <2> DEFINE m == t.msgid
  <2>1. m \in MPQ /\ t \in Of(m)
    BY <1>3 DEF Task, Of
  <2>2. PhaseOK(mpq[m]) /\ (f(m) => mpq[m].in_flight > 1)
    BY <1>phase, <1>10, <1>26, <2>1
  <2>3. mpq[m].state = "Payload" => mpq'[m].state \in {"Payload", "PayloadDraining"}
    <3> HIDE DEF h, f, snt, m
    <3> QED BY <1>24, <2>1 DEF FsmState
  <2>4. mpq[m].state \in {"HeaderRunning", "PayloadDraining", "CompletionRunning"} =>
          mpq'[m].state = mpq[m].state /\ ~snt(m)
    <3> HIDE DEF h, f, snt, m
    <3> QED BY <1>24, <2>1, <2>2 DEF FsmState, PhaseOK, ValidQ, Drained
  <2> QED BY <2>1, <2>3, <2>4
\* The granted MPQ moves to the phase of its new task.
<1>27. grant # None =>
         /\ grant \in MPQ
         /\ mpq[grant].state = "Header" => mpq'[grant].state = "HeaderRunning"
         /\ mpq[grant].state = "Payload" =>
              mpq'[grant].state \in {"Payload", "PayloadDraining"}
         /\ mpq[grant].state = "Completion" =>
              mpq'[grant].state = "CompletionRunning"
         /\ mpq[grant].state \in {"Header", "Payload", "Completion"}
         /\ ~pop => HeadKept(grant)'
  <2> SUFFICES ASSUME grant # None
               PROVE  /\ grant \in MPQ
                      /\ mpq[grant].state = "Header" =>
                           mpq'[grant].state = "HeaderRunning"
                      /\ mpq[grant].state = "Payload" =>
                           mpq'[grant].state \in {"Payload", "PayloadDraining"}
                      /\ mpq[grant].state = "Completion" =>
                           mpq'[grant].state = "CompletionRunning"
                      /\ mpq[grant].state \in {"Header", "Payload", "Completion"}
                      /\ ~pop => HeadKept(grant)'
    OBVIOUS
  <2>1. grant \in MPQ /\ ValidQ(mpq[grant])
    BY <1>2
  <2>2. mpq'[grant].state = FsmState(mpq[grant], h(grant), TRUE, f(grant))
    BY <1>24, <2>1
  <2>3. pop <=> FifoPop(mpq[grant], mpq'[grant])
    BY <1>5, <2>1
  <2> HIDE DEF h, f, pop
  <2> QED BY <2>1, <2>2, <2>3 DEF ValidQ, FsmState, FifoPop, HeadKept
<1>28. \A t \in Outstanding' : KindOK(t)'
  <2> SUFFICES ASSUME NEW t \in Outstanding' PROVE KindOK(t)'
    OBVIOUS
  <2>1. CASE t \in Outstanding /\ t # fb
    BY <1>26, <2>1, <1>kind DEF KindOK
  <2>2. CASE grant # None /\ t = new
    <3>1. /\ t.kind = mpq[grant].state /\ t.msgid = grant /\ t.meta = meta[grant]
          /\ MetaOK(grant) /\ PhaseOK(mpq[grant])
      BY <1>meta, <1>phase, <1>7, <1>27, <2>2
    <3> QED BY <1>27, <2>2, <3>1 DEF KindOK, MetaOK, PhaseOK
  <2> QED BY <1>9, <2>1, <2>2
<1>29. \A t \in Outstanding' : OwnerOK(t)'
  <2> SUFFICES ASSUME NEW t \in Outstanding' PROVE OwnerOK(t)'
    OBVIOUS
  <2>1. CASE t \in Outstanding /\ t # fb
    <3>1. OwnerOK(t) /\ t.pkt \in held /\ t.msgid \in MPQ
      BY <1>held, <1>owner, <1>26, <2>1 DEF HeldOK
    <3>2. CASE t.trigger_feedback
      <4>1. \A m \in MPQ : \A k \in 1 .. Len(fifo'[m]) : fifo'[m][k].pkt # t.pkt
        BY <1>1, <1>19, <3>1, <3>2 DEF OwnerOK
      <4> QED BY <3>2, <4>1 DEF OwnerOK
    <3>3. CASE ~t.trigger_feedback
      <4>1. /\ HeadKept(t.msgid) /\ Len(fifo[t.msgid]) > 0
            /\ fifo[t.msgid][1].pkt = t.pkt
        BY <3>1, <3>3 DEF OwnerOK
      <4>2. ~snt(t.msgid) /\ HeadKept(t.msgid)'
        BY <1>24, <1>26, <2>1, <4>1 DEF HeadKept
      <4>3. i(t.msgid) = 0 /\ 1 \in 1 .. Len(fifo[t.msgid])
        BY <1>6, <1>14, <3>1, <4>1, <4>2
      <4>4. 1 \in 1 .. Len(fifo'[t.msgid]) /\ fifo'[t.msgid][1] = fifo[t.msgid][1]
        BY <1>17, <3>1, <4>3
      <4> QED BY <3>3, <4>1, <4>2, <4>4 DEF OwnerOK
    <3> QED BY <3>2, <3>3
  <2>2. CASE grant # None /\ t = new
    <3>1. /\ grant \in MPQ /\ 1 \in 1 .. Len(fifo[grant])
          /\ t.msgid = grant /\ t.pkt = fifo[grant][1].pkt
          /\ t.trigger_feedback = pop /\ t.pkt \in held
      <4>1. /\ grant \in MPQ /\ 1 \in 1 .. Len(fifo[grant])
            /\ t.msgid = grant /\ t.pkt = fifo[grant][1].pkt
            /\ t.trigger_feedback = pop
        BY <1>6, <1>7, <1>27, <2>2
      <4> QED BY <1>held, <4>1 DEF HeldOK
    <3>2. CASE pop
      <4>1. i(grant) = 1
        BY <1>14, <3>1, <3>2
      <4>2. ASSUME NEW m \in MPQ, NEW k \in 1 .. Len(fifo'[m])
            PROVE  fifo'[m][k].pkt # t.pkt
        <5>1. CASE her # None /\ fifo'[m][k].pkt = her.pkt
          BY <1>1, <3>1, <5>1
        <5>2. CASE /\ k + i(m) \in 1 .. Len(fifo[m])
                   /\ fifo'[m][k].pkt = fifo[m][k + i(m)].pkt
          <6>1. m # grant \/ k + i(m) # 1
            BY <4>1
          <6> QED BY <3>1, <5>2, <6>1, <1>dist DEF DistinctOK
        <5> QED BY <1>19, <5>1, <5>2
      <4>3. t.trigger_feedback
        BY <3>1, <3>2
      <4> QED BY <4>2, <4>3 DEF OwnerOK
    <3>3. CASE ~pop
      <4>1. i(grant) = 0
        BY <1>14, <3>1, <3>3
      <4>2. 1 \in 1 .. Len(fifo'[grant]) /\ fifo'[grant][1] = fifo[grant][1]
        BY <1>17, <3>1, <4>1
      <4>3. HeadKept(grant)' /\ ~t.trigger_feedback
        BY <1>27, <2>2, <3>1, <3>3
      <4> QED BY <3>1, <4>2, <4>3 DEF OwnerOK
    <3> QED BY <3>2, <3>3
  <2> QED BY <1>9, <2>1, <2>2
<1>30. OutputOK'
  <2> DEFINE taken == IF state_q # "Idle" /\ task_ready THEN {task_o} ELSE {}
  <2>1. /\ running' = (running \cup taken) \ {fb}
        /\ state_q' = OutputFsm(task_ready, grant)
        /\ task_o' = IF grant # None THEN new
                     ELSE IF taken = {} THEN task_o ELSE None
    BY DEF Cycle, new, d
  <2>2. taken \subseteq Outstanding /\ running \subseteq Outstanding
    BY <1>out DEF OutputOK, Outstanding
  <2>3. grant # None => new # None /\ new \notin Outstanding
    BY <1>7, <1>8, NoneAssumption
  <2>4. task_o' \notin running'
    <3> QED BY <1>3, <2>1, <2>2, <2>3, <1>out DEF OutputOK
  <2>5. state_q' = "Idle" <=> task_o' = None
    <3> QED BY <1>2, <2>1, <2>3, <1>out DEF OutputOK, OutputFsm
  <2>6. IsFiniteSet(running')
    <3>1. IsFiniteSet({task_o}) /\ IsFiniteSet(running)
      BY FS_Singleton, <1>out DEF OutputOK
    <3>2. IsFiniteSet(running \cup {task_o})
      BY <3>1, FS_Union
    <3>3. running' \subseteq running \cup {task_o}
      BY <2>1
    <3> QED BY <3>2, <3>3, FS_Subset
  <2> QED BY <2>4, <2>5, <2>6 DEF OutputOK
<1>31. TypeOK'
  <2>1. fifo' \in [MPQ -> Seq(Entry)]
    <3>1. fifo' = [m \in MPQ |-> fifo'[m]]
      BY DEF Cycle, FifoCycle
    <3> QED BY <1>15, <3>1
  <2>2. mpq' \in [MPQ -> Mpq]
    <3>1. mpq' = [m \in MPQ |-> mpq'[m]]
      BY DEF Cycle, MpqD
    <3> QED BY <1>11, <3>1
  <2>3. meta' \in [MPQ -> Contexts]
    BY <1>1, <1>type DEF Cycle, MetaD, HerOf, TypeOK
  <2>4. state_q' \in {"Idle", "Ready", "Stalled"}
    BY DEF Cycle, OutputFsm
  <2>5. Outstanding' \subseteq Task
    <3> QED BY <1>3, <1>7, <1>9
  <2>6. running' \subseteq Task /\ task_o' \in Task \cup {None}
    BY <2>5 DEF Outstanding
  <2>7. held' \subseteq Pkt
    BY <1>1, <1>21, <1>type DEF TypeOK
  <2> QED BY <2>1, <2>2, <2>3, <2>4, <2>6, <2>7 DEF TypeOK
<1>32. \A m \in MPQ : PhaseOK(mpq[m])'
  BY <1>11 DEF PhaseOK
<1>33. ~Overlap => \A m \in MPQ : QuietOK(mpq[m])'
  BY <1>13 DEF QuietOK
<1> QED BY <1>12, <1>16, <1>20, <1>23, <1>25, <1>28, <1>29, <1>30, <1>31,
           <1>32, <1>33 DEF IInv

\* So does any step: a cycle with any events, or none.
LEMMA NextInv == IInv /\ [Next]_vars => IInv'
<1> SUFFICES ASSUME IInv, [Next]_vars PROVE IInv'
  OBVIOUS
<1>1. CASE Next
  <2> PICK her \in Offered \cup {None}, fb \in running \cup {None} :
        \E task_ready \in BOOLEAN : \E grant \in Grants(task_ready) :
          Cycle(her, task_ready, grant, fb)
    BY <1>1 DEF Next
  <2> PICK task_ready \in BOOLEAN : \E grant \in Grants(task_ready) :
                                      Cycle(her, task_ready, grant, fb)
    OBVIOUS
  <2> PICK grant \in Grants(task_ready) : Cycle(her, task_ready, grant, fb)
    OBVIOUS
  <2> QED BY CycleInv
<1>2. CASE UNCHANGED vars
  <2>1. /\ fifo' = fifo /\ mpq' = mpq /\ meta' = meta /\ state_q' = state_q
        /\ task_o' = task_o /\ running' = running /\ held' = held
    BY <1>2 DEF vars
  <2>2. Outstanding' = Outstanding /\ \A m \in MPQ : Of(m)' = Of(m)
    BY <2>1 DEF Outstanding, Of
  <2>3. TypeOK' /\ OutputOK' /\ InFlightExact' /\ LengthMatchesFifo'
    BY <2>1, <2>2 DEF IInv, TypeOK, OutputOK, InFlightExact, LengthMatchesFifo, Retained
  <2>4. /\ \A m \in MPQ : PhaseOK(mpq[m])' /\ MetaOK(m)'
        /\ ~Overlap => \A m \in MPQ : QuietOK(mpq[m])'
    BY <2>1 DEF IInv, PhaseOK, MetaOK, QuietOK
  <2>5. \A t \in Outstanding' : KindOK(t)' /\ OwnerOK(t)'
    BY <2>1, <2>2 DEF IInv, KindOK, OwnerOK, HeadKept
  <2>6. DistinctOK' /\ HeldOK'
    BY <2>1, <2>2 DEF IInv, DistinctOK, HeldOK
  <2> QED BY <2>3, <2>4, <2>5, <2>6 DEF IInv
<1> QED BY <1>1, <1>2

\* The invariant of the engine holds in every reachable state.
LEMMA Invariance == Spec => []IInv
BY InitInv, NextInv, PTL DEF Spec

-----------------------------------------------------------------------------
(* The theorems *)

\* The counters never go below zero (the assertions negativelength and
\* negativeinflight of mpq_engine.sv) and every register keeps its type.
THEOREM TypeCorrect == Spec => []TypeOK
BY Invariance, PTL DEF IInv

\* Header before payload before completion, in every interleaving of HERs,
\* grants and feedbacks, also when they hit the same MPQ in the same cycle.
THEOREM HandlersOrdered == Spec => []HandlerOrder
<1>1. IInv => HandlerOrder
  <2> SUFFICES ASSUME IInv, NEW m \in MPQ, NEW t \in Of(m), NEW u \in Of(m),
                      t # u
               PROVE  t.kind = "Payload" /\ u.kind = "Payload"
    BY DEF HandlerOrder
  <2>1. /\ t \in Task /\ u \in Task /\ t.msgid = m /\ u.msgid = m
        /\ KindOK(t) /\ KindOK(u) /\ PhaseOK(mpq[m])
    BY DEF IInv, TypeOK, Outstanding, Of
  <2>2. mpq[m].in_flight = Cardinality(Of(m)) /\ mpq[m].in_flight \in Nat
    BY DEF IInv, InFlightExact, TypeOK, Mpq
  <2>3. IsFiniteSet(Of(m))
    <3>1. IsFiniteSet(running \cup {task_o})
      BY FS_Singleton, FS_Union DEF IInv, OutputOK
    <3>2. Of(m) \subseteq running \cup {task_o}
      BY DEF Of, Outstanding
    <3> QED BY <3>1, <3>2, FS_Subset
  <2>4. mpq[m].in_flight # 1
    <3> SUFFICES ASSUME Cardinality(Of(m)) = 1 PROVE FALSE
      BY <2>2
    <3>1. PICK x : Of(m) = {x}
      BY <2>3, FS_Singleton
    <3> QED BY <3>1
  <2> QED BY <2>1, <2>4 DEF KindOK, PhaseOK, Task
<1> QED BY <1>1, Invariance, PTL

\* in_flight is exact, so a message is drained exactly when its last payload
\* handler has reported back.
THEOREM InFlightIsExact == Spec => []InFlightExact
BY Invariance, PTL DEF IInv

\* The length counters and the FIFO engine agree.
THEOREM LengthIsExact == Spec => []LengthMatchesFifo
BY Invariance, PTL DEF IInv

\* The packet at a position of a queue is one of the packets the queue holds.
LEMMA QueuedMember ==
  ASSUME TypeOK, NEW p
  PROVE  p \in Queued <=> \E m \in MPQ : \E k \in 1 .. Len(fifo[m]) : fifo[m][k].pkt = p
<1>1. \A m \in MPQ : DOMAIN fifo[m] = 1 .. Len(fifo[m])
  BY DEF TypeOK
<1> QED BY <1>1 DEF Queued

\* A packet buffer returns to the NIC only after its last use.
THEOREM ReleasedLast == Spec => []NoUseAfterRelease
<1>1. IInv => NoUseAfterRelease
  BY QueuedMember DEF IInv, HeldOK, NoUseAfterRelease
<1> QED BY <1>1, Invariance, PTL

\* No packet buffer is leaked or released twice.
THEOREM PacketsOwed == Spec => []EveryPacketOwed
<1>1. IInv => EveryPacketOwed
  <2> SUFFICES ASSUME IInv, NEW p \in held
               PROVE  \/ p \in Queued /\ \A t \in Outstanding :
                            t.pkt = p => ~t.trigger_feedback
                      \/ /\ p \notin Queued
                         /\ \E t \in Outstanding :
                              /\ t.pkt = p /\ t.trigger_feedback
                              /\ \A u \in Outstanding : u.pkt = p => u = t
    BY DEF EveryPacketOwed
  <2>1. p \in Queued <=> \E m \in MPQ : \E k \in 1 .. Len(fifo[m]) : fifo[m][k].pkt = p
    BY QueuedMember DEF IInv
  <2>2. \A t \in Outstanding : t.pkt = p /\ t.trigger_feedback => p \notin Queued
    BY <2>1 DEF IInv, OwnerOK
  <2>3. p \in Queued \/ \E t \in Outstanding : t.pkt = p /\ t.trigger_feedback
    BY <2>1 DEF IInv, HeldOK
  <2> QED BY <2>2, <2>3 DEF IInv, DistinctOK
<1> QED BY <1>1, Invariance, PTL

\* Header and completion tasks exist only for contexts with such a handler.
THEOREM HandlersExist == Spec => []PhaseHasHandler
<1>1. IInv => PhaseHasHandler
  BY DEF IInv, PhaseHasHandler, KindOK
<1> QED BY <1>1, Invariance, PTL

\* If no HER reaches an MPQ whose message is already complete, the assertion
\* `nonempty' of mpq_engine.sv holds: nothing is left behind when all MPQs
\* are free.
THEOREM IdleIsEmpty ==
  ASSUME ~Overlap
  PROVE  Spec => []IdleMeansEmpty
<1>1. IInv => IdleMeansEmpty
  <2> SUFFICES ASSUME IInv, NEW m \in MPQ, mpq[m].state = "Free"
               PROVE  fifo[m] = << >>
    BY DEF IdleMeansEmpty, MpqBusy
  <2>1. mpq[m].length = 0
    BY DEF IInv, QuietOK
  <2>2. Retained(m) = 0
    BY DEF Retained, One
  <2>3. Len(fifo[m]) = 0
    BY <2>1, <2>2 DEF IInv, LengthMatchesFifo
  <2>4. fifo[m] \in Seq(Entry)
    BY DEF IInv, TypeOK
  <2> QED BY <2>3, <2>4
<1> QED BY <1>1, Invariance, PTL
=============================================================================
