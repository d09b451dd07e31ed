------------------------------ MODULE PktMatch ------------------------------
(***************************************************************************)
(* The packet matching engine (pspin_pkt_match.v).  It stores the first    *)
(* MATCHER_BEATS beats of a packet, matches them against the rule sets,    *)
(* sends the packet to PsPIN if a rule set matched and to the NIC          *)
(* otherwise, and then hands the metadata of a matched packet to the       *)
(* allocator.  A step is a clock cycle; a packet is the sequence of its    *)
(* beats and a beat is one 32-bit word; word 0 is the message ID.          *)
(***************************************************************************)
EXTENDS Integers, Sequences, Bitwise

CONSTANTS Packets,         \* packets that arrive
          MATCHER_BEATS,   \* beats looked at
          UMATCH_RULESETS, \* rule sets, and rules of each: the code indexes
          UMATCH_ENTRIES,  \*   the rules by set * UMATCH_RULESETS + rule
          Configs,         \* contents of the control registers
          BEAT,            \* bytes of a beat
          None

ASSUME MatcherAssumption ==
    /\ MATCHER_BEATS \in Nat \ {0, 1} /\ BEAT \in Nat \ {0}
    /\ UMATCH_RULESETS = UMATCH_ENTRIES /\ UMATCH_ENTRIES \in Nat \ {0, 1}

VARIABLES state, passthrough,                           \* FSM
          matcher, matcher_idx, last_idx, tready, rules, \* input side
          matched, ruleset, eom, msg_id,                 \* decision
          send, meta,                                    \* output registers
          tvalid, input,                                 \* RX FIFO
          pkt, pktRules, sent, metas                     \* history

fsm == <<state, passthrough, matcher, matcher_idx, last_idx, tready, rules, matched, ruleset, eom, msg_id>>
vars == <<fsm, send, meta, tvalid, input, pkt, pktRules, sent, metas>>

States == {"IDLE", "RECV", "RECV_WAIT", "RECV_LAST", "MATCH", "SEND", "SEND_WAIT",
           "SEND_LAST", "PASSTHROUGH", "META"}
Rulesets == 0 .. UMATCH_RULESETS - 1
Entries == 0 .. UMATCH_ENTRIES - 1
Beats == 0 .. MATCHER_BEATS - 1
ClearMatcher == [b \in Beats |-> 0]

\* The rules loaded while matching is off: no word is in 1 .. 0.
Disabled == [mode |-> [j \in Rulesets |-> "AND"],
             rule |-> [n \in 0 .. UMATCH_RULESETS * UMATCH_ENTRIES - 1 |->
                         [idx |-> 0, mask |-> 0, start |-> 1, end |-> 0]]]

-----------------------------------------------------------------------------
(* The matching units and the priority encoder: the lowest rule set that   *)
(* matches wins; the last rule of a set tells the end of a message.        *)
Unit(r, m) == LET data == m[r.idx] & r.mask IN r.start <= data /\ r.end >= data
mu_matched(R, m, j, i) == Unit(R.rule[j * UMATCH_RULESETS + i], m)
RulesetMatched(R, m, j) ==
    IF R.mode[j] = "AND" THEN \A i \in 0 .. UMATCH_ENTRIES - 2 : mu_matched(R, m, j, i)
    ELSE \E i \in 0 .. UMATCH_ENTRIES - 2 : mu_matched(R, m, j, i)
Matching(R, m) == {j \in Rulesets : RulesetMatched(R, m, j)}
Encode(R, m) == CHOOSE j \in Matching(R, m) : \A k \in Matching(R, m) : j <= k

-----------------------------------------------------------------------------
(* Signals of a cycle.  nic and psp say whether each sink is ready.        *)
do_pass == state = "PASSTHROUGH"
last == input # <<>> /\ Len(input) = 1
SendReady(nic, psp) == IF matched THEN psp ELSE nic
CombValid == IF do_pass THEN tvalid ELSE send.valid
CombLast == IF do_pass THEN last ELSE send.last
CombWord == IF do_pass THEN Head(input) ELSE send.word
FifoReady(nic, psp) == IF do_pass THEN SendReady(nic, psp) ELSE tready
Accepts == tvalid /\ tready
Emits(nic, psp) == CombValid /\ SendReady(nic, psp)
MetaAccepted(mr) == mr /\ meta.valid

Finished == IF matched THEN "META" ELSE "IDLE"
lastStored == matcher_idx = MATCHER_BEATS - 1

(* Next states. *)
AfterRecv_F1(otherwise) ==
    IF ~Accepts THEN otherwise ELSE IF last THEN "RECV_LAST" ELSE "RECV"
AfterRecv(otherwise) ==
    IF ~Accepts THEN otherwise ELSE IF last \/ lastStored THEN "RECV_LAST" ELSE "RECV"
AfterSend_F1(nic, psp) == IF last_idx = matcher_idx THEN "SEND_LAST" ELSE "SEND"
AfterSend(nic, psp) == IF ~Emits(nic, psp) THEN "SEND_WAIT"
                       ELSE IF last_idx = matcher_idx THEN "SEND_LAST" ELSE "SEND"
AfterSendLast(nic, psp) == IF ~Emits(nic, psp) THEN "SEND_LAST"
                           ELSE IF passthrough THEN "PASSTHROUGH" ELSE Finished
AfterPass(nic, psp) == IF Emits(nic, psp) /\ last THEN Finished ELSE "PASSTHROUGH"
AfterMeta_F1(mr) == "IDLE"
AfterMeta(mr) == IF MetaAccepted(mr) THEN "IDLE" ELSE "META"
NextState(nic, psp, mr) ==
    CASE state = "IDLE"                  -> AfterRecv("IDLE")
      [] state \in {"RECV", "RECV_WAIT"} -> AfterRecv("RECV_WAIT")
      [] state = "RECV_LAST"             -> "MATCH"
      [] state = "MATCH"                 -> IF last_idx = matcher_idx THEN "SEND_LAST" ELSE "SEND"
      [] state \in {"SEND", "SEND_WAIT"} -> AfterSend(nic, psp)
      [] state = "SEND_LAST"             -> AfterSendLast(nic, psp)
      [] state = "PASSTHROUGH"           -> AfterPass(nic, psp)
      [] state = "META"                  -> AfterMeta(mr)

NextPassthrough(nic, psp) ==
    IF state \in {"IDLE", "RECV", "RECV_WAIT"} THEN passthrough \/ (Accepts /\ ~last /\ lastStored)
    ELSE passthrough /\ ~(state = "PASSTHROUGH" /\ AfterPass(nic, psp) # "PASSTHROUGH")

-----------------------------------------------------------------------------
(* The registers, by the state the FSM enters. *)
NoSend == [valid |-> FALSE, word |-> 0, last |-> FALSE]
Loaded(conf) == IF conf = None THEN Disabled ELSE conf
Reset(d, conf) ==
    /\ matcher' = ClearMatcher /\ matcher_idx' = 0 /\ last_idx' = 0
    /\ matched' = FALSE /\ send' = NoSend
    /\ tready' = (d = "IDLE")
    /\ rules' = Loaded(conf)
    /\ UNCHANGED <<ruleset, eom, msg_id>>
Store(d) ==
    /\ matcher' = [matcher EXCEPT ![matcher_idx] = Head(input)]
    /\ matcher_idx' = IF d = "RECV" THEN matcher_idx + 1 ELSE 0
    /\ last_idx' = IF d = "RECV" THEN last_idx ELSE matcher_idx
    /\ tready' = (d = "RECV")
    /\ msg_id' = matcher[0]
    /\ UNCHANGED <<rules, matched, ruleset, eom, send>>
Match_F1 ==
    /\ matched' = (Matching(rules, matcher) # {})
    /\ ruleset' = IF matched' THEN Encode(rules, matcher) ELSE 0
    /\ eom' = (matched' /\ mu_matched(rules, matcher, ruleset', UMATCH_ENTRIES - 1))
    /\ UNCHANGED <<matcher, matcher_idx, last_idx, tready, rules, msg_id, send>>
Match ==
    /\ matched' = (Matching(rules, matcher) # {})
    /\ ruleset' = IF matched' THEN Encode(rules, matcher) ELSE 0
    /\ eom' = (matched' /\ mu_matched(rules, matcher, ruleset', UMATCH_ENTRIES - 1))
    /\ msg_id' = matcher[0]
    /\ UNCHANGED <<matcher, matcher_idx, last_idx, tready, rules, send>>
Load(d, pass) ==
    /\ send' = [valid |-> TRUE, word |-> matcher[matcher_idx],
                last |-> send.last \/ (d = "SEND_LAST" /\ ~pass)]
    /\ matcher_idx' = IF d = "SEND" THEN matcher_idx + 1 ELSE matcher_idx
    /\ UNCHANGED <<matcher, last_idx, tready, rules, matched, ruleset, eom, msg_id>>
Registers(d, pass, conf) ==
    CASE d \in {"META", "IDLE"}      -> Reset(d, conf)
      [] d \in {"RECV", "RECV_LAST"} -> Store(d)
      [] d = "MATCH"                 -> Match
      [] d \in {"SEND", "SEND_LAST"} -> Load(d, pass)
      [] OTHER -> UNCHANGED <<matcher, matcher_idx, last_idx, tready, rules, matched, ruleset,
                              eom, msg_id, send>>

\* Metadata: whole beats are counted, and valid is raised with the last one.
NextMeta_F1(nic, psp, mr) ==
    IF state = "IDLE" THEN [valid |-> FALSE, size |-> 0]
    ELSE [valid |-> /\ ~MetaAccepted(mr)
                    /\ IF Emits(nic, psp) /\ send.last THEN matched ELSE meta.valid,
          size  |-> meta.size + (IF Emits(nic, psp) THEN BEAT ELSE 0)]
NextMeta(nic, psp, mr) ==
    IF state = "IDLE" THEN [valid |-> FALSE, size |-> 0]
    ELSE [valid |-> /\ ~MetaAccepted(mr)
                    /\ IF Emits(nic, psp) /\ CombLast THEN matched ELSE meta.valid,
          size  |-> meta.size + (IF Emits(nic, psp) THEN BEAT ELSE 0)]

\* The RX FIFO shows a beat until it is taken; v tells whether the next beat,
\* of this packet or of another one, is there in the next cycle.
Taken(nic, psp) == tvalid /\ FifoReady(nic, psp)
Rx(nic, psp, v) ==
    LET rest == IF Taken(nic, psp) THEN Tail(input) ELSE input
    IN  /\ input' \in IF rest = <<>> /\ v THEN Packets ELSE {rest}
        /\ tvalid' = ((tvalid /\ ~Taken(nic, psp)) \/ v)

History(nic, psp, mr) ==
    LET starts == state = "IDLE" /\ Accepts
    IN  /\ pkt' = IF starts THEN input ELSE pkt
        /\ pktRules' = IF starts THEN rules ELSE pktRules
        /\ sent' = IF starts THEN <<>>
                   ELSE IF Emits(nic, psp)
                        THEN Append(sent, [word |-> CombWord, last |-> CombLast, pspin |-> matched])
                        ELSE sent
        /\ metas' = IF starts THEN 0 ELSE metas + (IF MetaAccepted(mr) THEN 1 ELSE 0)

Cycle(nic, psp, mr, conf, v) ==
    LET d == NextState(nic, psp, mr)
        pass == NextPassthrough(nic, psp)
    IN  /\ state' = d /\ passthrough' = pass
        /\ Registers(d, pass, conf)
        /\ meta' = NextMeta(nic, psp, mr)
        /\ Rx(nic, psp, v)
        /\ History(nic, psp, mr)

Init ==
    /\ state = "IDLE" /\ passthrough = FALSE
    /\ matcher = ClearMatcher /\ matcher_idx = 0 /\ last_idx = 0
    /\ tready = TRUE /\ rules = Disabled
    /\ matched = FALSE /\ ruleset = 0 /\ eom = FALSE /\ msg_id = 0
    /\ send = NoSend /\ meta = [valid |-> FALSE, size |-> 0]
    /\ tvalid = FALSE /\ input = <<>>
    /\ pkt = <<>> /\ pktRules = Disabled /\ sent = <<>> /\ metas = 0

Next == \E nic, psp, mr, v \in BOOLEAN, conf \in Configs \cup {None} :
            Cycle(nic, psp, mr, conf, v)

Spec == Init /\ [][Next]_vars

\* Each sink and the allocator is ready again and again, and the NIC goes on
\* with a packet it has begun.
Conf == Configs \cup {None}
NicReady == \E psp, mr, v \in BOOLEAN, conf \in Conf : Cycle(TRUE, psp, mr, conf, v)
PspinReady == \E nic, mr, v \in BOOLEAN, conf \in Conf : Cycle(nic, TRUE, mr, conf, v)
MetaReady == \E nic, psp, v \in BOOLEAN, conf \in Conf : Cycle(nic, psp, TRUE, conf, v)
BeatThere == \E nic, psp, mr \in BOOLEAN, conf \in Conf : Cycle(nic, psp, mr, conf, TRUE)
FairSpec == /\ Spec
            /\ WF_vars(NicReady) /\ WF_vars(PspinReady)
            /\ WF_vars(MetaReady) /\ WF_vars(BeatThere)

-----------------------------------------------------------------------------
\* The shape of the registers.
TypeOK ==
    /\ state \in States /\ passthrough \in BOOLEAN
    /\ matcher \in [Beats -> Nat] /\ matcher_idx \in Beats /\ last_idx \in Beats
    /\ tready \in BOOLEAN /\ rules \in Configs \cup {Disabled}
    /\ matched \in BOOLEAN /\ ruleset \in Rulesets /\ eom \in BOOLEAN /\ msg_id \in Nat
    /\ send \in [valid : BOOLEAN, word : Nat, last : BOOLEAN]
    /\ meta \in [valid : BOOLEAN, size : Nat]
    /\ tvalid \in BOOLEAN

\* What the rules in force at a packet's first beat say of its first beats:
\* the decision must not depend on a later write to the control registers.
Header(q) == [b \in Beats |-> IF b < Len(q) THEN q[b + 1] ELSE 0]
ForPspin == Matching(pktRules, Header(pkt)) # {}

\* Every beat of a packet leaves once, in order, with the last one marked,
\* and all of them on the side the rules choose.
PacketIntact ==
    /\ Len(sent) <= Len(pkt)
    /\ \A i \in 1 .. Len(sent) : sent[i] = [word |-> pkt[i], last |-> i = Len(pkt), pspin |-> ForPspin]

\* The metadata the allocator sees is that of a matched packet, all of which
\* has been sent: size in whole beats, message ID, rule set and end of message.
MetaExact ==
    meta.valid => /\ ForPspin /\ Len(sent) = Len(pkt)
                  /\ meta.size = BEAT * Len(pkt)
                  /\ msg_id = pkt[1]
                  /\ ruleset \in Matching(pktRules, Header(pkt))
                  /\ \A j \in 0 .. ruleset - 1 : ~RulesetMatched(pktRules, Header(pkt), j)
                  /\ eom = mu_matched(pktRules, Header(pkt), ruleset, UMATCH_ENTRIES - 1)

\* When the engine is idle the whole last packet has left, and its metadata
\* has been taken once if it was for PsPIN and never otherwise.
IdleMeansDone ==
    state = "IDLE" => Len(sent) = Len(pkt) /\ metas = (IF ForPspin /\ pkt # <<>> THEN 1 ELSE 0)

\* A packet that has begun ends: no beat is waited for that does not come.
PacketEnds == (state # "IDLE") ~> (state = "IDLE")
=============================================================================
