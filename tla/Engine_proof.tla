---------------------------- MODULE Engine_proof ----------------------------
(***************************************************************************)
(* Proofs about Engine, for any traffic, rules, quotas and failures: that  *)
(* a Block rule is final; that the engine drives its delay queue as module *)
(* DelayQueue says, so that what is proved there holds here; and what a    *)
(* stop, a failure of either thread and a restart leave behind, and what   *)
(* the user is told of it.                                                 *)
(***************************************************************************)
EXTENDS Engine, FiniteSetTheorems, TLAPS

-----------------------------------------------------------------------------
(***************************************************************************)
(* The gate.  A thread about to call the driver holds it and has found the *)
(* packet in its hand allowed; the receive thread also holds it while it   *)
(* queues.  The threads are off while the UI thread starts them.           *)
(***************************************************************************)
Sender == {"recv", "send"}
Places ==
  /\ DOMAIN pc = Thread /\ DOMAIN after = Thread
  /\ \A t \in Sender : after[t] \notin {"check", "filter", "admit", "io", "queue"}
  /\ after["ui"] # "spawn"
Allowed(p) == ~p.loopback => ~global.block /\ ~RuleOf(p).block

GateInv ==
  /\ Places
  /\ \A t \in Sender : pc[t] = "io" => gate = t /\ Allowed(InHand(t))
  /\ pc["recv"] = "queue" => gate = "recv"
  /\ pc["ui"] = "open" => pc["recv"] = "off" /\ pc["send"] = "off"
  /\ pc["ui"] = "spawn" => pc["recv"] = "off"

LEMMA GateInit == Init => GateInv
<1> SUFFICES ASSUME Init PROVE GateInv
  OBVIOUS
<1>1. /\ pc = [t \in Thread |-> IF t = "ui" THEN "idle" ELSE "off"]
      /\ after = [t \in Thread |-> "idle"]
  BY DEF Init
<1>2. Places
  BY <1>1 DEF Places, Thread, Sender
<1>3. pc["recv"] = "off" /\ pc["send"] = "off" /\ pc["ui"] = "idle"
  BY <1>1 DEF Thread
<1> QED BY <1>2, <1>3 DEF GateInv, Sender

\* A step that leaves the gate, the rules and the packets in hand alone, and takes no thread
\* to the driver, to the queue or to a start.
Calm ==
  /\ UNCHANGED <<gate, ruleVars>> /\ Places'
  /\ \A t \in Sender : pc'[t] = "io" => pc[t] = "io" /\ InHand(t)' = InHand(t)
  /\ pc'["recv"] = "queue" => pc["recv"] = "queue"
  /\ pc'["ui"] = "open" => pc["ui"] = "open" /\ pc'["recv"] = pc["recv"] /\ pc'["send"] = pc["send"]
  /\ pc'["ui"] = "spawn" => pc["ui"] = "spawn" /\ pc'["recv"] = pc["recv"]

LEMMA CalmOK == GateInv /\ Calm => GateInv'
<1> SUFFICES ASSUME GateInv, Calm PROVE GateInv'
  OBVIOUS
<1>1. ASSUME NEW p PROVE Allowed(p)' = Allowed(p)
  BY DEF Calm, ruleVars, Allowed, RuleOf
<1>2. ASSUME NEW t \in Sender, pc'[t] = "io" PROVE gate' = t /\ Allowed(InHand(t))'
  <2>1. gate = t /\ Allowed(InHand(t)) /\ gate' = gate /\ InHand(t)' = InHand(t)
    BY <1>2 DEF GateInv, Calm
  <2> QED BY <2>1 DEF Calm, ruleVars, Allowed, RuleOf
<1> QED BY <1>2 DEF GateInv, Calm

LEMMA FailCalm ==
  ASSUME GateInv, NEW t \in Thread, Mark(t) \/ Close(t) \/ Unblock(t) PROVE Calm
<1>1. CASE Mark(t)
  BY <1>1 DEF Mark, Goto, Calm, GateInv, Places, Sender, Thread, InHand, ruleVars, queueVars
<1>2. CASE Close(t)
  BY <1>2 DEF Close, Goto, Calm, GateInv, Places, Sender, Thread, InHand, ruleVars, queueVars
<1>3. CASE Unblock(t)
  BY <1>3 DEF Unblock, Goto, Calm, GateInv, Places, Sender, Thread, InHand, ruleVars, queueVars
<1> QED BY <1>1, <1>2, <1>3

LEMMA RecvCalm ==
  ASSUME GateInv,
         \/ \E k \in Kind : Receive(k)
         \/ ReceiveError \/ RecvCheck \/ RecvEnd
         \/ \E k \in Kind : \E found \in {k.pid, NoPid} : RecvFilter(k, found)
  PROVE  Calm
<1> USE DEF Calm, GateInv, Places, Sender, Thread, InHand, ruleVars, queueVars
<1>1. ASSUME NEW k \in Kind, Receive(k) PROVE Calm
  BY <1>1 DEF Receive, Goto
<1>2. CASE ReceiveError
  BY <1>2 DEF ReceiveError, Goto
<1>3. CASE RecvCheck
  BY <1>3 DEF RecvCheck, Goto
<1>4. CASE RecvEnd
  BY <1>4 DEF RecvEnd, GotoNotifying
<1>5. ASSUME NEW k \in Kind, NEW found, RecvFilter(k, found) PROVE Calm
  BY <1>5 DEF RecvFilter, Goto
<1> QED BY <1>1, <1>2, <1>3, <1>4, <1>5

LEMMA SendCalm ==
  ASSUME GateInv, SendWake \/ SendTurn \/ SendFinish \/ SendDiscard PROVE Calm
<1> USE DEF Calm, GateInv, Places, Sender, Thread, InHand, ruleVars, Goto
<1>1. CASE SendWake
  BY <1>1 DEF SendWake, queueVars
<1>2. CASE SendTurn
  BY <1>2 DEF SendTurn
<1>3. CASE SendFinish
  BY <1>3 DEF SendFinish
<1>4. CASE SendDiscard
  BY <1>4 DEF SendDiscard
<1> QED BY <1>1, <1>2, <1>3, <1>4

LEMMA UiCalm ==
  ASSUME GateInv,
         \/ ApplyRunning \/ ApplySync \/ Start \/ Stop \/ RequestStop \/ Drain
         \/ ShutdownRecv \/ SpawnRecv \/ Snapshot \/ Tell \/ Tick
  PROVE  Calm
<1> USE DEF Calm, GateInv, Places, Sender, Thread, InHand, ruleVars, Goto
<1>1. CASE ApplyRunning
  BY <1>1 DEF ApplyRunning, queueVars
<1>2. CASE ApplySync
  BY <1>2 DEF ApplySync, queueVars
<1>3. CASE Start
  BY <1>3 DEF Start, StopFor, queueVars
<1>4. CASE Stop
  BY <1>4 DEF Stop, StopFor, queueVars
<1>5. CASE RequestStop
  BY <1>5 DEF RequestStop, queueVars
<1>6. CASE Drain
  BY <1>6 DEF Drain, ReleaseAll, DQ!ReleaseMatching, GotoNotifying
<1>7. CASE ShutdownRecv
  BY <1>7 DEF ShutdownRecv, queueVars
<1>8. CASE SpawnRecv
  BY <1>8 DEF SpawnRecv, queueVars
<1>9. CASE Snapshot
  BY <1>9 DEF Snapshot, queueVars
<1>10. CASE Tell
  BY <1>10 DEF Tell, queueVars
<1>11. CASE Tick
  BY <1>11 DEF Tick, DQ!Tick, DQ!queueVars, threadVars
<1> QED BY <1>1, <1>2, <1>3, <1>4, <1>5, <1>6, <1>7, <1>8, <1>9, <1>10, <1>11

\* What a step that keeps the rules keeps of Allowed.
LEMMA AllowedKept == UNCHANGED ruleVars => \A p : Allowed(p)' = Allowed(p)
BY DEF ruleVars, Allowed, RuleOf

\* While a thread is about to call the driver the gate is not free, nor another's.
LEMMA GateFree == GateInv /\ gate = Free => \A t \in Sender : pc[t] # "io"
BY DEF GateInv, Free, Sender

LEMMA FlushGate == ASSUME GateInv, NEW t \in Thread, Flush(t) PROVE GateInv'
<1> USE DEF Places, Sender, Thread, Free
<1>1. /\ pc' = [pc EXCEPT ![t] = AfterFail(t),
                          !["send"] = IF pc["send"] = "asleep" THEN "awake" ELSE @]
      /\ pc[t] = "flush" /\ after' = after /\ inbound' = inbound /\ in_hand' = in_hand
      /\ gate' = IF gate = t THEN Free ELSE gate
      /\ UNCHANGED ruleVars
  BY DEF Flush, GotoNotifying, ReleaseAll, DQ!ReleaseMatching
<1>2. AfterFail(t) \notin {"io", "queue", "open", "spawn"} \/ t \in Sender
  BY DEF AfterFail
<1>3. t \in Sender => AfterFail(t) \notin {"io", "queue"}
  BY DEF AfterFail, GateInv
<1>4. Places'
  BY <1>1 DEF GateInv
<1>5. ASSUME NEW s \in Sender, pc'[s] = "io" PROVE gate' = s /\ Allowed(InHand(s))'
  <2>1. pc[s] = "io" /\ s # t
    BY <1>1, <1>3, <1>5 DEF GateInv
  <2>2. gate' = s /\ Allowed(InHand(s)) /\ InHand(s)' = InHand(s)
    BY <1>1, <2>1 DEF GateInv, InHand
  <2> QED BY <1>1, <2>2 DEF ruleVars, Allowed, RuleOf
<1>6. pc'["recv"] = "queue" => gate' = "recv"
  BY <1>1, <1>3 DEF GateInv
<1>7. pc'["ui"] = pc["ui"] \/ pc'["ui"] = "join"
  BY <1>1 DEF AfterFail, GateInv
<1>8. /\ pc'["ui"] = "open" => pc'["recv"] = "off" /\ pc'["send"] = "off"
      /\ pc'["ui"] = "spawn" => pc'["recv"] = "off"
  BY <1>1, <1>7 DEF GateInv
<1> QED BY <1>4, <1>5, <1>6, <1>8 DEF GateInv

LEMMA SendCheckGate == ASSUME GateInv, NEW t \in Sender, SendCheck(t) PROVE GateInv'
<1> USE DEF Places, Sender, Thread
<1>1. \A s \in Sender : pc[s] # "io"
  BY GateFree DEF SendCheck
<1>2. UNCHANGED <<ruleVars, inbound, in_hand, after>> /\ pc[t] = "send" /\ gate = Free
  BY DEF SendCheck, queueVars
<1>3. AfterSend(t) \in {"recv", "finish"}
  BY DEF AfterSend
<1>4. CASE Goto(t, AfterSend(t)) /\ UNCHANGED gate
  BY <1>1, <1>2, <1>3, <1>4 DEF GateInv, Goto
<1>5. CASE gate' = t /\ Goto(t, "io") /\ ~Blocks(InHand(t))
  <2>1. Allowed(InHand(t))
    BY <1>5 DEF Allowed, Blocks, GlobalBlocks, ProcessBlocks
  <2>2. Allowed(InHand(t))'
    BY <1>2, <2>1 DEF Allowed, RuleOf, InHand, ruleVars
  <2> QED BY <1>1, <1>2, <1>5, <2>2 DEF GateInv, Goto, Free
<1> QED BY <1>4, <1>5 DEF SendCheck

LEMMA SendIoGate == ASSUME GateInv, NEW t \in Sender, SendIo(t) PROVE GateInv'
<1> USE DEF Places, Sender, Thread
<1>1. UNCHANGED <<ruleVars, inbound, in_hand>> /\ pc[t] = "io" /\ gate = t
  BY DEF SendIo, queueVars, GateInv
<1>2. /\ \A s \in Sender : pc[s] = "io" => s = t
      /\ pc["recv"] = "queue" => t = "recv"
  BY <1>1 DEF GateInv
<1>3. AfterSend(t) \in {"recv", "finish"}
  BY DEF AfterSend
<1>4. PICK place \in {"recv", "finish", "mark"} :
        /\ Goto(t, place)
        /\ \/ after' = after
           \/ \E back \in {"recv", "finish", "end", "discard"} : after' = [after EXCEPT ![t] = back]
  BY <1>3 DEF SendIo
<1>5. Places'
  BY <1>4 DEF GateInv, Goto
<1>6. /\ \A s \in Sender : pc'[s] # "io"
      /\ pc'["recv"] # "queue"
      /\ pc'["ui"] = pc["ui"]
      /\ \A s \in Sender : pc[s] = "off" => pc'[s] = "off"
  BY <1>1, <1>2, <1>4 DEF GateInv, Goto
<1> QED BY <1>5, <1>6 DEF GateInv

LEMMA RecvGate == ASSUME GateInv, RecvAdmit \/ RecvQueue PROVE GateInv'
<1> USE DEF Places, Sender, Thread
<1>1. CASE RecvAdmit
  <2>1. \A s \in Sender : pc[s] # "io"
    BY <1>1, GateFree DEF RecvAdmit
  <2> QED BY <1>1, <2>1 DEF GateInv, RecvAdmit, Goto
<1>2. CASE RecvQueue
  <2>1. \A s \in Sender : pc[s] # "io"
    BY <1>2 DEF GateInv, RecvQueue
  <2>2. \E place \in {"recv", "send"} : Goto("recv", place) \/ GotoNotifying("recv", place)
    BY <1>2 DEF RecvQueue
  <2>3. after' = after /\ pc["recv"] = "queue"
    BY <1>2 DEF RecvQueue
  <2> QED BY <2>1, <2>2, <2>3 DEF GateInv, Goto, GotoNotifying
<1> QED BY <1>1, <1>2

LEMMA ChangeGate ==
  ASSUME GateInv, NEW r, NEW g, NEW revised, Change(r, g, revised) PROVE GateInv'
<1> USE DEF Places, Sender, Thread
<1>1. \A s \in Sender : pc[s] # "io"
  BY GateFree DEF Change
<1>2. Goto("ui", "applied") \/ GotoNotifying("ui", "applied")
  BY DEF Change
<1>3. after' = after /\ gate' = gate /\ pc["ui"] = "idle"
  BY DEF Change
<1> QED BY <1>1, <1>2, <1>3 DEF GateInv, Goto, GotoNotifying

LEMMA StartGate == ASSUME GateInv, Stopped \/ Open PROVE GateInv'
<1> USE DEF Places, Sender, Thread
<1>1. CASE Stopped
  BY <1>1 DEF GateInv, Stopped
<1>2. CASE Open
  BY <1>2 DEF GateInv, Open, Goto
<1> QED BY <1>1, <1>2

LEMMA GateStep == GateInv /\ [Next]_vars => GateInv'
<1> SUFFICES ASSUME GateInv, [Next]_vars PROVE GateInv'
  OBVIOUS
<1>1. ASSUME NEW t \in Thread, Fail(t) PROVE GateInv'
  BY <1>1, FailCalm, CalmOK, FlushGate DEF Fail
<1>2. CASE \E k \in Kind : Receive(k)
  BY <1>2, RecvCalm, CalmOK
<1>3. CASE RecvStep
  BY <1>3, <1>1, RecvCalm, CalmOK, RecvGate, SendCheckGate, SendIoGate
     DEF RecvStep, Sender, Thread
<1>4. CASE SendStep
  BY <1>4, <1>1, SendCalm, CalmOK, SendCheckGate, SendIoGate DEF SendStep, Sender, Thread
<1>5. CASE UiStep
  BY <1>5, <1>1, UiCalm, CalmOK, StartGate DEF UiStep, Thread
<1>6. CASE Operation
  BY <1>6, UiCalm, CalmOK, ChangeGate DEF Operation, UpdateRule, SetGlobalRule, ClearRules
<1>7. CASE Tick
  BY <1>7, UiCalm, CalmOK
<1>8. CASE UNCHANGED vars
  BY <1>8, CalmOK DEF vars, Calm, GateInv, Places, Sender, InHand, ruleVars, queueVars, threadVars
<1> QED BY <1>2, <1>3, <1>4, <1>5, <1>6, <1>7, <1>8 DEF Next

\* Packets are sent by one action.
LEMMA OnlyIoSends == Next => sent' \subseteq sent \/ \E t \in Sender : SendIo(t)
<1>1. ASSUME NEW t \in Thread, Fail(t) PROVE sent' = sent
  BY <1>1 DEF Fail, Mark, Close, Unblock, Flush, countVars
<1>2. ASSUME NEW t \in Thread, SendCheck(t) PROVE sent' = sent
  BY <1>2 DEF SendCheck
<1>3. CASE (\E k \in Kind : Receive(k)) \/ ReceiveError \/ RecvCheck \/ RecvAdmit \/ RecvQueue
             \/ RecvEnd \/ \E k \in Kind : \E found \in {k.pid, NoPid} : RecvFilter(k, found)
  BY <1>3 DEF Receive, ReceiveError, RecvCheck, RecvAdmit, RecvQueue, RecvEnd, RecvFilter,
              countVars
<1>4. CASE SendWake \/ SendTurn \/ SendFinish \/ SendDiscard
  BY <1>4 DEF SendWake, SendTurn, SendFinish, SendDiscard, countVars
<1>5. CASE ApplyRunning \/ ApplySync \/ RequestStop \/ Drain \/ ShutdownRecv \/ Stopped
             \/ Open \/ SpawnRecv \/ Tell
  BY <1>5 DEF ApplyRunning, ApplySync, RequestStop, Drain, ShutdownRecv, Stopped, Open,
              ResetCounters, SpawnRecv, Tell, countVars
<1>6. CASE Operation \/ Tick
  BY <1>6 DEF Operation, UpdateRule, SetGlobalRule, ClearRules, Change, Start, Stop, Snapshot,
              Tick, countVars
<1> QED BY <1>1, <1>2, <1>3, <1>4, <1>5, <1>6
          DEF Next, RecvStep, SendStep, UiStep, Sender, Thread

(***************************************************************************)
(* A Block rule is final: no packet it covers is sent after the change of  *)
(* the rules, wherever it was when the rule was set (engine.rs: "Final     *)
(* Block check", send_gate).                                               *)
(***************************************************************************)
THEOREM BlockFinal == Spec => BlockIsFinal
<1>1. ASSUME GateInv, NEW t \in Sender, SendIo(t), NEW p \in sent' \ sent PROVE Allowed(p)
  BY <1>1 DEF SendIo, GateInv
<1>2. Next => sent' \subseteq sent \/ \E t \in Sender : SendIo(t)
  BY OnlyIoSends
<1>3. GateInv /\ [Next]_vars
        => [\A p \in sent' \ sent : ~p.loopback => ~global.block /\ ~RuleOf(p).block]_vars
  BY <1>1, <1>2 DEF Allowed
<1> QED BY <1>3, GateInit, GateStep, PTL DEF Spec, BlockIsFinal

-----------------------------------------------------------------------------
(***************************************************************************)
(* The queue.  What the receive thread queues is a packet, captured in the *)
(* past, and the delays of the rules are numbers.                          *)
(***************************************************************************)
DelayOption == Nat \cup {None}
InboundInv ==
  /\ now \in Nat /\ processed \in Nat
  /\ global.delay \in DelayOption /\ \A p \in Pid : rules[p].delay \in DelayOption
  /\ pc["recv"] \in {"check", "filter", "admit", "queue"}
       => inbound.packet \in Packet /\ inbound.at \in 0 .. now

LEMMA InboundInit == Init => InboundInv
<1> SUFFICES ASSUME Init PROVE InboundInv
  OBVIOUS
<1>1. /\ pc = [t \in Thread |-> IF t = "ui" THEN "idle" ELSE "off"]
      /\ rules = [p \in Pid |-> NoRule] /\ global = NoRule /\ processed = 0 /\ now = 0
  BY DEF Init, DQ!Init
<1>2. pc["recv"] = "off"
  BY <1>1 DEF Thread
<1> QED BY <1>1, <1>2 DEF InboundInv, NoRule, DelayOption

\* A step that leaves the clock, the rules and the captured packet alone, and takes the
\* receive thread nowhere before its queueing.
Quiet ==
  /\ UNCHANGED <<now, ruleVars, inbound>> /\ processed' \in Nat
  /\ pc'["recv"] \in {"check", "filter", "admit", "queue"}
       => pc["recv"] \in {"check", "filter", "admit", "queue"}

LEMMA QuietOK == InboundInv /\ Quiet => InboundInv'
BY DEF InboundInv, Quiet, ruleVars

LEMMA InboundRecv ==
  ASSUME GateInv, InboundInv,
         (\E k \in Kind : Receive(k)) \/ RecvStep
  PROVE  InboundInv'
<1> USE DEF GateInv, Places, Sender, Thread
<1>1. ASSUME NEW k \in Kind, Receive(k) PROVE InboundInv'
  <2>1. processed + 1 \in 1 .. MaxArrivals
    BY <1>1, BoundAssumption DEF InboundInv, Receive
  <2>2. Captured(k, processed + 1, NoPid) \in Packet
    BY <2>1 DEF Packet
  <2>3. inbound'.packet \in Packet /\ inbound'.at \in 0 .. now
    BY <1>1, <2>2 DEF Receive, InboundInv
  <2> QED BY <1>1, <2>3 DEF Receive, InboundInv, ruleVars
<1>2. ASSUME NEW k \in Kind, NEW found \in {k.pid, NoPid}, RecvFilter(k, found)
      PROVE  InboundInv'
  <2>1. inbound.packet \in Packet /\ inbound.at \in 0 .. now
    BY <1>2 DEF RecvFilter, InboundInv
  <2>2. PICK j \in Kind, id \in 1 .. MaxArrivals, pid \in Pid \cup {NoPid} :
          inbound.packet = Captured(j, id, pid)
    BY <2>1 DEF Packet
  <2>3. processed = id
    BY <1>2, <2>2 DEF RecvFilter, Captured
  <2>4. found \in Pid \cup {NoPid}
    BY DEF Pid
  <2>5. Captured(k, processed, found) \in Packet
    BY <2>3, <2>4 DEF Packet
  <2>6. inbound' = [inbound EXCEPT !.packet = Captured(k, processed, found)]
    BY <1>2 DEF RecvFilter
  <2>7. UNCHANGED <<now, ruleVars, processed>>
    BY <1>2 DEF RecvFilter
  <2>8. inbound'.at = inbound.at
    BY <2>6
  <2>9. inbound'.packet = Captured(k, processed, found) \/ inbound' = inbound
    BY <2>6
  <2> HIDE DEF GateInv
  <2> QED BY <2>1, <2>5, <2>7, <2>8, <2>9 DEF InboundInv, ruleVars
<1>3. CASE ReceiveError \/ RecvCheck \/ RecvAdmit \/ RecvEnd
  <2>1. Quiet
    BY <1>3 DEF Quiet, InboundInv, ReceiveError, RecvCheck, RecvAdmit, RecvEnd, Goto,
                GotoNotifying, countVars
  <2> QED BY <2>1, QuietOK
<1>4. CASE RecvQueue
  <2>1. Quiet
    BY <1>4 DEF Quiet, InboundInv, RecvQueue, Goto, GotoNotifying, DQ!Enqueue
  <2> QED BY <2>1, QuietOK
<1>5. CASE SendCheck("recv") \/ SendIo("recv")
  <2>1. Quiet
    BY <1>5 DEF Quiet, InboundInv, SendCheck, SendIo, AfterSend, Goto
  <2> QED BY <2>1, QuietOK
<1>6. CASE Fail("recv")
  <2>1. CASE Mark("recv") \/ Close("recv") \/ Unblock("recv")
    <3>1. Quiet
      BY <2>1 DEF Mark, Close, Unblock, Quiet, InboundInv, Goto, countVars
    <3> QED BY <3>1, QuietOK
  <2>2. CASE Flush("recv")
    <3>1. /\ pc' = [pc EXCEPT !["recv"] = after["recv"],
                              !["send"] = IF pc["send"] = "asleep" THEN "awake" ELSE @]
          /\ UNCHANGED <<now, ruleVars, inbound, processed>>
      BY <2>2 DEF Flush, GotoNotifying, AfterFail, ReleaseAll, DQ!ReleaseMatching, countVars
    <3>2. pc'["recv"] = after["recv"]
      BY <3>1
    <3>3. Quiet
      BY <3>1, <3>2 DEF Quiet, InboundInv
    <3> QED BY <3>3, QuietOK
  <2> QED BY <1>6, <2>1, <2>2 DEF Fail
<1> QED BY <1>1, <1>2, <1>3, <1>4, <1>5, <1>6 DEF RecvStep

LEMMA InboundChange ==
  ASSUME GateInv, InboundInv, Operation PROVE InboundInv'
<1> USE DEF Places, Thread
<1>1. ASSUME NEW r, NEW g, NEW revised, Change(r, g, revised),
             g.delay \in DelayOption, \A p \in Pid : r[p].delay \in DelayOption
      PROVE  InboundInv'
  <2>1. UNCHANGED <<now, inbound, processed>> /\ rules' = r /\ global' = g
    BY <1>1 DEF Change, DQ!ReleaseMatching, countVars
  <2>2. pc'["recv"] = pc["recv"]
    BY <1>1 DEF Change, Goto, GotoNotifying, GateInv
  <2> QED BY <1>1, <2>1, <2>2 DEF InboundInv
<1>2. ASSUME NEW S, NEW rule \in Rule, UpdateRule(S, rule) PROVE InboundInv'
  <2>1. rule.delay \in DelayOption
    BY RuleAssumption DEF DelayOption, None
  <2>2. \A p \in Pid : [q \in Pid |-> IF q \in S THEN rule ELSE rules[q]][p].delay \in DelayOption
    BY <2>1 DEF InboundInv
  <2>3. global.delay \in DelayOption
    BY DEF InboundInv
  <2> QED BY <1>1, <1>2, <2>2, <2>3 DEF UpdateRule
<1>3. ASSUME NEW rule \in GlobalRule, SetGlobalRule(rule) PROVE InboundInv'
  <2>1. rule.delay \in DelayOption
    BY RuleAssumption DEF DelayOption, None
  <2> QED BY <1>1, <1>3, <2>1 DEF SetGlobalRule, InboundInv
<1>4. CASE ClearRules
  <2>1. NoRule.delay \in DelayOption /\ \A p \in Pid : [q \in Pid |-> NoRule][p].delay \in DelayOption
    BY DEF NoRule, DelayOption
  <2> QED BY <1>1, <1>4, <2>1 DEF ClearRules
<1>5. CASE Start \/ Stop \/ Snapshot
  <2>1. Quiet
    BY <1>5 DEF Start, Stop, Snapshot, StopFor, Goto, Quiet, InboundInv, GateInv, countVars
  <2> QED BY <2>1, QuietOK
<1> QED BY <1>2, <1>3, <1>4, <1>5 DEF Operation

LEMMA InboundStep == GateInv /\ InboundInv /\ [Next]_vars => InboundInv'
<1> SUFFICES ASSUME GateInv, InboundInv, [Next]_vars PROVE InboundInv'
  OBVIOUS
<1> USE DEF Places, Thread
<1>1. CASE (\E k \in Kind : Receive(k)) \/ RecvStep
  BY <1>1, InboundRecv
<1>2. CASE SendStep
  <2>1. CASE SendWake \/ SendTurn \/ SendFinish \/ SendDiscard
    <3>1. Quiet
      BY <2>1 DEF SendWake, SendTurn, SendFinish, SendDiscard, Quiet, InboundInv, GateInv, Goto,
                  countVars, DQ!Pop, DQ!Finish, DiscardPending, DQ!Clear
    <3> QED BY <3>1, QuietOK
  <2>2. CASE SendCheck("send") \/ SendIo("send")
    <3>1. Quiet
      BY <2>2 DEF SendCheck, SendIo, Quiet, InboundInv, GateInv, Goto, AfterSend
    <3> QED BY <3>1, QuietOK
  <2>3. CASE Fail("send")
    <3>1. Quiet
      BY <2>3 DEF Fail, Mark, Close, Unblock, Flush, Quiet, InboundInv, GateInv, Goto,
                  GotoNotifying, countVars, ReleaseAll, DQ!ReleaseMatching
    <3> QED BY <3>1, QuietOK
  <2> QED BY <1>2, <2>1, <2>2, <2>3 DEF SendStep
<1>3. CASE UiStep
  <2>1. CASE ApplyRunning \/ ApplySync \/ RequestStop \/ Drain \/ ShutdownRecv \/ Tell
    <3>1. Quiet
      BY <2>1 DEF ApplyRunning, ApplySync, RequestStop, Drain, ShutdownRecv, Tell, Quiet,
                  InboundInv, GateInv, Goto, GotoNotifying, countVars, ReleaseAll,
                  DQ!ReleaseMatching
    <3> QED BY <3>1, QuietOK
  <2>2. CASE Stopped
    <3>1. Quiet
      BY <2>2 DEF Stopped, Quiet, InboundInv, DiscardPending, DQ!Clear
    <3> QED BY <3>1, QuietOK
  <2>3. CASE Open
    <3>1. UNCHANGED <<now, ruleVars, inbound>> /\ pc'["recv"] = pc["recv"]
      BY <2>3 DEF Open, GateInv, Goto, ResetCounters, DQ!Clear
    <3>2. processed' = processed \/ processed' = 0
      BY <2>3 DEF Open, ResetCounters, countVars
    <3>3. Quiet
      BY <3>1, <3>2 DEF Quiet, InboundInv
    <3> QED BY <3>3, QuietOK
  <2>4. CASE SpawnRecv
    <3>1. Quiet
      BY <2>4 DEF SpawnRecv, Quiet, InboundInv, GateInv, Goto, countVars
    <3> QED BY <3>1, QuietOK
  <2>5. CASE Fail("ui")
    <3>1. Quiet
      BY <2>5 DEF Fail, Mark, Close, Unblock, Flush, Quiet, InboundInv, GateInv, Goto,
                  GotoNotifying, countVars, ReleaseAll, DQ!ReleaseMatching
    <3> QED BY <3>1, QuietOK
  <2> QED BY <1>3, <2>1, <2>2, <2>3, <2>4, <2>5 DEF UiStep
<1>4. CASE Operation
  BY <1>4, InboundChange
<1>5. CASE Tick
  BY <1>5 DEF Tick, DQ!Tick, InboundInv, ruleVars, countVars, threadVars
<1>6. CASE UNCHANGED vars
  BY <1>6 DEF vars, InboundInv, ruleVars, countVars, threadVars
<1> QED BY <1>1, <1>2, <1>3, <1>4, <1>5, <1>6 DEF Next

\* No delay is longer than the queue is told to expect.
LEMMA DelayRange == ASSUME InboundInv, NEW p PROVE Delay(p) \in 0 .. MaxDelay
<1> DEFINE d == Chosen(RuleOf(p).delay, global.delay)
<1>1. RuleOf(p).delay \in DelayOption /\ global.delay \in DelayOption
  BY DEF InboundInv, RuleOf, NoRule, DelayOption
<1>2. d \in Nat
  BY <1>1 DEF Chosen, DelayOption, None
<1> HIDE DEF d
<1>3. Capped(d) \in 0 .. MaxDelay /\ 0 \in 0 .. MaxDelay
  BY <1>2, BoundAssumption DEF Capped
<1> QED BY <1>3 DEF Delay, d

LEMMA ContractStep == GateInv /\ InboundInv /\ [Next]_vars => [DQ!Next]_(DQ!vars)
<1> SUFFICES ASSUME GateInv, InboundInv, [Next]_vars PROVE DQ!Next \/ UNCHANGED DQ!vars
  OBVIOUS
<1> USE DEF queueVars, DQ!vars, DQ!queueVars
<1>1. ASSUME NEW matched \in SUBSET {e.packet : e \in heap}, DQ!ReleaseMatching(matched)
      PROVE  DQ!Next
  BY <1>1 DEF DQ!Next
<1>2. ReleaseAll => DQ!Next
  BY <1>1 DEF ReleaseAll
<1>3. CASE \E t \in Thread : Fail(t)
  BY <1>2, <1>3 DEF Fail, Mark, Close, Unblock, Flush
<1>4. CASE (\E t \in Thread : SendCheck(t) \/ SendIo(t)) \/ \E k \in Kind : Receive(k)
  BY <1>4 DEF SendCheck, SendIo, Receive
<1>5. CASE ReceiveError \/ RecvCheck \/ RecvAdmit \/ RecvEnd \/ SendWake
           \/ \E k \in Kind : \E found \in {k.pid, NoPid} : RecvFilter(k, found)
  BY <1>5 DEF ReceiveError, RecvCheck, RecvFilter, RecvAdmit, RecvEnd, SendWake
<1>6. CASE RecvQueue
  <2> DEFINE p == inbound.packet
             deadline == IF draining THEN inbound.at ELSE inbound.at + Delay(p)
  <2>1. p \in Packet /\ inbound.at \in 0 .. now /\ now \in Nat
    BY <1>6 DEF RecvQueue, InboundInv
  <2>2. deadline \in 0 .. now + MaxDelay
    BY <2>1, DelayRange, BoundAssumption
  <2>3. DQ!Enqueue(p, deadline) => DQ!Next
    BY <2>1, <2>2 DEF DQ!Next
  <2> QED BY <1>6, <2>3 DEF RecvQueue
<1>7. CASE SendTurn
  BY <1>7 DEF SendTurn, DQ!Next
<1>8. CASE SendFinish
  BY <1>8 DEF SendFinish, DQ!Next
<1>9. CASE SendDiscard \/ Stopped
  BY <1>9 DEF SendDiscard, Stopped, DiscardPending, DQ!Next
<1>10. CASE Open
  BY <1>10 DEF Open, ResetCounters, DQ!Next
<1>11. CASE ApplyRunning \/ ApplySync \/ RequestStop \/ ShutdownRecv \/ SpawnRecv \/ Tell
            \/ Start \/ Stop \/ Snapshot
  BY <1>11 DEF ApplyRunning, ApplySync, RequestStop, ShutdownRecv, SpawnRecv, Tell, Start, Stop,
               Snapshot
<1>12. CASE Drain
  BY <1>2, <1>12 DEF Drain
<1>13. ASSUME NEW r, NEW g, NEW revised, Change(r, g, revised)
       PROVE  DQ!Next \/ UNCHANGED DQ!vars
  BY <1>1, <1>13 DEF Change
<1>14. CASE Tick
  BY <1>14 DEF Tick, DQ!Next
<1>15. CASE UNCHANGED vars
  BY <1>15 DEF vars
<1>16. CASE RecvStep
  BY <1>3, <1>4, <1>5, <1>6, <1>16 DEF RecvStep, Thread
<1>17. CASE SendStep
  BY <1>3, <1>4, <1>5, <1>7, <1>8, <1>9, <1>17 DEF SendStep, Thread
<1>18. CASE UiStep
  BY <1>3, <1>9, <1>10, <1>11, <1>12, <1>18 DEF UiStep, Thread
<1>19. CASE Operation
  BY <1>11, <1>13, <1>19 DEF Operation, UpdateRule, SetGlobalRule, ClearRules
<1> QED BY <1>4, <1>14, <1>15, <1>16, <1>17, <1>18, <1>19 DEF Next

(***************************************************************************)
(* The engine's queue takes the steps of the queue's own specification:    *)
(* packets it knows, delays within the limit, one entry popped at a time.  *)
(* That what is popped is finished is FinishedOnce, shown further on.      *)
(***************************************************************************)
LEMMA QueueRefined == Spec => DQ!Spec
<1>1. Init => DQ!Init
  BY DEF Init
<1> QED BY <1>1, GateInit, GateStep, InboundInit, InboundStep, ContractStep, PTL
        DEF Spec, DQ!Spec

(***************************************************************************)
(* Hence the invariants proved of the queue alone hold of it in the        *)
(* engine: its packets, constants and initial state are among those that   *)
(* the queue's proof is about, and so is each of the engine's steps.       *)
(***************************************************************************)
DQP == INSTANCE DelayQueue_proof WITH MaxSequence <- MaxArrivals

LEMMA QueueConstants == DQP!PacketAssumption /\ DQP!LimitsAssumption
<1>1. \A p \in Packet : p.bytes \in Nat
  BY KindAssumption DEF Packet, Captured
<1> QED BY <1>1, BoundAssumption DEF DQP!PacketAssumption, DQP!LimitsAssumption

LEMMA SameInit == DQ!Init => DQP!Init
BY DEF DQ!Init, DQP!Init, DQ!EmptyMap, DQP!EmptyMap, DQ!None, DQP!None, DQ!NoUsage, DQP!NoUsage

LEMMA SameNext == [DQ!Next]_(DQ!vars) => [DQP!Next]_(DQP!vars)
<1> USE DEF DQ!FlowOf, DQP!FlowOf, DQ!UsageOf, DQP!UsageOf, DQ!EmptyFlow, DQP!EmptyFlow,
            DQ!EmptyMap, DQP!EmptyMap, DQ!NoUsage, DQP!NoUsage, DQ!None, DQP!None,
            DQ!With, DQP!With, DQ!Without, DQP!Without, DQ!Later, DQP!Later,
            DQ!queueVars, DQP!queueVars, DQ!vars, DQP!vars
<1>1. ASSUME NEW p, NEW r, DQ!Enqueue(p, r) PROVE DQP!Enqueue(p, r)
  BY <1>1 DEF DQ!Enqueue, DQP!Enqueue, DQ!Admits, DQP!Admits, DQ!Room, DQP!Room, DQ!Queued,
              DQP!Queued, DQ!QueuedDeadline, DQP!QueuedDeadline
<1>2. ASSUME NEW e, DQ!Pop(e) PROVE DQP!Pop(e)
  BY <1>2 DEF DQ!Pop, DQP!Pop, DQ!IsHead, DQP!IsHead, DQ!Before, DQP!Before, DQ!Popped, DQP!Popped
<1>3. ASSUME NEW e, DQ!Finish(e) PROVE DQP!Finish(e)
  BY <1>3 DEF DQ!Finish, DQP!Finish, DQ!Finished, DQP!Finished
<1>4. ASSUME NEW S, DQ!ReleaseMatching(S) PROVE DQP!ReleaseMatching(S)
  <2> USE DEF DQ!Stamp, DQP!Stamp, DQ!UpTo, DQP!UpTo, DQ!SameFlow, DQP!SameFlow,
              DQ!Max, DQP!Max
  <2>1. ASSUME NEW e PROVE DQ!Rebuilt(e, S) = DQP!Rebuilt(e, S)
    BY DEF DQ!Rebuilt, DQP!Rebuilt
  <2>2. ASSUME NEW f PROVE DQ!RebuiltTail(f, S) = DQP!RebuiltTail(f, S)
    BY DEF DQ!RebuiltTail, DQP!RebuiltTail
  <2>3. ASSUME NEW e PROVE DQ!Released(e, S) = DQP!Released(e, S)
    BY <2>1 DEF DQ!Released, DQP!Released
  <2> QED BY <1>4, <2>2, <2>3 DEF DQ!ReleaseMatching, DQP!ReleaseMatching
<1>5. DQ!Clear => DQP!Clear
  BY DEF DQ!Clear, DQP!Clear
<1>6. DQ!Tick => DQP!Tick
  BY DEF DQ!Tick, DQP!Tick
<1> QED BY <1>1, <1>2, <1>3, <1>4, <1>5, <1>6 DEF DQ!Next, DQP!Next

LEMMA QueueInit == DQ!Init => DQP!IInv
BY SameInit, QueueConstants, DQP!InitOK

LEMMA QueueStep == DQP!IInv /\ [DQ!Next]_(DQ!vars) => DQP!IInv'
BY SameNext, QueueConstants, DQP!StepOK
LEMMA QueueInductive == Spec => []DQP!IInv
<1>1. Init => DQ!Init
  BY DEF Init
<1> QED BY <1>1, GateInit, GateStep, InboundInit, InboundStep, ContractStep, QueueInit, QueueStep,
           PTL DEF Spec

(***************************************************************************)
(* In the running engine the packets of a flow wait in the order they were *)
(* captured, the quotas hold, and nothing stays counted that is neither    *)
(* waiting nor with the send thread.                                       *)
(***************************************************************************)
THEOREM QueueKept == Spec => [](DQ!FlowOrder /\ DQ!WithinLimits /\ DQ!CountsExact)
<1>1. ASSUME DQP!IInv PROVE DQ!FlowOrder
  BY <1>1 DEF DQP!IInv, DQP!Order, DQ!FlowOrder, DQ!SameFlow, DQP!SameFlow
<1>2. ASSUME DQP!IInv PROVE DQ!WithinLimits
  BY <1>2 DEF DQP!IInv, DQP!WithinLimits, DQ!WithinLimits
<1>3. ASSUME DQP!IInv PROVE DQ!CountsExact
  BY <1>3 DEF DQP!IInv, DQP!CountsExact, DQ!CountsExact, DQ!Held, DQP!Held, DQ!Cardinality,
              DQP!Cardinality
<1> QED BY <1>1, <1>2, <1>3, QueueInductive, PTL

-----------------------------------------------------------------------------
(***************************************************************************)
(* The flags.  A failure is under way, or the queue drains, only while the *)
(* engine stops; what a failing thread does next; and which threads there  *)
(* are at all.                                                             *)
(***************************************************************************)
FlagInv ==
  /\ draining => stopping
  /\ aborted => error /\ stopping
  /\ \A t \in Thread : pc[t] \in {"close", "unblock", "flush"} => aborted
  /\ pc["ui"] \in {"drain", "drain_first", "shutdown", "join", "mark"} => stopping
  /\ pc["send"] = "discard" => aborted
  /\ pc["recv"] \in Failure => after["recv"] \in {"recv", "end"}
  /\ pc["send"] \in Failure => after["send"] \in {"finish", "discard"}
  /\ after["ui"] \in {"idle", "open"}
  /\ recv_done => pc["recv"] \in {"off", "done"} /\ pc["ui"] # "spawn"
  /\ pc["ui"] = "spawn" => pc["send"] # "off"
  /\ pc["send"] = "off" => pc["recv"] = "off"

LEMMA FlagInit == Init => FlagInv
<1> SUFFICES ASSUME Init PROVE FlagInv
  OBVIOUS
<1>1. /\ pc = [t \in Thread |-> IF t = "ui" THEN "idle" ELSE "off"]
      /\ after = [t \in Thread |-> "idle"]
      /\ draining = FALSE /\ aborted = FALSE /\ recv_done = FALSE
  BY DEF Init
<1> QED BY <1>1 DEF FlagInv, Thread, Failure

LEMMA FlagFail ==
  ASSUME GateInv, FlagInv, NEW t \in Thread, Fail(t) PROVE FlagInv'
<1> USE DEF FlagInv, GateInv, Places, Sender, Thread, Failure
<1>1. CASE Mark(t)
  BY <1>1 DEF Mark, Goto, flagVars
<1>2. CASE Close(t)
  BY <1>2 DEF Close, Goto, flagVars, failVars
<1>3. CASE Unblock(t)
  BY <1>3 DEF Unblock, Goto, flagVars, failVars
<1>4. CASE Flush(t)
  BY <1>4 DEF Flush, GotoNotifying, AfterFail, failVars
<1> QED BY <1>1, <1>2, <1>3, <1>4 DEF Fail

LEMMA FlagRecv ==
  ASSUME GateInv, FlagInv,
         \/ \E k \in Kind : Receive(k)
         \/ ReceiveError \/ RecvCheck \/ RecvAdmit \/ RecvQueue \/ RecvEnd
         \/ \E k \in Kind : \E found \in {k.pid, NoPid} : RecvFilter(k, found)
  PROVE  FlagInv'
<1> USE DEF FlagInv, GateInv, Places, Sender, Thread, Failure, failVars, flagVars, Goto
<1>1. ASSUME NEW k \in Kind, Receive(k) PROVE FlagInv'
  BY <1>1 DEF Receive
<1>2. CASE ReceiveError
  BY <1>2 DEF ReceiveError
<1>3. CASE RecvCheck
  BY <1>3 DEF RecvCheck
<1>4. CASE RecvEnd
  BY <1>4 DEF RecvEnd, GotoNotifying
<1>5. ASSUME NEW k \in Kind, NEW found, RecvFilter(k, found) PROVE FlagInv'
  BY <1>5 DEF RecvFilter
<1>6. CASE RecvAdmit
  BY <1>6 DEF RecvAdmit
<1>7. CASE RecvQueue
  BY <1>7 DEF RecvQueue, GotoNotifying
<1> QED BY <1>1, <1>2, <1>3, <1>4, <1>5, <1>6, <1>7

LEMMA FlagSend ==
  ASSUME GateInv, FlagInv,
         \/ SendWake \/ SendTurn \/ SendFinish \/ SendDiscard
         \/ \E t \in Sender : SendCheck(t) \/ SendIo(t)
  PROVE  FlagInv'
<1> USE DEF FlagInv, GateInv, Places, Sender, Thread, Failure, failVars, flagVars, Goto
<1>1. CASE SendWake
  BY <1>1 DEF SendWake
<1>2. CASE SendTurn
  BY <1>2 DEF SendTurn
<1>3. CASE SendFinish
  BY <1>3 DEF SendFinish
<1>4. CASE SendDiscard
  BY <1>4 DEF SendDiscard
<1>5. ASSUME NEW t \in Sender, SendCheck(t) PROVE FlagInv'
  BY <1>5 DEF SendCheck, AfterSend
<1>6. ASSUME NEW t \in Sender, SendIo(t) PROVE FlagInv'
  BY <1>6 DEF SendIo, AfterSend
<1> QED BY <1>1, <1>2, <1>3, <1>4, <1>5, <1>6

LEMMA FlagUi ==
  ASSUME GateInv, FlagInv,
         \/ ApplyRunning \/ ApplySync \/ Start \/ Stop \/ RequestStop \/ Drain
         \/ ShutdownRecv \/ Stopped \/ Open \/ SpawnRecv \/ Snapshot \/ Tell \/ Tick
  PROVE  FlagInv'
<1> USE DEF FlagInv, GateInv, Places, Sender, Thread, Failure, failVars, flagVars, Goto
<1>1. CASE ApplyRunning
  BY <1>1 DEF ApplyRunning
<1>2. CASE ApplySync
  BY <1>2 DEF ApplySync
<1>3. CASE Start
  BY <1>3 DEF Start, StopFor
<1>4. CASE Stop
  BY <1>4 DEF Stop, StopFor
<1>5. CASE RequestStop
  BY <1>5 DEF RequestStop
<1>6. CASE Drain
  BY <1>6 DEF Drain, GotoNotifying
<1>7. CASE ShutdownRecv
  BY <1>7 DEF ShutdownRecv
<1>8. CASE SpawnRecv
  BY <1>8 DEF SpawnRecv
<1>9. CASE Snapshot
  BY <1>9 DEF Snapshot
<1>10. CASE Tell
  BY <1>10 DEF Tell
<1>11. CASE Tick
  BY <1>11 DEF Tick, threadVars
<1>12. CASE Stopped
  BY <1>12 DEF Stopped
<1>13. CASE Open
  BY <1>13 DEF Open, ResetCounters
<1> QED BY <1>1, <1>2, <1>3, <1>4, <1>5, <1>6, <1>7, <1>8, <1>9, <1>10, <1>11, <1>12, <1>13

LEMMA FlagChange ==
  ASSUME GateInv, FlagInv, NEW r, NEW g, NEW revised, Change(r, g, revised) PROVE FlagInv'
BY DEF FlagInv, GateInv, Places, Sender, Thread, Failure, failVars, flagVars, Goto,
       Change, GotoNotifying

LEMMA FlagStep == GateInv /\ FlagInv /\ [Next]_vars => FlagInv'
<1> SUFFICES ASSUME GateInv, FlagInv, [Next]_vars PROVE FlagInv'
  OBVIOUS
<1>1. CASE (\E k \in Kind : Receive(k)) \/ RecvStep
  BY <1>1, FlagRecv, FlagSend, FlagFail DEF RecvStep, Sender, Thread
<1>2. CASE SendStep
  BY <1>2, FlagSend, FlagFail DEF SendStep, Sender, Thread
<1>3. CASE UiStep
  BY <1>3, FlagUi, FlagFail DEF UiStep, Thread
<1>4. CASE Operation \/ Tick
  BY <1>4, FlagUi, FlagChange DEF Operation, UpdateRule, SetGlobalRule, ClearRules
<1>5. CASE UNCHANGED vars
  BY <1>5 DEF vars, FlagInv, flagVars, failVars, threadVars
<1> QED BY <1>1, <1>2, <1>3, <1>4, <1>5 DEF Next

(***************************************************************************)
(* Delays are cut short only while the engine stops: a failure, a stop and *)
(* a restart in any order never leave a running engine that drains its     *)
(* queue (engine.rs: draining, reset_runtime_counters).                    *)
(***************************************************************************)
THEOREM DrainsWhenStopping == Spec => []OnlyStoppingDrains
<1>1. FlagInv => OnlyStoppingDrains
  BY DEF FlagInv, OnlyStoppingDrains
<1> QED BY <1>1, GateInit, GateStep, FlagInit, FlagStep, PTL DEF Spec

-----------------------------------------------------------------------------
(***************************************************************************)
(* The queue at the end.  The send thread has at most one packet, and only *)
(* in the places between a pop and its finish; when it is gone the queue   *)
(* is empty, and the receive thread, which alone fills it, is gone as well *)
(* or will find the engine aborted before it comes to queueing again.      *)
(***************************************************************************)
EmptyInv ==
  /\ \A e, f \in in_hand : e = f
  /\ in_hand # {} <=> SendOwes
  /\ pc["send"] \in {"off", "done"} => heap = {}
  /\ pc["send"] = "done" => (aborted \/ recv_done) /\ pc["recv"] # "queue"

LEMMA EmptyInit == Init => EmptyInv
<1> SUFFICES ASSUME Init PROVE EmptyInv
  OBVIOUS
<1>1. /\ pc = [t \in Thread |-> IF t = "ui" THEN "idle" ELSE "off"]
      /\ heap = {} /\ in_hand = {}
  BY DEF Init, DQ!Init
<1> QED BY <1>1 DEF EmptyInv, Thread, SendOwes, Failure

\* A step that leaves the packets where they are, raises the flags at most, and moves neither
\* the send thread to another part of its turn nor the receive thread to queueing.
Handless ==
  /\ in_hand' = in_hand /\ (heap = {} => heap' = {})
  /\ aborted \/ recv_done => aborted' \/ recv_done'
  /\ pc'["recv"] = "queue" => pc["recv"] = "queue"
  /\ \/ pc'["send"] = pc["send"]
     \/ pc["send"] = "asleep" /\ pc'["send"] = "awake"

LEMMA HandlessOK == EmptyInv /\ Handless => EmptyInv'
BY DEF EmptyInv, Handless, SendOwes, Failure

\* Releasing waiting packets takes none away and adds none.
LEMMA ReleaseHandless ==
  ASSUME NEW S, DQ!ReleaseMatching(S) PROVE in_hand' = in_hand /\ (heap = {} => heap' = {})
BY DEF DQ!ReleaseMatching

LEMMA EmptyFail ==
  ASSUME GateInv, FlagInv, EmptyInv, NEW t \in Thread, Fail(t) PROVE EmptyInv'
<1> USE DEF FlagInv, GateInv, Places, Sender, Thread, SendOwes, Failure, failVars, flagVars, queueVars
<1>1. CASE Mark(t)
  BY <1>1 DEF Mark, Goto, EmptyInv
<1>2. CASE Close(t)
  BY <1>2 DEF Close, Goto, EmptyInv
<1>3. CASE Unblock(t)
  BY <1>3 DEF Unblock, Goto, EmptyInv
<1>4. CASE Flush(t)
  <2>1. in_hand' = in_hand /\ (heap = {} => heap' = {})
    BY <1>4, ReleaseHandless DEF Flush, ReleaseAll
  <2>2. /\ pc' = [pc EXCEPT ![t] = AfterFail(t),
                           !["send"] = IF pc["send"] = "asleep" THEN "awake" ELSE @]
        /\ pc[t] = "flush" /\ UNCHANGED <<aborted, recv_done>>
    BY <1>4 DEF Flush, GotoNotifying
  <2>3. CASE t = "send"
    <3>1. pc'["send"] \in {"finish", "discard"} /\ pc'["recv"] = pc["recv"]
      BY <2>2, <2>3 DEF AfterFail
    <3> QED BY <2>1, <2>2, <3>1, <2>3 DEF EmptyInv
  <2>4. CASE t # "send"
    <3>1. Handless
      BY <2>1, <2>2, <2>4 DEF Handless, AfterFail
    <3> QED BY <3>1, HandlessOK
  <2> QED BY <2>3, <2>4
<1> QED BY <1>1, <1>2, <1>3, <1>4 DEF Fail

LEMMA EmptyRecv ==
  ASSUME GateInv, FlagInv, EmptyInv,
         \/ \E k \in Kind : Receive(k)
         \/ ReceiveError \/ RecvCheck \/ RecvAdmit \/ RecvQueue \/ RecvEnd
         \/ \E k \in Kind : \E found \in {k.pid, NoPid} : RecvFilter(k, found)
         \/ SendCheck("recv") \/ SendIo("recv")
  PROVE  EmptyInv'
<1> USE DEF GateInv, Places, Sender, Thread, Goto, failVars, flagVars, queueVars
<1>1. ASSUME \/ \E k \in Kind : Receive(k)
             \/ ReceiveError \/ RecvCheck \/ RecvEnd
             \/ SendCheck("recv") \/ SendIo("recv")
             \/ \E k \in Kind : \E found \in {k.pid, NoPid} : RecvFilter(k, found)
      PROVE  EmptyInv'
  <2>1. ASSUME NEW k \in Kind, Receive(k) PROVE Handless
    BY <2>1 DEF Handless, Receive
  <2>2. CASE ReceiveError
    BY <2>2, HandlessOK DEF Handless, ReceiveError
  <2>3. CASE RecvCheck
    BY <2>3, HandlessOK DEF Handless, RecvCheck
  <2>4. CASE RecvEnd
    BY <2>4, HandlessOK DEF Handless, RecvEnd, GotoNotifying
  <2>5. ASSUME NEW k \in Kind, NEW found, RecvFilter(k, found) PROVE Handless
    BY <2>5 DEF Handless, RecvFilter
  <2>6. CASE SendCheck("recv")
    BY <2>6, HandlessOK DEF Handless, SendCheck, AfterSend
  <2>7. CASE SendIo("recv")
    BY <2>7, HandlessOK DEF Handless, SendIo, AfterSend
  <2> QED BY <1>1, <2>1, <2>2, <2>3, <2>4, <2>5, <2>6, <2>7, HandlessOK
<1>2. CASE RecvAdmit
  BY <1>2 DEF RecvAdmit, EmptyInv, SendOwes, FlagInv
<1>3. CASE RecvQueue
  <2>1. pc["recv"] = "queue" /\ pc["send"] \notin {"off", "done"}
    BY <1>3 DEF RecvQueue, EmptyInv, FlagInv
  <2>2. pc'["send"] = pc["send"] \/ (pc["send"] = "asleep" /\ pc'["send"] = "awake")
    BY <1>3 DEF RecvQueue, GotoNotifying
  <2>3. in_hand' = in_hand
    BY <1>3 DEF RecvQueue, DQ!Enqueue
  <2> QED BY <2>1, <2>2, <2>3 DEF EmptyInv, SendOwes, Failure
<1> QED BY <1>1, <1>2, <1>3

LEMMA EmptySend ==
  ASSUME GateInv, FlagInv, EmptyInv,
         SendWake \/ SendTurn \/ SendFinish \/ SendDiscard \/ SendCheck("send") \/ SendIo("send")
  PROVE  EmptyInv'
<1> USE DEF EmptyInv, SendOwes, Failure, Places, Thread, Goto, failVars, flagVars, queueVars
<1>1. CASE SendWake
  BY <1>1 DEF SendWake, GateInv
<1>2. CASE SendTurn
  <2>1. pc["send"] = "turn" /\ in_hand = {} /\ UNCHANGED <<aborted, recv_done>>
    BY <1>2 DEF SendTurn
  <2>2. ASSUME NEW e \in heap, DQ!Pop(e), Goto("send", "send") PROVE EmptyInv'
    <3>1. in_hand' = {e}
      BY <2>1, <2>2 DEF DQ!Pop
    <3>2. pc'["send"] = "send"
      BY <2>2 DEF GateInv
    <3> QED BY <3>1, <3>2
  <2>3. CASE Ended /\ Goto("send", "done") /\ UNCHANGED queueVars
    BY <2>1, <2>3 DEF Ended, GateInv, FlagInv
  <2>4. CASE Goto("send", "asleep") /\ UNCHANGED queueVars
    BY <2>1, <2>4 DEF GateInv
  <2> QED BY <1>2, <2>2, <2>3, <2>4 DEF SendTurn
<1>3. CASE SendFinish
  <2>1. PICK e \in in_hand : DQ!Finish(e)
    BY <1>3 DEF SendFinish
  <2>2. in_hand' = {} /\ heap' = heap
    BY <2>1 DEF DQ!Finish
  <2> QED BY <1>3, <2>2 DEF SendFinish, GateInv
<1>4. CASE SendDiscard
  <2>1. heap' = {} /\ in_hand' = {} /\ aborted' /\ pc["recv"] # "queue"
    BY <1>4 DEF SendDiscard, DiscardPending, DQ!Clear, FlagInv, GateInv, Free
  <2> QED BY <1>4, <2>1 DEF SendDiscard, GateInv
<1>5. CASE SendCheck("send")
  BY <1>5 DEF SendCheck, AfterSend, GateInv
<1>6. CASE SendIo("send")
  BY <1>6 DEF SendIo, AfterSend, GateInv
<1> QED BY <1>1, <1>2, <1>3, <1>4, <1>5, <1>6

LEMMA EmptyUi ==
  ASSUME GateInv, FlagInv, EmptyInv,
         \/ ApplyRunning \/ ApplySync \/ Start \/ Stop \/ RequestStop \/ Drain
         \/ ShutdownRecv \/ Stopped \/ Open \/ SpawnRecv \/ Snapshot \/ Tell \/ Tick
  PROVE  EmptyInv'
<1> USE DEF GateInv, Places, Thread, Goto, failVars, flagVars, queueVars, Sender
<1>1. ASSUME \/ ApplyRunning \/ ApplySync \/ Start \/ Stop \/ RequestStop \/ ShutdownRecv
             \/ SpawnRecv \/ Snapshot \/ Tell \/ Tick
      PROVE  EmptyInv'
  <2>1. CASE ApplyRunning \/ ApplySync \/ RequestStop \/ ShutdownRecv \/ SpawnRecv
    BY <2>1, HandlessOK DEF Handless, ApplyRunning, ApplySync, RequestStop, ShutdownRecv, SpawnRecv
  <2>2. CASE Start \/ Stop \/ Snapshot \/ Tell
    BY <2>2, HandlessOK DEF Handless, Start, Stop, StopFor, Snapshot, Tell
  <2>3. CASE Tick
    BY <2>3, HandlessOK DEF Handless, Tick, DQ!Tick, DQ!queueVars, threadVars
  <2> QED BY <1>1, <2>1, <2>2, <2>3
<1>2. CASE Drain
  <2>1. in_hand' = in_hand /\ (heap = {} => heap' = {})
    BY <1>2, ReleaseHandless DEF Drain, ReleaseAll
  <2>2. Handless
    BY <1>2, <2>1 DEF Handless, Drain, GotoNotifying
  <2> QED BY <2>2, HandlessOK
<1>3. CASE Stopped
  BY <1>3 DEF Stopped, DiscardPending, DQ!Clear, EmptyInv, SendOwes, Failure
<1>4. CASE Open
  <2>1. pc["recv"] = "off" /\ pc["send"] = "off"
    BY <1>4 DEF Open
  <2>2. CASE UNCHANGED queueVars /\ Goto("ui", "idle")
    BY <2>1, <2>2 DEF EmptyInv, SendOwes, Failure
  <2>3. CASE ResetCounters
    <3>1. heap' = {} /\ in_hand' = {}
      BY <2>3 DEF ResetCounters, DQ!Clear
    <3>2. pc'["send"] \in {"awake", "off"}
      BY <1>4, <2>1 DEF Open
    <3> QED BY <2>1, <3>1, <3>2 DEF EmptyInv, SendOwes, Failure
  <2> QED BY <1>4, <2>2, <2>3 DEF Open
<1> QED BY <1>1, <1>2, <1>3, <1>4

LEMMA EmptyChange ==
  ASSUME GateInv, EmptyInv, NEW r, NEW g, NEW revised, Change(r, g, revised) PROVE EmptyInv'
<1>1. in_hand' = in_hand /\ (heap = {} => heap' = {})
  BY ReleaseHandless DEF Change, queueVars
<1>2. Handless
  BY <1>1 DEF Handless, Change, Goto, GotoNotifying, GateInv, Places, Thread, failVars, flagVars
<1> QED BY <1>2, HandlessOK

LEMMA EmptyStep == GateInv /\ FlagInv /\ EmptyInv /\ [Next]_vars => EmptyInv'
<1> SUFFICES ASSUME GateInv, FlagInv, EmptyInv, [Next]_vars PROVE EmptyInv'
  OBVIOUS
<1>1. CASE (\E k \in Kind : Receive(k)) \/ RecvStep
  BY <1>1, EmptyRecv, EmptyFail DEF RecvStep, Thread
<1>2. CASE SendStep
  BY <1>2, EmptySend, EmptyFail DEF SendStep, Thread
<1>3. CASE UiStep
  BY <1>3, EmptyUi, EmptyFail DEF UiStep, Thread
<1>4. CASE Operation \/ Tick
  BY <1>4, EmptyUi, EmptyChange DEF Operation, UpdateRule, SetGlobalRule, ClearRules
<1>5. CASE UNCHANGED vars
  BY <1>5 DEF vars, EmptyInv, SendOwes, flagVars, failVars, threadVars, queueVars
<1> QED BY <1>1, <1>2, <1>3, <1>4, <1>5 DEF Next

(***************************************************************************)
(* Once the send thread has ended, by a stop, a failure or a panic, no     *)
(* packet waits for it and none will: the receive thread reads aborted     *)
(* behind the gate (engine.rs, recv_loop and the end of run_worker).       *)
(***************************************************************************)
THEOREM NoneStranded == Spec => []NothingStranded
<1>1. FlagInv /\ EmptyInv => NothingStranded
  BY DEF FlagInv, EmptyInv, SendOwes, NothingStranded, Failure
<1> QED BY <1>1, GateInit, GateStep, FlagInit, FlagStep, EmptyInit, EmptyStep, PTL DEF Spec

-----------------------------------------------------------------------------
(***************************************************************************)
(* The connection filter.  An engine that is not running stays so until a  *)
(* start opens it; a user who was told that it stopped sees no filter, and *)
(* none is on its way.                                                     *)
(***************************************************************************)
Ending == {"request", "drain", "drain_first", "shutdown", "join"} \cup Failure

ShowInv ==
  /\ DOMAIN socket = {"active", "error"}
  /\ told = "stopped" =>
       /\ socket.active = {} /\ ~IsRunning
       /\ pc["ui"] \notin {"sync", "open", "spawn"}
       /\ pc["ui"] \in Ending => after["ui"] = "idle"
  /\ pc["ui"] \in {"unsync", "tell_stopped"} => ~IsRunning
  /\ pc["ui"] \in {"idle", "tell_running"} /\ IsRunning /\ ~socket.error
       => socket.active = Filter
  /\ pc["ui"] = "spawn" /\ ~stopping /\ ~socket.error => socket.active = Filter

LEMMA ShowInit == Init => ShowInv
<1> SUFFICES ASSUME Init PROVE ShowInv
  OBVIOUS
<1>1. /\ pc = [t \in Thread |-> IF t = "ui" THEN "idle" ELSE "off"]
      /\ after = [t \in Thread |-> "idle"] /\ socket = NoFilter
  BY DEF Init
<1> QED BY <1>1 DEF ShowInv, Thread, IsRunning, NoFilter, Ending, Failure

\* A step after which the filter is the same, the user as well informed, and the engine runs
\* only if it did before.
Unseen ==
  /\ UNCHANGED <<told, socket, ruleVars>>
  /\ pc'["ui"] = pc["ui"] /\ after'["ui"] = after["ui"]
  /\ stopping => stopping'
  /\ \A t \in Sender : pc[t] \in {"off", "done"} => pc'[t] \in {"off", "done"}

LEMMA FilterKept == UNCHANGED ruleVars => Filter' = Filter
BY DEF Filter, ruleVars

LEMMA UnseenOK == ShowInv /\ Unseen => ShowInv'
<1> SUFFICES ASSUME ShowInv, Unseen PROVE ShowInv'
  OBVIOUS
<1>1. IsRunning' => IsRunning
  BY DEF Unseen, IsRunning, Sender
<1>2. Filter' = Filter
  BY FilterKept DEF Unseen
<1> QED BY <1>1, <1>2 DEF ShowInv, Unseen

LEMMA ShowFail ==
  ASSUME GateInv, FlagInv, ShowInv, NEW t \in Thread, Fail(t) PROVE ShowInv'
<1> USE DEF GateInv, Places, Thread, Sender, Failure, Goto
<1>1. CASE Mark(t)
  <2>1. stopping' /\ pc'["ui"] \in {pc["ui"], "close"} /\ (pc'["ui"] # pc["ui"] => pc["ui"] = "mark")
    BY <1>1 DEF Mark
  <2>2. UNCHANGED <<told, socket, after, ruleVars>>
    BY <1>1 DEF Mark, hostVars
  <2> QED BY <2>1, <2>2 DEF ShowInv, IsRunning, Ending
<1>2. CASE Close(t)
  <2>1. stopping /\ pc'["ui"] \in {pc["ui"], "unblock"} /\ (pc'["ui"] # pc["ui"] => pc["ui"] = "close")
    BY <1>2 DEF Close, FlagInv
  <2>2. UNCHANGED <<told, socket, after, ruleVars, stopping>>
    BY <1>2 DEF Close, failVars
  <2> QED BY <2>1, <2>2 DEF ShowInv, IsRunning, Ending
<1>3. CASE Unblock(t)
  <2>1. stopping /\ pc'["ui"] \in {pc["ui"], "flush"} /\ (pc'["ui"] # pc["ui"] => pc["ui"] = "unblock")
    BY <1>3 DEF Unblock, FlagInv
  <2>2. UNCHANGED <<told, after, ruleVars, stopping>> /\ socket' = NoFilter
    BY <1>3 DEF Unblock, failVars
  <2> QED BY <2>1, <2>2 DEF ShowInv, IsRunning, Ending, NoFilter
<1>4. CASE Flush(t)
  <2>1. stopping /\ pc'["ui"] \in {pc["ui"], "join"} /\ (pc'["ui"] # pc["ui"] => pc["ui"] = "flush")
    BY <1>4 DEF Flush, FlagInv, GotoNotifying, AfterFail
  <2>2. UNCHANGED <<told, socket, after, ruleVars, stopping>>
    BY <1>4 DEF Flush, hostVars, failVars
  <2> QED BY <2>1, <2>2 DEF ShowInv, IsRunning, Ending
<1> QED BY <1>1, <1>2, <1>3, <1>4 DEF Fail

LEMMA ShowThreads ==
  ASSUME GateInv, ShowInv,
         \/ \E k \in Kind : Receive(k)
         \/ ReceiveError \/ RecvCheck \/ RecvAdmit \/ RecvQueue \/ RecvEnd
         \/ \E k \in Kind : \E found \in {k.pid, NoPid} : RecvFilter(k, found)
         \/ SendWake \/ SendTurn \/ SendFinish \/ SendDiscard
         \/ \E t \in Sender : SendCheck(t) \/ SendIo(t)
         \/ Tick
  PROVE  ShowInv'
<1> SUFFICES Unseen
  BY UnseenOK
<1> USE DEF Unseen, GateInv, Places, Thread, Sender, Goto, failVars, hostVars
<1>1. ASSUME NEW k \in Kind, Receive(k) PROVE Unseen
  BY <1>1 DEF Receive
<1>2. CASE ReceiveError
  BY <1>2 DEF ReceiveError
<1>3. CASE RecvCheck
  BY <1>3 DEF RecvCheck
<1>4. CASE RecvEnd
  BY <1>4 DEF RecvEnd, GotoNotifying
<1>5. ASSUME NEW k \in Kind, NEW found, RecvFilter(k, found) PROVE Unseen
  BY <1>5 DEF RecvFilter
<1>6. CASE RecvAdmit
  BY <1>6 DEF RecvAdmit
<1>7. CASE RecvQueue
  BY <1>7 DEF RecvQueue, GotoNotifying
<1>8. CASE SendWake
  BY <1>8 DEF SendWake
<1>9. CASE SendTurn
  BY <1>9 DEF SendTurn
<1>10. CASE SendFinish
  BY <1>10 DEF SendFinish
<1>11. CASE SendDiscard
  BY <1>11 DEF SendDiscard
<1>12. ASSUME NEW t \in Sender, SendCheck(t) PROVE Unseen
  BY <1>12 DEF SendCheck
<1>13. ASSUME NEW t \in Sender, SendIo(t) PROVE Unseen
  BY <1>13 DEF SendIo
<1>14. CASE Tick
  BY <1>14 DEF Tick, threadVars
<1> QED BY <1>1, <1>2, <1>3, <1>4, <1>5, <1>6, <1>7, <1>8, <1>9, <1>10, <1>11, <1>12, <1>13, <1>14

\* A step of the UI thread that leaves the filter and the other threads alone.
LEMMA ShowUi ==
  ASSUME GateInv, FlagInv, ShowInv,
         \/ ApplyRunning \/ Start \/ Stop \/ RequestStop \/ Drain \/ ShutdownRecv \/ Snapshot
  PROVE  ShowInv'
<1> USE DEF GateInv, Places, Thread, Sender, Goto, failVars, hostVars, IsRunning, Ending, Failure
<1>0. ASSUME UNCHANGED ruleVars PROVE Filter' = Filter
  BY <1>0, FilterKept
<1>1. CASE ApplyRunning
  BY <1>0, <1>1 DEF ApplyRunning, ShowInv
<1>2. CASE Start
  BY <1>0, <1>2 DEF Start, StopFor, ShowInv
<1>3. CASE Stop
  BY <1>0, <1>3 DEF Stop, StopFor, ShowInv
<1>4. CASE RequestStop
  BY <1>0, <1>4 DEF RequestStop, ShowInv
<1>5. CASE Drain
  BY <1>0, <1>5 DEF Drain, GotoNotifying, ShowInv
<1>6. CASE ShutdownRecv
  BY <1>0, <1>6 DEF ShutdownRecv, ShowInv
<1>7. CASE Snapshot
  BY <1>0, <1>7 DEF Snapshot, ShowInv
<1> QED BY <1>1, <1>2, <1>3, <1>4, <1>5, <1>6, <1>7

LEMMA ShowFilter ==
  ASSUME GateInv, FlagInv, ShowInv, ApplySync \/ Stopped \/ Open \/ SpawnRecv \/ Tell
  PROVE  ShowInv'
<1> USE DEF GateInv, Places, Thread, Sender, Goto
<1>1. ASSUME Synced, UNCHANGED ruleVars
      PROVE  DOMAIN socket' = {"active", "error"} /\ (~socket'.error => socket'.active = Filter')
  <2>1. Filter' = Filter
    BY <1>1, FilterKept
  <2> QED BY <1>1, <2>1 DEF Synced, NoFilter, ShowInv
<1>2. ASSUME SyncFailed PROVE DOMAIN socket' = {"active", "error"} /\ socket'.error
  BY <1>2 DEF SyncFailed
<1>3. CASE ApplySync
  <2>1. /\ UNCHANGED <<told, ruleVars, stopping>> /\ pc["ui"] \in {"sync", "unsync"}
        /\ pc' = [pc EXCEPT !["ui"] = "idle"]
    BY <1>3 DEF ApplySync, failVars
  <2>2. IsRunning' = IsRunning
    BY <2>1 DEF IsRunning
  <2>3. CASE pc["ui"] = "sync"
    <3>1. told # "stopped"
      BY <2>3 DEF ShowInv
    <3>2. Synced \/ SyncFailed
      BY <1>3, <2>3 DEF ApplySync
    <3> QED BY <1>1, <1>2, <2>1, <3>1, <3>2 DEF ShowInv, Ending, Failure
  <2>4. CASE pc["ui"] = "unsync"
    <3>1. socket' = NoFilter /\ ~IsRunning
      BY <1>3, <2>4 DEF ApplySync, ShowInv
    <3> QED BY <2>1, <2>2, <3>1 DEF ShowInv, NoFilter, Ending, Failure
  <2> QED BY <2>1, <2>3, <2>4
<1>4. CASE Stopped
  <2>1. /\ socket' = NoFilter /\ pc'["ui"] = after["ui"] /\ pc'["recv"] = "off"
        /\ UNCHANGED told /\ pc["ui"] = "join"
    BY <1>4 DEF Stopped
  <2>2. ~IsRunning'
    BY <2>1 DEF IsRunning
  <2> QED BY <2>1, <2>2 DEF ShowInv, FlagInv, NoFilter, Ending, Failure
<1>5. CASE Open
  <2>1. /\ told # "stopped" /\ UNCHANGED <<told, ruleVars>>
        /\ pc["recv"] = "off" /\ pc["ui"] = "open"
    BY <1>5 DEF Open, ShowInv
  <2>2. CASE Goto("ui", "idle")
    <3>1. UNCHANGED socket \/ SyncFailed
      BY <1>5, <2>2 DEF Open
    <3>2. ~IsRunning' /\ pc'["ui"] = "idle"
      BY <2>1, <2>2 DEF IsRunning
    <3> QED BY <1>2, <2>1, <3>1, <3>2 DEF ShowInv
  <2>3. CASE Synced /\ (Goto("ui", "request") \/ pc' = [pc EXCEPT !["ui"] = "spawn", !["send"] = "awake"])
    BY <1>1, <2>1, <2>3 DEF ShowInv
  <2> QED BY <1>5, <2>2, <2>3 DEF Open
<1>6. CASE SpawnRecv
  <2>1. /\ told # "stopped" /\ UNCHANGED <<told, ruleVars, socket, stopping>> /\ pc["ui"] = "spawn"
        /\ pc'["ui"] \in {"idle", "request"}
    BY <1>6 DEF SpawnRecv, ShowInv, hostVars, failVars
  <2>2. Filter' = Filter
    BY <2>1, FilterKept
  <2> QED BY <2>1, <2>2 DEF ShowInv, IsRunning
<1>7. CASE Tell
  <2>1. UNCHANGED <<ruleVars, stopping>> /\ pc' = [pc EXCEPT !["ui"] = "idle"]
    BY <1>7 DEF Tell, failVars
  <2>2. IsRunning' = IsRunning /\ Filter' = Filter /\ pc'["ui"] = "idle"
    BY <2>1, FilterKept DEF IsRunning
  <2>3. CASE pc["ui"] = "tell_stopped"
    <3>1. told' = "stopped" /\ socket' = [socket EXCEPT !.active = {}] /\ ~IsRunning
      BY <1>7, <2>3 DEF Tell, ShowInv
    <3> QED BY <2>2, <3>1 DEF ShowInv, Ending, Failure
  <2>4. CASE pc["ui"] = "tell_running"
    <3>1. told' = "running" /\ socket' = socket
      BY <1>7, <2>4 DEF Tell
    <3> QED BY <2>2, <2>4, <3>1 DEF ShowInv
  <2> QED BY <1>7, <2>3, <2>4 DEF Tell
<1> QED BY <1>3, <1>4, <1>5, <1>6, <1>7

LEMMA ShowChange ==
  ASSUME GateInv, ShowInv, NEW r, NEW g, NEW revised, Change(r, g, revised) PROVE ShowInv'
<1>1. UNCHANGED <<told, socket, stopping>>
  BY DEF Change, hostVars, failVars
<1>2. /\ pc'["ui"] = "applied" /\ pc'["recv"] = pc["recv"]
      /\ pc["send"] \in {"off", "done"} => pc'["send"] \in {"off", "done"}
  BY DEF Change, Goto, GotoNotifying, GateInv, Places, Thread
<1> QED BY <1>1, <1>2 DEF ShowInv, IsRunning, Ending, Failure

LEMMA ShowStep == GateInv /\ FlagInv /\ ShowInv /\ [Next]_vars => ShowInv'
<1> SUFFICES ASSUME GateInv, FlagInv, ShowInv, [Next]_vars PROVE ShowInv'
  OBVIOUS
<1>1. CASE (\E k \in Kind : Receive(k)) \/ RecvStep
  BY <1>1, ShowThreads, ShowFail DEF RecvStep, Thread, Sender
<1>2. CASE SendStep
  BY <1>2, ShowThreads, ShowFail DEF SendStep, Thread, Sender
<1>3. CASE UiStep
  BY <1>3, ShowUi, ShowFilter, ShowFail DEF UiStep, Thread
<1>4. CASE Operation \/ Tick
  BY <1>4, ShowUi, ShowThreads, ShowChange DEF Operation, UpdateRule, SetGlobalRule, ClearRules
<1>5. CASE UNCHANGED vars
  BY <1>5, UnseenOK DEF vars, Unseen, failVars, threadVars, hostVars
<1> QED BY <1>1, <1>2, <1>3, <1>4, <1>5 DEF Next

(***************************************************************************)
(* Once a snapshot has told the user that the engine stopped no connection *)
(* filter is left, and none appears before the next start.                 *)
(***************************************************************************)
THEOREM NoFilterLeft == Spec => []FilterGone
<1>1. ShowInv => FilterGone
  BY DEF ShowInv, FilterGone
<1> QED BY <1>1, GateInit, GateStep, FlagInit, FlagStep, ShowInit, ShowStep, PTL DEF Spec

(***************************************************************************)
(* While the engine runs and no command is under way the filter is that of *)
(* the rules, unless its failure is shown.                                 *)
(***************************************************************************)
THEOREM FilterFollows == Spec => []FilterCurrent
<1>1. ShowInv => FilterCurrent
  BY DEF ShowInv, FilterCurrent
<1> QED BY <1>1, GateInit, GateStep, FlagInit, FlagStep, ShowInit, ShowStep, PTL DEF Spec

-----------------------------------------------------------------------------
(***************************************************************************)
(* The report.  Packets are discarded by a thread that finds the engine    *)
(* aborted, which comes with an error, or by a stop, for which they are    *)
(* still counted: with both threads gone and no failure the queue is       *)
(* empty (EmptyInv), and so, by the queue's own proof, is the count.       *)
(***************************************************************************)
Reported == error \/ \E t \in Thread : pc[t] = "mark"

ReportInv ==
  /\ drops \in [Reason -> Int]
  /\ drops["shutdown"] > 0 => Reported
  /\ drops["send"] > 0 => Reported
  /\ lost > 0 => Reported

LEMMA ReportInit == Init => ReportInv
BY DEF Init, ReportInv, NoDrops, Reason

\* A step that counts nothing among what must be reported, and takes back no report.
Silent ==
  /\ drops' \in [Reason -> Int] /\ lost' = lost
  /\ drops'["shutdown"] = drops["shutdown"] /\ drops'["send"] = drops["send"]
  /\ Reported => Reported'

LEMMA SilentOK == ReportInv /\ Silent => ReportInv'
BY DEF ReportInv, Silent

\* Once reported everything may be counted.
LEMMA ReportedOK == drops' \in [Reason -> Int] /\ Reported' => ReportInv'
BY DEF ReportInv

LEMMA DropTyped ==
  ASSUME ReportInv, NEW reason \in Reason, NEW n \in Int, Drop(reason, n)
  PROVE  /\ drops' \in [Reason -> Int]
         /\ reason \notin {"shutdown", "send"}
              => drops'["shutdown"] = drops["shutdown"] /\ drops'["send"] = drops["send"]
         /\ n = 0 => drops' = drops
BY DEF ReportInv, Drop, Reason

\* A report is taken back by nothing but a restart.
LEMMA ReportKept ==
  ASSUME error => error', \A t \in Thread : pc[t] = "mark" => pc'[t] = "mark" \/ error'
  PROVE  Reported => Reported'
BY DEF Reported

LEMMA ReportFail ==
  ASSUME GateInv, FlagInv, ReportInv, NEW t \in Thread, Fail(t) PROVE ReportInv'
<1>1. UNCHANGED <<drops, lost>>
  BY DEF Fail, Mark, Close, Unblock, Flush, countVars
<1>2. error'
  <2>1. CASE Mark(t)
    BY <2>1 DEF Mark
  <2>2. CASE Close(t) \/ Unblock(t) \/ Flush(t)
    BY <2>2 DEF Close, Unblock, Flush, FlagInv, failVars
  <2> QED BY <2>1, <2>2 DEF Fail
<1> QED BY <1>1, <1>2 DEF ReportInv, Reported

LEMMA ReportRecv ==
  ASSUME GateInv, FlagInv, ReportInv,
         \/ \E k \in Kind : Receive(k)
         \/ ReceiveError \/ RecvCheck \/ RecvAdmit \/ RecvQueue \/ RecvEnd
         \/ \E k \in Kind : \E found \in {k.pid, NoPid} : RecvFilter(k, found)
  PROVE  ReportInv'
<1> USE DEF GateInv, Places, Thread, Sender, Goto, failVars, countVars
<1>1. CASE (\E k \in Kind : Receive(k)) \/ ReceiveError \/ RecvEnd
  <2>1. UNCHANGED <<drops, lost, error>>
    BY <1>1 DEF Receive, ReceiveError, RecvEnd
  <2>2. \A t \in Thread : pc[t] = "mark" => pc'[t] = "mark"
    BY <1>1 DEF Receive, ReceiveError, RecvEnd, GotoNotifying
  <2> QED BY <2>1, <2>2, ReportKept, SilentOK DEF Silent, ReportInv
<1>2. CASE RecvCheck \/ RecvAdmit \/ RecvQueue
           \/ \E k \in Kind : \E found \in {k.pid, NoPid} : RecvFilter(k, found)
  <2>1. UNCHANGED <<lost, error>>
    BY <1>2 DEF RecvCheck, RecvAdmit, RecvQueue, RecvFilter
  <2>2. \A t \in Thread : pc[t] = "mark" => pc'[t] = "mark"
    BY <1>2 DEF RecvCheck, RecvAdmit, RecvQueue, RecvFilter, GotoNotifying
  <2>3. \/ UNCHANGED drops
        \/ \E reason \in {"block", "loss", "rate", "queue"} : Drop(reason, 1)
        \/ aborted /\ Drop("shutdown", 1)
    BY <1>2 DEF RecvCheck, RecvAdmit, RecvQueue, RecvFilter
  <2>4. CASE UNCHANGED drops
    BY <2>1, <2>2, <2>4, ReportKept, SilentOK DEF Silent, ReportInv
  <2>5. CASE \E reason \in {"block", "loss", "rate", "queue"} : Drop(reason, 1)
    BY <2>1, <2>2, <2>5, DropTyped, ReportKept, SilentOK DEF Silent, Reason
  <2>6. CASE aborted /\ Drop("shutdown", 1)
    <3>1. error'
      BY <2>1, <2>6 DEF FlagInv
    <3> QED BY <2>6, <3>1, DropTyped, ReportedOK DEF Reported, Reason
  <2> QED BY <2>3, <2>4, <2>5, <2>6
<1> QED BY <1>1, <1>2

LEMMA ReportSend ==
  ASSUME GateInv, FlagInv, ReportInv, DQP!IInv,
         \/ SendWake \/ SendTurn \/ SendFinish \/ SendDiscard
         \/ \E t \in Sender : SendCheck(t) \/ SendIo(t)
  PROVE  ReportInv'
<1> USE DEF GateInv, Places, Thread, Sender, Goto, failVars, countVars
<1>1. CASE SendWake \/ SendTurn \/ SendFinish
  <2>1. UNCHANGED <<drops, lost, error>>
    BY <1>1 DEF SendWake, SendTurn, SendFinish
  <2>2. \A t \in Thread : pc[t] = "mark" => pc'[t] = "mark"
    BY <1>1 DEF SendWake, SendTurn, SendFinish
  <2> QED BY <2>1, <2>2, ReportKept, SilentOK DEF Silent, ReportInv
<1>2. CASE SendDiscard
  <2>1. usage.packets \in Int
    BY DEF DQP!IInv, DQP!TypeOK, DQP!Usage
  <2>2. Drop("shutdown", usage.packets) /\ error'
    BY <1>2 DEF SendDiscard, DiscardPending, FlagInv
  <2> QED BY <2>1, <2>2, DropTyped, ReportedOK DEF Reported, Reason
<1>3. ASSUME NEW t \in Sender, SendCheck(t) PROVE ReportInv'
  <2>1. UNCHANGED <<lost, error, aborted>>
    BY <1>3 DEF SendCheck
  <2>2. \A s \in Thread : pc[s] = "mark" => pc'[s] = "mark"
    BY <1>3 DEF SendCheck
  <2>3. CASE aborted /\ Drop("shutdown", 1)
    BY <2>1, <2>3, DropTyped, ReportedOK DEF Reported, Reason, FlagInv
  <2>4. CASE Drop("block", 1)
    BY <2>1, <2>2, <2>4, DropTyped, ReportKept, SilentOK DEF Silent, Reason
  <2>5. CASE UNCHANGED drops
    BY <2>1, <2>2, <2>5, ReportKept, SilentOK DEF Silent, ReportInv
  <2> QED BY <1>3, <2>3, <2>4, <2>5 DEF SendCheck
<1>4. ASSUME NEW t \in Sender, SendIo(t) PROVE ReportInv'
  <2>1. CASE UNCHANGED <<drops, lost, error>> /\ Goto(t, AfterSend(t))
    <3>1. \A s \in Thread : pc[s] = "mark" => pc'[s] = "mark"
      BY <1>4, <2>1 DEF SendIo
    <3> QED BY <2>1, <3>1, ReportKept, SilentOK DEF Silent, ReportInv
  <2>2. CASE Drop("send", 1) /\ error'
    BY <2>2, DropTyped, ReportedOK DEF Reported, Reason
  <2>3. CASE Goto(t, "mark") /\ (Drop("send", 1) \/ UNCHANGED drops)
    <3>1. Reported'
      BY <2>3 DEF Reported
    <3>2. drops' \in [Reason -> Int]
      BY <2>3, DropTyped DEF Reason, ReportInv
    <3> QED BY <3>1, <3>2, ReportedOK
  <2> QED BY <1>4, <2>1, <2>2, <2>3 DEF SendIo
<1> QED BY <1>1, <1>2, <1>3, <1>4

\* With no packet waiting or in hand none is counted.
LEMMA NothingCounted ==
  ASSUME DQP!IInv, heap = {}, in_hand = {} PROVE usage.packets = 0
<1>1. usage.packets = DQP!Cardinality(heap) + DQP!Cardinality(in_hand)
  BY DEF DQP!IInv, DQP!CountsExact
<1>2. DQP!Cardinality({}) = 0
  BY FS_EmptySet DEF DQP!Cardinality, Cardinality
<1> QED BY <1>1, <1>2

LEMMA ReportUi ==
  ASSUME GateInv, FlagInv, EmptyInv, ReportInv, DQP!IInv,
         \/ ApplyRunning \/ ApplySync \/ Start \/ Stop \/ RequestStop \/ Drain
         \/ ShutdownRecv \/ Stopped \/ Open \/ SpawnRecv \/ Snapshot \/ Tell \/ Tick
  PROVE  ReportInv'
<1> USE DEF GateInv, Places, Thread, Sender, Goto, failVars, countVars
<1>1. CASE ApplyRunning \/ ApplySync \/ Start \/ Stop \/ RequestStop \/ Drain
           \/ ShutdownRecv \/ SpawnRecv \/ Snapshot \/ Tell \/ Tick
  <2>1. UNCHANGED <<drops, lost, error>>
    BY <1>1 DEF ApplyRunning, ApplySync, Start, Stop, RequestStop, Drain, ShutdownRecv,
                SpawnRecv, Snapshot, Tell, Tick
  <2>2. \A t \in Thread : pc[t] = "mark" => pc'[t] = "mark"
    BY <1>1 DEF ApplyRunning, ApplySync, Start, Stop, StopFor, RequestStop, Drain,
                GotoNotifying, ShutdownRecv, SpawnRecv, Snapshot, Tell, Tick, threadVars
  <2> QED BY <2>1, <2>2, ReportKept, SilentOK DEF Silent, ReportInv
<1>2. CASE Stopped
  <2>1. Drop("shutdown", usage.packets) /\ UNCHANGED <<lost, error>> /\ pc["ui"] = "join"
    BY <1>2 DEF Stopped, DiscardPending
  <2>2. usage.packets \in Int
    BY DEF DQP!IInv, DQP!TypeOK, DQP!Usage
  <2>3. \A t \in Thread : pc[t] # "mark"
    BY <1>2 DEF Stopped, Joined
  <2>4. CASE error
    BY <2>1, <2>2, <2>4, DropTyped, ReportedOK DEF Reported, Reason
  <2>5. CASE ~error
    <3>1. heap = {} /\ in_hand = {}
      BY <1>2 DEF Stopped, Joined, EmptyInv, SendOwes, Failure
    <3>2. drops' = drops
      BY <2>1, <2>2, <3>1, NothingCounted, DropTyped DEF Reason
    <3> QED BY <2>1, <2>3, <2>5, <3>2 DEF ReportInv, Reported
  <2> QED BY <2>4, <2>5
<1>3. CASE Open
  <2>1. CASE UNCHANGED countVars /\ UNCHANGED failVars /\ Goto("ui", "idle")
    <3>1. \A t \in Thread : pc[t] = "mark" => pc'[t] = "mark"
      BY <1>3, <2>1 DEF Open
    <3> QED BY <2>1, <3>1, ReportKept, SilentOK DEF Silent, ReportInv
  <2>2. CASE ResetCounters
    BY <2>2 DEF ResetCounters, ReportInv, NoDrops, Reason
  <2> QED BY <1>3, <2>1, <2>2 DEF Open
<1> QED BY <1>1, <1>2, <1>3

LEMMA ReportChange ==
  ASSUME GateInv, ReportInv, NEW r, NEW g, NEW revised, Change(r, g, revised) PROVE ReportInv'
<1>1. UNCHANGED <<drops, lost, error>>
  BY DEF Change, countVars, failVars
<1>2. \A t \in Thread : pc[t] = "mark" => pc'[t] = "mark"
  BY DEF Change, Goto, GotoNotifying, GateInv, Places, Thread
<1> QED BY <1>1, <1>2, ReportKept, SilentOK DEF Silent, ReportInv

LEMMA ReportStep ==
  GateInv /\ FlagInv /\ EmptyInv /\ DQP!IInv /\ ReportInv /\ [Next]_vars => ReportInv'
<1> SUFFICES ASSUME GateInv, FlagInv, EmptyInv, DQP!IInv, ReportInv, [Next]_vars
             PROVE  ReportInv'
  OBVIOUS
<1>1. CASE (\E k \in Kind : Receive(k)) \/ RecvStep
  BY <1>1, ReportRecv, ReportSend, ReportFail DEF RecvStep, Thread, Sender
<1>2. CASE SendStep
  BY <1>2, ReportSend, ReportFail DEF SendStep, Thread, Sender
<1>3. CASE UiStep
  BY <1>3, ReportUi, ReportFail DEF UiStep, Thread
<1>4. CASE Operation \/ Tick
  BY <1>4, ReportUi, ReportChange DEF Operation, UpdateRule, SetGlobalRule, ClearRules
<1>5. CASE UNCHANGED vars
  BY <1>5 DEF vars, ReportInv, Reported, failVars, threadVars, countVars
<1> QED BY <1>1, <1>2, <1>3, <1>4, <1>5 DEF Next

(***************************************************************************)
(* Nothing is thrown away silently: a packet discarded at a shutdown, a    *)
(* send that failed and a packet lost with a panic come with an error, so  *)
(* a stop without one has flushed all it captured (README.md: "flushes     *)
(* captured packets").                                                     *)
(***************************************************************************)
THEOREM LossReported == Spec => []FailuresReported
<1>1. ReportInv => FailuresReported
  BY DEF ReportInv, FailuresReported, Reported
<1> QED BY <1>1, QueueInductive, GateInit, GateStep, FlagInit, FlagStep, EmptyInit, EmptyStep,
           ReportInit, ReportStep, PTL DEF Spec
=============================================================================
