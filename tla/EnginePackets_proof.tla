------------------------ MODULE EnginePackets_proof -------------------------
(***************************************************************************)
(* Proofs about the packets of Engine, for any traffic, rules, quotas and  *)
(* failures: that those of a flow are sent in the order they were          *)
(* captured, that each is accounted for once, and, with the accounts, that *)
(* every variable keeps its type.                                          *)
(***************************************************************************)
EXTENDS Engine_proof, Sums

-----------------------------------------------------------------------------
(***************************************************************************)
(* Packets are numbered as they are captured, so the one the receive       *)
(* thread holds has the highest number.  It is sent past the queue only if *)
(* its flow has nothing there; what is in the queue has later numbers than *)
(* what was sent of its flow, and numbers rise with the queue's sequence.  *)
(***************************************************************************)
Queue == heap \cup in_hand
Before(q, p) == q.parsed /\ p.parsed /\ q.flow = p.flow => q.id < p.id
Older(p) == p.id <= processed /\ (RecvHolds => p.id < processed)

OrderInv ==
  /\ processed \in Nat
  /\ RecvHolds => inbound.packet \in Packet /\ inbound.packet.id = processed
  /\ pc["recv"] \in {"filter", "admit", "queue"} => inbound.packet.parsed
  /\ \A q \in sent : q \in Packet /\ Older(q)
  /\ \A e \in Queue : /\ e.packet \in Packet /\ Older(e.packet)
                      /\ e.packet.parsed /\ ~e.packet.loopback
  /\ \A a, b \in Queue : a.sequence < b.sequence => a.packet.id < b.packet.id
  /\ \A q \in sent, e \in heap : Before(q, e.packet)
  /\ pc["send"] \in {"send", "io"} =>
       in_hand # {} /\ \A q \in sent, e \in in_hand : Before(q, e.packet)
  /\ pc["recv"] \in {"send", "io"} /\ inbound.packet.parsed =>
       \A e \in Queue : e.packet.flow # inbound.packet.flow

LEMMA OrderInit == Init => OrderInv
<1> SUFFICES ASSUME Init PROVE OrderInv
  OBVIOUS
<1>1. /\ pc = [t \in Thread |-> IF t = "ui" THEN "idle" ELSE "off"]
      /\ heap = {} /\ in_hand = {} /\ sent = {} /\ processed = 0
  BY DEF Init, DQ!Init
<1> QED BY <1>1 DEF OrderInv, Thread, RecvHolds, Queue

LEMMA PacketFields ==
  ASSUME NEW p \in Packet
  PROVE  /\ p.id \in Nat
         /\ \A q \in Packet : p.parsed /\ q.parsed /\ p.flow = q.flow => p.loopback = q.loopback
<1>1. \A q \in Packet : \E k \in Kind, i \in 1 .. MaxArrivals, pid \in Pid \cup {NoPid} :
        q = Captured(k, i, pid)
  BY DEF Packet
<1>2. PICK k \in Kind, i \in 1 .. MaxArrivals, pid \in Pid \cup {NoPid} : p = Captured(k, i, pid)
  BY <1>1
<1>3. p.id \in Nat
  BY <1>2, BoundAssumption DEF Captured
<1>4. ASSUME NEW q \in Packet, p.parsed, q.parsed, p.flow = q.flow PROVE p.loopback = q.loopback
  <2>1. PICK j \in Kind, n \in 1 .. MaxArrivals, of \in Pid \cup {NoPid} : q = Captured(j, n, of)
    BY <1>1
  <2> QED BY <1>2, <1>4, <2>1, FlowAssumption DEF Captured
<1> QED BY <1>3, <1>4

\* A step that captures, queues and sends nothing: packets may leave the queue, or be given
\* other deadlines in it, and a thread may give up the packet in its hand.
Orderly ==
  /\ UNCHANGED <<processed, sent>>
  /\ \A e \in heap' : \E x \in heap : x.packet = e.packet /\ x.sequence = e.sequence
  /\ in_hand' \subseteq in_hand
  /\ RecvHolds' => RecvHolds /\ inbound' = inbound
  /\ pc'["recv"] \in {"filter", "admit", "queue"} =>
       pc["recv"] \in {"filter", "admit", "queue"} \/ inbound.packet.parsed
  /\ pc'["recv"] \in {"send", "io"} /\ inbound.packet.parsed => pc["recv"] \in {"send", "io"}
  /\ pc'["send"] \in {"send", "io"} => pc["send"] \in {"send", "io"} /\ in_hand' = in_hand

LEMMA OrderlyOK == OrderInv /\ Orderly => OrderInv'
<1> SUFFICES ASSUME OrderInv, Orderly PROVE OrderInv'
  OBVIOUS
<1>1. \A e \in Queue' : \E x \in Queue : x.packet = e.packet /\ x.sequence = e.sequence
  BY DEF Orderly, Queue
<1>2. \A p : Older(p) => Older(p)'
  BY DEF Orderly, Older
<1>3. processed' \in Nat /\ \A q \in sent' : q \in Packet /\ Older(q)'
  BY <1>2 DEF Orderly, OrderInv
<1>4. RecvHolds' => inbound'.packet \in Packet /\ inbound'.packet.id = processed'
  BY DEF Orderly, OrderInv
<1>5. pc'["recv"] \in {"filter", "admit", "queue"} => inbound'.packet.parsed
  BY DEF Orderly, OrderInv, RecvHolds
<1>6. \A e \in Queue' : /\ e.packet \in Packet /\ Older(e.packet)'
                        /\ e.packet.parsed /\ ~e.packet.loopback
  BY <1>1, <1>2 DEF OrderInv
<1>7. \A a, b \in Queue' : a.sequence < b.sequence => a.packet.id < b.packet.id
  <2> TAKE a \in Queue', b \in Queue'
  <2>1. PICK x \in Queue : x.packet = a.packet /\ x.sequence = a.sequence
    BY <1>1
  <2>2. PICK y \in Queue : y.packet = b.packet /\ y.sequence = b.sequence
    BY <1>1
  <2> QED BY <2>1, <2>2 DEF OrderInv
<1>8. \A q \in sent', e \in heap' : Before(q, e.packet)
  <2> TAKE q \in sent', e \in heap'
  <2>1. PICK x \in heap : x.packet = e.packet
    BY DEF Orderly
  <2> QED BY <2>1 DEF Orderly, OrderInv
<1>9. pc'["send"] \in {"send", "io"} =>
        in_hand' # {} /\ \A q \in sent', e \in in_hand' : Before(q, e.packet)
  BY DEF Orderly, OrderInv
<1>10. pc'["recv"] \in {"send", "io"} /\ inbound'.packet.parsed =>
         \A e \in Queue' : e.packet.flow # inbound'.packet.flow
  <2> SUFFICES ASSUME pc'["recv"] \in {"send", "io"}, inbound'.packet.parsed, NEW e \in Queue'
               PROVE  e.packet.flow # inbound'.packet.flow
    OBVIOUS
  <2>1. inbound' = inbound /\ pc["recv"] \in {"send", "io"}
    BY DEF Orderly, RecvHolds
  <2>2. PICK x \in Queue : x.packet = e.packet
    BY <1>1
  <2> QED BY <2>1, <2>2 DEF OrderInv
<1> QED BY <1>3, <1>4, <1>5, <1>6, <1>7, <1>8, <1>9, <1>10 DEF OrderInv

\* Deadlines alone change when packets are released.
LEMMA ReleaseOrderly ==
  ASSUME DQP!IInv, NEW S, DQ!ReleaseMatching(S)
  PROVE  /\ in_hand' = in_hand
         /\ \A e \in heap' : \E x \in heap : x.packet = e.packet /\ x.sequence = e.sequence
<1>1. heap' = {DQ!Released(e, S) : e \in heap} /\ in_hand' = in_hand
  BY DEF DQ!ReleaseMatching
<1>2. ASSUME NEW x \in heap
      PROVE  DQ!Released(x, S).packet = x.packet /\ DQ!Released(x, S).sequence = x.sequence
  <2>1. x \in DQP!Entry
    BY DEF DQP!IInv, DQP!TypeOK
  <2> QED BY <2>1 DEF DQP!Entry, DQ!Released
<1> QED BY <1>1, <1>2

LEMMA OrderFail ==
  ASSUME GateInv, FlagInv, DQP!IInv, OrderInv, NEW t \in Thread, Fail(t) PROVE OrderInv'
<1> SUFFICES Orderly
  BY OrderlyOK
<1> USE DEF Orderly, RecvHolds, GateInv, Places, Sender, Thread, Goto, countVars, queueVars
<1>1. CASE Mark(t)
  BY <1>1 DEF Mark
<1>2. CASE Close(t)
  BY <1>2 DEF Close
<1>3. CASE Unblock(t)
  BY <1>3 DEF Unblock
<1>4. CASE Flush(t)
  <2>1. /\ in_hand' = in_hand
        /\ \A e \in heap' : \E x \in heap : x.packet = e.packet /\ x.sequence = e.sequence
    BY <1>4, ReleaseOrderly DEF Flush, ReleaseAll
  <2>2. /\ pc' = [pc EXCEPT ![t] = AfterFail(t),
                           !["send"] = IF pc["send"] = "asleep" THEN "awake" ELSE @]
        /\ pc[t] = "flush" /\ UNCHANGED <<processed, sent, inbound>>
    BY <1>4 DEF Flush, GotoNotifying
  <2>3. /\ t = "recv" => AfterFail(t) \in {"recv", "end"}
        /\ t = "send" => AfterFail(t) \in {"finish", "discard"}
        /\ t = "ui" => AfterFail(t) = "join"
    BY <2>2 DEF AfterFail, FlagInv, Failure
  <2> QED BY <2>1, <2>2, <2>3
<1> QED BY <1>1, <1>2, <1>3, <1>4 DEF Fail

LEMMA OrderReceive ==
  ASSUME GateInv, OrderInv, NEW k \in Kind, Receive(k) PROVE OrderInv'
<1> USE DEF GateInv, Places, Sender, Thread, Goto, queueVars
<1>1. /\ processed' = processed + 1 /\ processed' \in 1 .. MaxArrivals
      /\ pc'["recv"] = "check" /\ pc'["send"] = pc["send"] /\ pc["recv"] = "recv"
      /\ inbound'.packet = Captured(k, processed + 1, NoPid)
      /\ UNCHANGED <<heap, in_hand, sent>>
  BY BoundAssumption DEF Receive, OrderInv
<1>2. inbound'.packet \in Packet /\ inbound'.packet.id = processed'
  <2>1. processed + 1 \in 1 .. MaxArrivals
    BY <1>1
  <2>2. Captured(k, processed + 1, NoPid) \in Packet
    BY <2>1 DEF Packet
  <2> QED BY <1>1, <2>2 DEF Captured
<1>3. ASSUME NEW p \in Packet, Older(p) PROVE Older(p)'
  BY <1>1, <1>3, PacketFields DEF Older, OrderInv
<1>4. \A q \in sent' : q \in Packet /\ Older(q)'
  BY <1>1, <1>3 DEF OrderInv
<1>5. \A e \in Queue' : /\ e.packet \in Packet /\ Older(e.packet)'
                        /\ e.packet.parsed /\ ~e.packet.loopback
  BY <1>1, <1>3 DEF OrderInv, Queue
<1> QED BY <1>1, <1>2, <1>4, <1>5 DEF OrderInv, Queue

LEMMA OrderFilter ==
  ASSUME GateInv, OrderInv, NEW k \in Kind, NEW found \in {k.pid, NoPid}, RecvFilter(k, found)
  PROVE  OrderInv'
<1> USE DEF GateInv, Places, Sender, Thread, Goto, queueVars
<1>1. /\ pc["recv"] = "filter" /\ pc'["recv"] \in {"recv", "admit"} /\ pc'["send"] = pc["send"]
      /\ inbound'.packet = Captured(k, processed, found) \/ inbound' = inbound
      /\ inbound.packet = Captured(k, processed, NoPid)
      /\ UNCHANGED <<heap, in_hand, sent, processed>>
  BY DEF RecvFilter
<1>2. /\ RecvHolds /\ inbound.packet \in Packet /\ inbound.packet.parsed
      /\ inbound.packet.id = processed
  BY <1>1 DEF OrderInv, RecvHolds
<1>3. PICK j \in Kind, i \in 1 .. MaxArrivals, pid \in Pid \cup {NoPid} :
        inbound.packet = Captured(j, i, pid)
  BY <1>2 DEF Packet
<1>4. i = processed /\ found \in Pid \cup {NoPid} /\ k.parsed
  BY <1>1, <1>2, <1>3 DEF Captured, Pid
<1>5. inbound'.packet \in Packet /\ inbound'.packet.id = processed /\ inbound'.packet.parsed
  <2>1. Captured(k, processed, found) \in Packet
    BY <1>4 DEF Packet
  <2> QED BY <1>1, <1>2, <1>4, <2>1 DEF Captured
<1>6. \A p : Older(p) => Older(p)'
  BY <1>1, <1>2 DEF Older, OrderInv
<1> QED BY <1>1, <1>5, <1>6 DEF OrderInv, Queue

LEMMA OrderQueue ==
  ASSUME GateInv, DQP!IInv, OrderInv, RecvQueue PROVE OrderInv'
<1> USE DEF GateInv, Places, Sender, Thread
<1> DEFINE p == inbound.packet
           deadline == IF draining THEN inbound.at ELSE inbound.at + Delay(p)
<1>1. /\ pc["recv"] = "queue" /\ RecvHolds /\ p \in Packet /\ p.id = processed /\ p.parsed
      /\ UNCHANGED <<processed, sent, inbound>>
      /\ pc'["send"] = pc["send"] \/ (pc["send"] = "asleep" /\ pc'["send"] = "awake")
  BY DEF RecvQueue, OrderInv, RecvHolds, Goto, GotoNotifying
<1>2. CASE MustQueue(p) /\ DQ!Enqueue(p, deadline) /\ GotoNotifying("recv", "recv")
  <2>1. pc'["recv"] = "recv" /\ ~p.loopback
    BY <1>2 DEF GotoNotifying, MustQueue
  <2> DEFINE new == [packet |-> p, deadline |-> DQ!QueuedDeadline(p, deadline),
                     sequence |-> next_sequence, due |-> deadline, since |-> now]
  <2>2. heap' = heap \cup {new} /\ new.packet = p /\ new.sequence = next_sequence
    BY <1>2 DEF DQ!Enqueue
  <2>3. in_hand' = in_hand /\ Queue' = Queue \cup {new}
    BY <1>2, <2>2 DEF DQ!Enqueue, Queue
  <2>4. \A e \in Queue : e.sequence < next_sequence /\ e.sequence \in Nat
    BY DEF DQP!IInv, DQP!Distinct, DQP!TypeOK, DQP!Held, DQP!Entry, Queue
  <2>5. next_sequence \in Nat
    BY DEF DQP!IInv, DQP!TypeOK
  <2>6. \A q : Older(q) => q.id < processed /\ Older(q)'
    BY <1>1, <2>1 DEF Older, RecvHolds
  <2>7. Older(p)'
    BY <1>1, <2>1 DEF Older, RecvHolds, OrderInv
  <2> HIDE DEF p, deadline, new
  <2>8. \A e \in Queue' : /\ e.packet \in Packet /\ Older(e.packet)'
                          /\ e.packet.parsed /\ ~e.packet.loopback
    <3>1. ASSUME NEW e \in Queue PROVE e.packet \in Packet /\ Older(e.packet)'
                                       /\ e.packet.parsed /\ ~e.packet.loopback
      BY <2>6 DEF OrderInv
    <3> QED BY <1>1, <2>1, <2>2, <2>3, <2>7, <3>1 DEF p
  <2>9. \A a, b \in Queue' : a.sequence < b.sequence => a.packet.id < b.packet.id
    BY <1>1, <2>2, <2>3, <2>4, <2>5, <2>6 DEF OrderInv
  <2>10. \A q \in sent', e \in heap' : Before(q, e.packet)
    BY <1>1, <2>2, <2>6 DEF OrderInv, Before
  <2>11. \A q \in sent' : q \in Packet /\ Older(q)'
    BY <1>1, <2>6 DEF OrderInv
  <2> QED BY <1>1, <2>1, <2>3, <2>8, <2>9, <2>10, <2>11 DEF OrderInv, RecvHolds
<1>3. CASE Drop("queue", 1) /\ Goto("recv", "recv") /\ UNCHANGED queueVars
  <2>1. Orderly
    BY <1>1, <1>3 DEF Orderly, RecvHolds, Goto, queueVars
  <2> QED BY <2>1, OrderlyOK
<1>4. CASE ~MustQueue(p) /\ Goto("recv", "send") /\ UNCHANGED queueVars
  <2>1. pc'["recv"] = "send" /\ pc'["send"] = pc["send"] /\ RecvHolds'
    BY <1>4 DEF Goto, RecvHolds
  <2>2. UNCHANGED <<heap, in_hand>>
    BY <1>4 DEF queueVars
  <2>3. ASSUME NEW e \in Queue PROVE e.packet.flow # p.flow
    <3>1. e.packet.flow \in DOMAIN flows
      BY DEF DQP!IInv, DQP!CountsExact, DQP!Held, Queue
    <3>2. e.packet \in Packet /\ e.packet.parsed /\ ~e.packet.loopback
      BY DEF OrderInv
    <3>3. CASE p.loopback
      BY <1>1, <3>2, <3>3, PacketFields
    <3>4. CASE ~p.loopback
      BY <1>4, <3>1, <3>4 DEF MustQueue, DQ!HasFlow
    <3> QED BY <3>3, <3>4
  <2>4. \A q : Older(q) => Older(q)'
    BY <1>1, <2>1 DEF Older
  <2> HIDE DEF p, deadline
  <2> QED BY <1>1, <2>1, <2>2, <2>3, <2>4 DEF OrderInv, Queue, RecvHolds, p
<1> QED BY <1>2, <1>3, <1>4 DEF RecvQueue

LEMMA OrderRecv ==
  ASSUME GateInv, DQP!IInv, OrderInv,
         ReceiveError \/ RecvCheck \/ RecvAdmit \/ RecvEnd \/ \E t \in Sender : SendCheck(t)
  PROVE  OrderInv'
<1> SUFFICES Orderly
  BY OrderlyOK
<1> USE DEF Orderly, RecvHolds, GateInv, Places, Sender, Thread, Goto, countVars, queueVars
<1>1. CASE ReceiveError
  BY <1>1 DEF ReceiveError
<1>2. CASE RecvCheck
  BY <1>2 DEF RecvCheck
<1>3. CASE RecvAdmit
  BY <1>3 DEF RecvAdmit
<1>4. CASE RecvEnd
  BY <1>4 DEF RecvEnd, GotoNotifying
<1>5. ASSUME NEW t \in Sender, SendCheck(t) PROVE Orderly
  BY <1>5 DEF SendCheck, AfterSend
<1> QED BY <1>1, <1>2, <1>3, <1>4, <1>5

LEMMA OrderIo ==
  ASSUME GateInv, EmptyInv, DQP!IInv, OrderInv, NEW t \in Sender, SendIo(t)
  PROVE  /\ OrderInv'
         /\ \A p \in sent' \ sent : \A q \in sent : Before(q, p)
<1> USE DEF GateInv, Places, Sender, Thread, Goto
<1>1. /\ pc[t] = "io" /\ UNCHANGED <<processed, heap, in_hand, inbound>>
      /\ pc' = [pc EXCEPT ![t] = pc'[t]] /\ pc'[t] \in {AfterSend(t), "mark"}
      /\ sent' \in {sent, sent \cup {InHand(t)}}
      /\ sent' # sent => pc'[t] = AfterSend(t)
  BY DEF SendIo, queueVars
<1>2. AfterSend(t) = IF t = "recv" THEN "recv" ELSE "finish"
  BY DEF AfterSend
<1>3. CASE sent' = sent
  <2>1. Orderly
    BY <1>1, <1>2, <1>3 DEF Orderly, RecvHolds
  <2> QED BY <1>3, <2>1, OrderlyOK
<1>4. CASE sent' = sent \cup {InHand(t)} /\ t = "recv" /\ pc'["recv"] = "recv"
  <2>1. /\ RecvHolds /\ ~RecvHolds' /\ pc'["send"] = pc["send"]
        /\ InHand(t) = inbound.packet /\ inbound.packet \in Packet /\ inbound.packet.id = processed
    BY <1>1, <1>4 DEF RecvHolds, InHand, OrderInv
  <2>2. \A q : Older(q) => q.id < processed /\ Older(q)'
    BY <1>1, <2>1 DEF Older
  <2>3. Older(inbound.packet)'
    BY <1>1, <2>1 DEF Older, OrderInv
  <2>4. \A q \in sent : Before(q, inbound.packet)
    BY <2>1, <2>2 DEF OrderInv, Before
  <2>5. \A e \in Queue : Before(inbound.packet, e.packet)
    BY <1>1, <1>4 DEF OrderInv, Before
  <2> QED BY <1>1, <1>4, <2>1, <2>2, <2>3, <2>4, <2>5 DEF OrderInv, Queue, RecvHolds
<1>5. CASE sent' = sent \cup {InHand(t)} /\ t = "send" /\ pc'["send"] = "finish"
  <2>1. PICK e \in in_hand : in_hand = {e} /\ InHand(t) = e.packet
    BY <1>1, <1>5 DEF EmptyInv, OrderInv, InHand
  <2>2. pc'["recv"] = pc["recv"] /\ (RecvHolds' <=> RecvHolds)
    BY <1>1, <1>5 DEF RecvHolds
  <2>3. \A p : Older(p) => Older(p)'
    BY <1>1, <2>2 DEF Older
  <2>4. \A q \in sent : Before(q, e.packet)
    BY <1>1, <1>5, <2>1 DEF OrderInv
  <2>5. ASSUME NEW x \in heap PROVE Before(e.packet, x.packet)
    <3>1. e.packet.flow = x.packet.flow => e.sequence < x.sequence
      BY <2>1 DEF DQP!IInv, DQP!Order, DQP!SameFlow
    <3> QED BY <2>1, <3>1 DEF OrderInv, Before, Queue
  <2>6. e.packet \in Packet /\ Older(e.packet)
    BY <2>1 DEF OrderInv, Queue
  <2> QED BY <1>1, <1>5, <2>1, <2>2, <2>3, <2>4, <2>5, <2>6 DEF OrderInv, Queue
<1> QED BY <1>1, <1>2, <1>3, <1>4, <1>5

LEMMA OrderSend ==
  ASSUME GateInv, EmptyInv, DQP!IInv, OrderInv, SendWake \/ SendTurn \/ SendFinish \/ SendDiscard
  PROVE  OrderInv'
<1> USE DEF GateInv, Places, Sender, Thread, Goto
<1>1. CASE SendWake \/ SendFinish \/ SendDiscard
  <2> USE DEF Orderly, RecvHolds, countVars, queueVars
  <2>1. CASE SendWake
    BY <2>1, OrderlyOK DEF SendWake
  <2>2. CASE SendFinish
    BY <2>2, OrderlyOK DEF SendFinish, DQ!Finish
  <2>3. CASE SendDiscard
    BY <2>3, OrderlyOK DEF SendDiscard, DiscardPending, DQ!Clear
  <2> QED BY <1>1, <2>1, <2>2, <2>3
<1>2. CASE SendTurn
  <2>1. /\ pc["send"] = "turn" /\ in_hand = {} /\ UNCHANGED <<processed, sent, inbound>>
        /\ pc'["recv"] = pc["recv"]
    BY <1>2 DEF SendTurn, EmptyInv, SendOwes, Failure, countVars
  <2>2. CASE UNCHANGED queueVars /\ pc'["send"] \in {"done", "asleep"}
    <3>1. Orderly
      BY <2>1, <2>2 DEF Orderly, RecvHolds, queueVars
    <3> QED BY <3>1, OrderlyOK
  <2>3. ASSUME NEW e \in heap, DQ!Pop(e) PROVE OrderInv'
    <3>1. in_hand' = {e} /\ heap' = heap \ {e} /\ Queue' = Queue
      BY <2>1, <2>3 DEF DQ!Pop, Queue
    <3>2. RecvHolds' <=> RecvHolds
      BY <2>1 DEF RecvHolds
    <3>3. \A p : Older(p) => Older(p)'
      BY <2>1, <3>2 DEF Older
    <3> QED BY <2>1, <3>1, <3>2, <3>3 DEF OrderInv
  <2> QED BY <1>2, <2>2, <2>3 DEF SendTurn
<1> QED BY <1>1, <1>2

LEMMA OrderUi ==
  ASSUME GateInv, FlagInv, DQP!IInv, OrderInv,
         \/ ApplyRunning \/ ApplySync \/ Start \/ Stop \/ RequestStop \/ Drain
         \/ ShutdownRecv \/ Stopped \/ Open \/ SpawnRecv \/ Snapshot \/ Tell \/ Tick
  PROVE  OrderInv'
<1> USE DEF GateInv, Places, Sender, Thread, Goto, countVars, queueVars
<1>1. CASE ApplyRunning \/ ApplySync \/ RequestStop \/ ShutdownRecv \/ SpawnRecv
  BY <1>1, OrderlyOK DEF Orderly, RecvHolds, ApplyRunning, ApplySync, RequestStop, ShutdownRecv,
                         SpawnRecv
<1>2. CASE Start \/ Stop \/ Snapshot \/ Tell
  BY <1>2, OrderlyOK DEF Orderly, RecvHolds, Start, Stop, StopFor, Snapshot, Tell
<1>3. CASE Tick
  BY <1>3, OrderlyOK DEF Orderly, RecvHolds, Tick, DQ!Tick, DQ!queueVars, threadVars
<1>4. CASE Drain
  <2>1. /\ in_hand' = in_hand
        /\ \A e \in heap' : \E x \in heap : x.packet = e.packet /\ x.sequence = e.sequence
    BY <1>4, ReleaseOrderly DEF Drain, ReleaseAll
  <2> QED BY <1>4, <2>1, OrderlyOK DEF Orderly, RecvHolds, Drain, GotoNotifying
<1>5. CASE Stopped
  BY <1>5, OrderlyOK DEF Orderly, RecvHolds, Stopped, DiscardPending, DQ!Clear
<1>6. CASE Open
  <2>1. pc["recv"] = "off" /\ pc["send"] = "off" /\ UNCHANGED inbound
    BY <1>6 DEF Open
  <2>2. pc'["recv"] = "off" /\ pc'["send"] \in {"off", "awake"}
    BY <1>6, <2>1 DEF Open
  <2>3. CASE UNCHANGED countVars /\ UNCHANGED queueVars
    BY <2>1, <2>2, <2>3, OrderlyOK DEF Orderly, RecvHolds
  <2>4. CASE ResetCounters
    BY <2>2, <2>4 DEF ResetCounters, DQ!Clear, OrderInv, RecvHolds, Queue
  <2> QED BY <1>6, <2>3, <2>4 DEF Open
<1> QED BY <1>1, <1>2, <1>3, <1>4, <1>5, <1>6

LEMMA OrderChange ==
  ASSUME GateInv, DQP!IInv, OrderInv, NEW r, NEW g, NEW revised, Change(r, g, revised)
  PROVE  OrderInv'
<1>1. /\ in_hand' = in_hand
      /\ \A e \in heap' : \E x \in heap : x.packet = e.packet /\ x.sequence = e.sequence
  BY ReleaseOrderly DEF Change, queueVars
<1> QED BY <1>1, OrderlyOK DEF Orderly, RecvHolds, Change, Goto, GotoNotifying, GateInv, Places,
                               Thread, countVars

LEMMA OrderStep ==
  GateInv /\ FlagInv /\ EmptyInv /\ DQP!IInv /\ OrderInv /\ [Next]_vars => OrderInv'
<1> SUFFICES ASSUME GateInv, FlagInv, EmptyInv, DQP!IInv, OrderInv, [Next]_vars
             PROVE  OrderInv'
  OBVIOUS
<1>1. CASE (\E k \in Kind : Receive(k)) \/ RecvStep
  BY <1>1, OrderReceive, OrderFilter, OrderQueue, OrderRecv, OrderIo, OrderFail
     DEF RecvStep, Thread, Sender
<1>2. CASE SendStep
  BY <1>2, OrderSend, OrderRecv, OrderIo, OrderFail DEF SendStep, Thread, Sender
<1>3. CASE UiStep
  BY <1>3, OrderUi, OrderFail DEF UiStep, Thread
<1>4. CASE Operation \/ Tick
  BY <1>4, OrderUi, OrderChange DEF Operation, UpdateRule, SetGlobalRule, ClearRules
<1>5. CASE UNCHANGED vars
  BY <1>5, OrderlyOK DEF vars, Orderly, RecvHolds, countVars, queueVars, threadVars
<1> QED BY <1>1, <1>2, <1>3, <1>4, <1>5 DEF Next

(***************************************************************************)
(* The packets of a flow are sent in the order they were captured, though  *)
(* two threads send them and rules, failures and stops change what waits:  *)
(* a packet passes the queue by only if its flow has none in it (engine.rs *)
(* has_flow, which counts the packet in flight too).                       *)
(***************************************************************************)
THEOREM FlowsInOrder == Spec => SentInOrder
<1>1. ASSUME GateInv, EmptyInv, DQP!IInv, OrderInv, [Next]_vars
      PROVE  [\A p \in sent' \ sent : \A q \in sent :
                p.parsed /\ q.parsed /\ p.flow = q.flow => q.id < p.id]_vars
  <2>1. CASE Next
    <3>1. \A p \in sent' \ sent : \A q \in sent : Before(q, p)
      BY <1>1, <2>1, OnlyIoSends, OrderIo
    <3> QED BY <3>1 DEF Before
  <2> QED BY <1>1, <2>1
<1> QED BY <1>1, QueueInductive, GateInit, GateStep, FlagInit, FlagStep, EmptyInit, EmptyStep,
           OrderInit, OrderStep, PTL DEF Spec, SentInOrder

-----------------------------------------------------------------------------
(***************************************************************************)
(* The accounts.  What was captured is sent, dropped, lost, waiting or     *)
(* held; a packet the send thread holds, or is about to discard, is the    *)
(* one the queue still counts as in hand; and no packet is sent twice: no  *)
(* packet that waits or is held was sent before.                           *)
(***************************************************************************)
Waits == Cardinality(heap)
Holds == (IF RecvHolds THEN 1 ELSE 0) + (IF SendHolds THEN 1 ELSE 0)
Kept == Waits + (Holds + dropped)

AccountInv ==
  /\ processed = (Cardinality(sent) + lost) + Kept
  /\ dropped = SumFunctionOnSet(drops, Reason)
  /\ drops \in [Reason -> Nat]
  /\ dropped \in Nat /\ lost \in Nat
  /\ IsFiniteSet(sent)
  /\ SendHolds => in_hand # {}
  /\ \A q \in sent, e \in heap : q.id # e.packet.id
  /\ pc["send"] \in {"send", "io"} => \A q \in sent, e \in in_hand : q.id # e.packet.id

\* The queue's own proof speaks of the same finite sets and the same sizes.
LEMMA QueueSizes ==
  ASSUME DQP!IInv
  PROVE  /\ IsFiniteSet(heap) /\ IsFiniteSet(in_hand)
         /\ usage.packets = Cardinality(heap) + Cardinality(in_hand)
         /\ usage.packets \in Int /\ heap \subseteq DQP!Entry /\ in_hand \subseteq DQP!Entry
<1>1. \A S : DQP!IsFiniteSet(S) = IsFiniteSet(S)
  BY DEF DQP!IsFiniteSet, IsFiniteSet
<1>2. \A S : DQP!Cardinality(S) = Cardinality(S)
  BY DEF DQP!Cardinality, Cardinality, DQP!IsFiniteSet, IsFiniteSet
<1>3. DQP!IsFiniteSet(heap) /\ DQP!IsFiniteSet(in_hand)
  BY DEF DQP!IInv, DQP!Finite
<1>4. usage.packets = DQP!Cardinality(heap) + DQP!Cardinality(in_hand)
  BY DEF DQP!IInv, DQP!CountsExact
<1>5. /\ usage.packets \in Int
      /\ heap \subseteq DQP!Entry /\ in_hand \subseteq DQP!Entry
  BY DEF DQP!IInv, DQP!TypeOK, DQP!Usage
<1> QED BY <1>1, <1>2, <1>3, <1>4, <1>5

(***************************************************************************)
(* What is popped is finished before the next packet is, whatever fails:   *)
(* the queue counts one packet more than wait in it exactly while the send *)
(* thread has one to finish, or to discard with the rest, and knows that   *)
(* one's flow until then (engine.rs: send_loop, finish, discard_pending).  *)
(***************************************************************************)
THEOREM PoppedIsFinished == Spec => []FinishedOnce
<1>1. ASSUME EmptyInv, DQP!IInv PROVE FinishedOnce
  <2>1. /\ usage.packets = Cardinality(heap) + Cardinality(in_hand)
        /\ IsFiniteSet(heap)
    BY <1>1, QueueSizes
  <2>2. CASE SendOwes
    <3> DEFINE e == CHOOSE x \in in_hand : TRUE
    <3>1. e \in in_hand /\ in_hand = {e}
      BY <1>1, <2>2 DEF EmptyInv
    <3> HIDE DEF e
    <3>2. Cardinality(in_hand) = 1
      BY <3>1, FS_Singleton
    <3>3. InHand("send") = e.packet
      BY DEF InHand, e
    <3>4. e \in DQP!Held
      BY <3>1 DEF DQP!Held
    <3>5. DOMAIN flows = {x.packet.flow : x \in DQP!Held}
      BY <1>1 DEF DQP!IInv, DQP!CountsExact
    <3>6. DQ!HasFlow(InHand("send").flow)
      BY <3>3, <3>4, <3>5 DEF DQ!HasFlow
    <3> QED BY <2>1, <2>2, <3>2, <3>6 DEF FinishedOnce
  <2>3. CASE ~SendOwes
    <3>1. in_hand = {}
      BY <1>1, <2>3 DEF EmptyInv
    <3>2. Cardinality(in_hand) = 0
      BY <3>1, FS_EmptySet
    <3> QED BY <2>1, <2>3, <3>2 DEF FinishedOnce
  <2> QED BY <2>2, <2>3
<1> QED BY <1>1, QueueInductive, GateInit, GateStep, FlagInit, FlagStep, EmptyInit, EmptyStep,
           PTL DEF Spec

\* Releasing waiting packets takes none away: they keep their numbers in the queue.
LEMMA ReleaseSizes ==
  ASSUME DQP!IInv, NEW S, DQ!ReleaseMatching(S) PROVE Waits' = Waits
<1> DEFINE h == [x \in heap |-> DQ!Released(x, S)]
<1>1. heap' = {h[x] : x \in heap}
  BY DEF DQ!ReleaseMatching
<1>2. ASSUME NEW x \in heap PROVE h[x].sequence = x.sequence
  <2>1. x \in DQP!Entry
    BY QueueSizes
  <2> QED BY <2>1 DEF DQP!Entry, DQ!Released
<1>3. \A a, b \in heap : a.sequence = b.sequence => a = b
  BY DEF DQP!IInv, DQP!Distinct, DQP!Held
<1>4. \A a, b \in heap : h[a] = h[b] => a = b
  <2> HIDE DEF h
  <2> QED BY <1>2, <1>3
<1> HIDE DEF h
<1>5. Cardinality({h[x] : x \in heap}) = Cardinality(heap)
  BY <1>4, QueueSizes, SameSize
<1> QED BY <1>1, <1>5 DEF Waits

LEMMA ReasonsFinite == IsFiniteSet(Reason)
<1>1. ASSUME NEW x, NEW y PROVE IsFiniteSet({x, y})
  <2>1. IsFiniteSet({x}) /\ IsFiniteSet({y}) /\ {x, y} = {x} \cup {y}
    BY FS_Singleton
  <2> QED BY <2>1, FS_Union
<1>2. Reason = ({"block", "loss"} \cup {"rate", "queue"}) \cup {"send", "shutdown"}
  BY DEF Reason
<1> QED BY <1>1, <1>2, FS_Union

LEMMA AccountInit == Init => AccountInv
<1> SUFFICES ASSUME Init PROVE AccountInv
  OBVIOUS
<1>1. /\ pc = [t \in Thread |-> IF t = "ui" THEN "idle" ELSE "off"]
      /\ heap = {} /\ sent = {} /\ processed = 0 /\ dropped = 0 /\ lost = 0 /\ drops = NoDrops
  BY DEF Init, DQ!Init
<1>2. ~RecvHolds /\ ~SendHolds
  BY <1>1 DEF RecvHolds, SendHolds, Thread, Failure
<1>3. Holds = 0 /\ Waits = 0 /\ Cardinality(sent) = 0 /\ IsFiniteSet(sent)
  BY <1>1, <1>2, FS_EmptySet DEF Holds, Waits
<1>4. SumFunctionOnSet(drops, Reason) = 0
  BY <1>1, ReasonsFinite, SumOfZeros DEF NoDrops
<1> QED BY <1>1, <1>2, <1>3, <1>4 DEF AccountInv, Kept, NoDrops, Thread

LEMMA HoldsType ==
  /\ RecvHolds \in BOOLEAN /\ SendHolds \in BOOLEAN
  /\ Holds \in 0 .. 2
BY DEF RecvHolds, SendHolds, Holds

LEMMA CountTypes ==
  ASSUME AccountInv, DQP!IInv PROVE Waits \in Nat /\ Cardinality(sent) \in Nat
BY QueueSizes, FS_CardinalityType DEF AccountInv, Waits

\* The total follows the counters of the reasons.
LEMMA DropCounted ==
  ASSUME AccountInv, NEW reason \in Reason, NEW n \in Nat, Drop(reason, n)
  PROVE  /\ dropped' = dropped + n /\ dropped' \in Nat
         /\ dropped' = SumFunctionOnSet(drops', Reason)
         /\ drops' \in [Reason -> Nat]
<1>1. /\ dropped' = dropped + n /\ drops' = [drops EXCEPT ![reason] = @ + n]
      /\ drops \in [Reason -> Nat]
      /\ dropped = SumFunctionOnSet(drops, Reason) /\ dropped \in Nat
  BY DEF Drop, AccountInv
<1>2. /\ drops'[reason] = drops[reason] + n
      /\ \A r \in Reason \ {reason} : drops'[r] = drops[r]
      /\ DOMAIN drops' = Reason
  BY <1>1
<1>3. SumFunctionOnSet(drops', Reason) = SumFunctionOnSet(drops, Reason) + n
  <2>1. \A r \in Reason : drops[r] \in Int
    BY <1>1
  <2>2. n \in Int
    OBVIOUS
  <2> QED BY <1>2, <2>1, <2>2, ReasonsFinite, SumRaised
<1> QED BY <1>1, <1>2, <1>3

(***************************************************************************)
(* A step that captures, sends and loses nothing: what no longer waits and *)
(* is no longer held is dropped, and no packet is queued or taken up.      *)
(***************************************************************************)
Steady ==
  /\ UNCHANGED <<processed, sent, lost>>
  /\ UNCHANGED <<drops, dropped>> \/ \E r \in Reason, n \in Nat : Drop(r, n)
  /\ Kept' = Kept
  /\ \A e \in heap' : \E x \in heap : x.packet = e.packet
  /\ SendHolds' => SendHolds /\ in_hand' = in_hand
  /\ pc'["send"] \in {"send", "io"} => pc["send"] \in {"send", "io"}

LEMMA SteadyOK == ASSUME AccountInv, Steady PROVE AccountInv'
<1>1. /\ dropped' \in Nat
      /\ dropped' = SumFunctionOnSet(drops', Reason)
      /\ drops' \in [Reason -> Nat]
  <2>1. CASE UNCHANGED <<drops, dropped>>
    BY <2>1 DEF AccountInv
  <2>2. CASE \E r \in Reason, n \in Nat : Drop(r, n)
    BY <2>2, DropCounted
  <2> QED BY <2>1, <2>2 DEF Steady
<1>2. processed' = (Cardinality(sent') + lost') + Kept'
  BY DEF Steady, AccountInv
<1>3. \A q \in sent', e \in heap' : q.id # e.packet.id
  BY DEF Steady, AccountInv
<1>4. pc'["send"] \in {"send", "io"} => \A q \in sent', e \in in_hand' : q.id # e.packet.id
  BY DEF Steady, AccountInv, SendHolds
<1>5. SendHolds' => in_hand' # {}
  BY DEF Steady, AccountInv
<1>6. IsFiniteSet(sent') /\ lost' \in Nat
  BY DEF Steady, AccountInv
<1> QED BY <1>1, <1>2, <1>3, <1>4, <1>5, <1>6 DEF AccountInv

\* Of what no longer waits and is no longer held each packet is dropped.
LEMMA KeptSame ==
  ASSUME AccountInv, DQP!IInv, Waits' = Waits,
         \/ Holds' = Holds /\ UNCHANGED <<drops, dropped>>
         \/ Holds = Holds' + 1 /\ \E r \in Reason : Drop(r, 1)
  PROVE  /\ Kept' = Kept
         /\ UNCHANGED <<drops, dropped>> \/ \E r \in Reason, n \in Nat : Drop(r, n)
<1>1. Waits \in Nat /\ dropped \in Nat /\ Holds \in Nat /\ Holds' \in Nat
  BY CountTypes DEF AccountInv, Holds
<1>2. CASE Holds' = Holds /\ UNCHANGED <<drops, dropped>>
  BY <1>1, <1>2 DEF Kept
<1>3. CASE Holds = Holds' + 1 /\ \E r \in Reason : Drop(r, 1)
  <2>1. dropped' = dropped + 1
    BY <1>3, DropCounted
  <2> QED BY <1>1, <1>3, <2>1 DEF Kept
<1> QED BY <1>2, <1>3

LEMMA KeptLess ==
  ASSUME AccountInv, DQP!IInv, Waits' = Waits, dropped' = dropped, Holds = Holds' + 1
  PROVE  Kept = Kept' + 1 /\ Kept' \in Nat
<1>1. Waits \in Nat /\ dropped \in Nat /\ Holds' \in Nat
  BY CountTypes DEF AccountInv, Holds
<1>2. \A w, h, d \in Nat : w + ((h + 1) + d) = (w + (h + d)) + 1 /\ w + (h + d) \in Nat
  OBVIOUS
<1>3. Kept = Waits + ((Holds' + 1) + dropped) /\ Kept' = Waits + (Holds' + dropped)
  BY Zenon DEF Kept
<1> QED BY <1>1, <1>2, <1>3, Zenon

\* A step that leaves the queue alone as well: a packet a thread gives up is dropped.
Even ==
  /\ UNCHANGED <<processed, sent, lost, heap>>
  /\ \/ Holds' = Holds /\ UNCHANGED <<drops, dropped>>
     \/ Holds = Holds' + 1 /\ \E r \in Reason : Drop(r, 1)
  /\ SendHolds' => SendHolds /\ in_hand' = in_hand
  /\ pc'["send"] \in {"send", "io"} => pc["send"] \in {"send", "io"}

LEMMA EvenOK == ASSUME AccountInv, DQP!IInv, Even PROVE AccountInv'
<1>1. Waits' = Waits
  BY DEF Waits, Even
<1>2. Kept' = Kept /\ (UNCHANGED <<drops, dropped>> \/ \E r \in Reason, n \in Nat : Drop(r, n))
  BY <1>1, KeptSame DEF Even
<1> QED BY <1>2, SteadyOK DEF Steady, Even

\* A step of releasing: the queue keeps its packets and no thread gives one up.
LEMMA ReleaseOK ==
  ASSUME AccountInv, DQP!IInv, NEW S, DQ!ReleaseMatching(S), UNCHANGED countVars,
         Holds' = Holds, SendHolds' => SendHolds,
         pc'["send"] \in {"send", "io"} => pc["send"] \in {"send", "io"}
  PROVE  AccountInv'
<1>1. Waits' = Waits
  BY ReleaseSizes
<1>2. Kept' = Kept
  BY <1>1 DEF Kept, countVars
<1>3. in_hand' = in_hand /\ \A e \in heap' : \E x \in heap : x.packet = e.packet
  BY ReleaseOrderly
<1> QED BY <1>2, <1>3, SteadyOK DEF Steady, countVars

LEMMA AccountFail ==
  ASSUME GateInv, FlagInv, DQP!IInv, AccountInv, NEW t \in Thread, Fail(t) PROVE AccountInv'
<1> USE DEF RecvHolds, SendHolds, Holds, Failure, GateInv, Places, Sender, Thread, Goto
<1>1. CASE Mark(t)
  BY <1>1, EvenOK DEF Even, Mark, countVars, queueVars
<1>2. CASE Close(t)
  BY <1>2, EvenOK DEF Even, Close, countVars, queueVars
<1>3. CASE Unblock(t)
  BY <1>3, EvenOK DEF Even, Unblock, countVars, queueVars
<1>4. CASE Flush(t)
  <2>1. /\ pc' = [pc EXCEPT ![t] = AfterFail(t),
                           !["send"] = IF pc["send"] = "asleep" THEN "awake" ELSE @]
        /\ pc[t] = "flush" /\ UNCHANGED countVars /\ after' = after
    BY <1>4 DEF Flush, GotoNotifying
  <2>2. /\ t = "recv" => AfterFail(t) \in {"recv", "end"}
        /\ t = "send" => AfterFail(t) = after["send"] /\ AfterFail(t) \in {"finish", "discard"}
        /\ t = "ui" => AfterFail(t) = "join"
    BY <2>1 DEF AfterFail, FlagInv
  <2>3. /\ RecvHolds' <=> RecvHolds
        /\ SendHolds' <=> SendHolds
        /\ pc'["send"] \in {"send", "io"} => pc["send"] \in {"send", "io"}
    BY <2>1, <2>2
  <2>4. Holds' = Holds
    BY <2>3
  <2> HIDE DEF RecvHolds, SendHolds, Holds
  <2> QED BY <1>4, <2>1, <2>3, <2>4, ReleaseOK DEF Flush, ReleaseAll
<1> QED BY <1>1, <1>2, <1>3, <1>4 DEF Fail

LEMMA AccountReceive ==
  ASSUME GateInv, DQP!IInv, AccountInv, NEW k \in Kind, Receive(k) PROVE AccountInv'
<1>1. /\ processed' = processed + 1 /\ UNCHANGED <<heap, in_hand, sent, lost, drops, dropped>>
      /\ pc'["send"] = pc["send"] /\ after' = after
      /\ pc["recv"] = "recv" /\ pc'["recv"] = "check"
  BY DEF Receive, Goto, GateInv, Places, Thread, queueVars
<1>2. Holds' = Holds + 1 /\ (SendHolds' <=> SendHolds)
  BY <1>1 DEF Holds, RecvHolds, SendHolds
<1>3. Waits' = Waits
  BY <1>1 DEF Waits
<1>4. /\ Waits \in Nat /\ dropped \in Nat /\ Holds \in Nat /\ lost \in Nat
      /\ Cardinality(sent) \in Nat
  BY CountTypes DEF AccountInv, Holds
<1>5. Kept' = Kept + 1 /\ Kept \in Nat
  BY <1>1, <1>2, <1>3, <1>4 DEF Kept
<1>6. processed' = (Cardinality(sent') + lost') + Kept'
  BY <1>1, <1>4, <1>5 DEF AccountInv
<1> QED BY <1>1, <1>2, <1>6 DEF AccountInv

LEMMA AccountRecv ==
  ASSUME GateInv, DQP!IInv, AccountInv,
         \/ ReceiveError \/ RecvCheck \/ RecvAdmit \/ RecvEnd
         \/ \E k \in Kind : \E found \in {k.pid, NoPid} : RecvFilter(k, found)
  PROVE  AccountInv'
<1> SUFFICES Even
  BY EvenOK
<1> USE DEF Even, Holds, RecvHolds, SendHolds, Failure, GateInv, Places, Thread, Goto, countVars,
            queueVars, Reason
<1>1. CASE ReceiveError
  BY <1>1 DEF ReceiveError
<1>2. CASE RecvCheck
  BY <1>2 DEF RecvCheck
<1>3. CASE RecvAdmit
  BY <1>3 DEF RecvAdmit
<1>4. CASE RecvEnd
  BY <1>4 DEF RecvEnd, GotoNotifying
<1>5. ASSUME NEW k \in Kind, NEW found, RecvFilter(k, found) PROVE Even
  BY <1>5 DEF RecvFilter
<1> QED BY <1>1, <1>2, <1>3, <1>4, <1>5

LEMMA AccountQueue ==
  ASSUME GateInv, DQP!IInv, OrderInv, AccountInv, RecvQueue PROVE AccountInv'
<1> DEFINE p == inbound.packet
           deadline == IF draining THEN inbound.at ELSE inbound.at + Delay(p)
<1>1. /\ pc["recv"] = "queue" /\ RecvHolds /\ p.id = processed
      /\ UNCHANGED <<processed, sent, lost, after>>
      /\ pc'["send"] = pc["send"] \/ (pc["send"] = "asleep" /\ pc'["send"] = "awake")
  BY DEF RecvQueue, OrderInv, RecvHolds, Goto, GotoNotifying, GateInv, Places, Thread
<1>2. SendHolds' <=> SendHolds
  BY <1>1 DEF SendHolds, Failure
<1>3. CASE DQ!Enqueue(p, deadline) /\ UNCHANGED <<drops, dropped>> /\ pc'["recv"] = "recv"
  <2> DEFINE new == [packet |-> p, deadline |-> DQ!QueuedDeadline(p, deadline),
                     sequence |-> next_sequence, due |-> deadline, since |-> now]
  <2>1. heap' = heap \cup {new} /\ in_hand' = in_hand
    BY <1>3 DEF DQ!Enqueue
  <2>2. new \notin heap
    <3>1. \A e \in heap : e.sequence # next_sequence
      <4>1. \A e \in heap : e.sequence < next_sequence /\ e.sequence \in Int
        BY DEF DQP!IInv, DQP!Distinct, DQP!TypeOK, DQP!Held, DQP!Entry
      <4> QED BY <4>1
    <3> QED BY <3>1
  <2>3. new.packet.id = processed
    BY <1>1
  <2> HIDE DEF new
  <2>4. Waits' = Waits + 1
    BY <2>1, <2>2, QueueSizes, FS_AddElement DEF Waits
  <2>5. Holds = Holds' + 1
    BY <1>1, <1>2, <1>3 DEF Holds, RecvHolds
  <2>6. Waits \in Nat /\ dropped \in Nat /\ Holds \in Nat /\ Holds' \in Nat
    BY CountTypes DEF AccountInv, Holds
  <2>7. Kept' = Kept
    BY <1>3, <2>4, <2>5, <2>6 DEF Kept
  <2>8. \A q \in sent', e \in heap' : q.id # e.packet.id
    <3>1. \A q \in sent : q.id < processed /\ processed \in Int /\ q.id \in Int
      BY <1>1, PacketFields DEF OrderInv, Older
    <3>2. \A q \in sent : q.id # new.packet.id
      BY <2>3, <3>1
    <3> QED BY <1>1, <2>1, <3>2 DEF AccountInv
  <2> HIDE DEF p, deadline
  <2> QED BY <1>1, <1>2, <1>3, <2>1, <2>7, <2>8 DEF AccountInv
<1>4. CASE Drop("queue", 1) /\ UNCHANGED <<heap, in_hand>> /\ Goto("recv", "recv")
  <2>1. pc'["recv"] = "recv" /\ pc'["send"] = pc["send"]
    BY <1>4 DEF Goto, GateInv, Places, Thread
  <2>2. Holds = Holds' + 1
    BY <1>1, <1>2, <2>1 DEF Holds, RecvHolds
  <2> QED BY <1>1, <1>2, <1>4, <2>1, <2>2, EvenOK DEF Even, Reason
<1>5. CASE UNCHANGED <<heap, in_hand, drops, dropped>> /\ Goto("recv", "send")
  <2>1. pc'["recv"] = "send" /\ pc'["send"] = pc["send"]
    BY <1>5 DEF Goto, GateInv, Places, Thread
  <2>2. Holds = Holds'
    BY <1>1, <1>2, <2>1 DEF Holds, RecvHolds
  <2> QED BY <1>1, <1>2, <1>5, <2>1, <2>2, EvenOK DEF Even
<1> HIDE DEF p, deadline
<1>6. GotoNotifying("recv", "recv") => pc'["recv"] = "recv"
  BY DEF GotoNotifying, GateInv, Places, Thread
<1> QED BY <1>3, <1>4, <1>5, <1>6 DEF RecvQueue, queueVars, p, deadline

LEMMA AccountCheck ==
  ASSUME GateInv, DQP!IInv, AccountInv, NEW t \in Sender, SendCheck(t) PROVE AccountInv'
<1> SUFFICES Even
  BY EvenOK
<1> USE DEF Even, Holds, RecvHolds, SendHolds, Failure, GateInv, Places, Sender, Thread, Goto,
            queueVars, Reason, AfterSend
<1>1. CASE t = "recv"
  BY <1>1 DEF SendCheck
<1>2. CASE t = "send"
  BY <1>2 DEF SendCheck
<1> QED BY <1>1, <1>2

LEMMA AccountIo ==
  ASSUME GateInv, EmptyInv, DQP!IInv, OrderInv, AccountInv, NEW t \in Sender, SendIo(t)
  PROVE  AccountInv'
<1> USE DEF GateInv, Places, Sender, Thread, Goto
<1>1. /\ pc[t] = "io" /\ UNCHANGED <<processed, heap, in_hand, inbound>>
      /\ pc' = [pc EXCEPT ![t] = pc'[t]]
      /\ DOMAIN after' = Thread /\ \A s \in Thread : s # t => after'[s] = after[s]
  BY DEF SendIo, queueVars
<1>2. AfterSend(t) = IF t = "recv" THEN "recv" ELSE "finish"
  BY DEF AfterSend
<1>3. Waits' = Waits
  BY <1>1 DEF Waits
<1>4. /\ Waits \in Nat /\ dropped \in Nat /\ Holds \in Nat /\ Holds' \in Nat /\ lost \in Nat
      /\ Cardinality(sent) \in Nat
  BY CountTypes DEF AccountInv, Holds
<1>5. t = "recv" => RecvHolds /\ inbound.packet.id = processed
  BY <1>1 DEF RecvHolds, OrderInv
<1>6. ASSUME t = "send"
      PROVE  SendHolds /\ \E e \in in_hand : in_hand = {e} /\ InHand(t) = e.packet
  BY <1>1, <1>6 DEF EmptyInv, OrderInv, InHand, SendHolds
<1>7. CASE pc'[t] = AfterSend(t) /\ UNCHANGED <<lost, drops, dropped, after>>
           /\ sent' = sent \cup {InHand(t)}
  <2>1. Holds = Holds' + 1 /\ (SendHolds' => SendHolds)
        /\ (t = "send" => pc'["send"] \notin {"send", "io"})
        /\ (t = "recv" => pc'["send"] = pc["send"])
    BY <1>1, <1>2, <1>7 DEF Holds, RecvHolds, SendHolds, Failure
  <2>2. Kept = Kept' + 1 /\ Kept' \in Nat
    BY <1>3, <1>7, <2>1, KeptLess
  <2>3. /\ \A q \in sent : q.id # InHand(t).id
        /\ \A e \in heap : e.packet.id # InHand(t).id
        /\ t = "recv" => \A e \in in_hand : e.packet.id # InHand(t).id
    <3>1. CASE t = "recv"
      <4>1. InHand(t).id = processed /\ processed \in Nat
        BY <1>5, <3>1 DEF InHand, OrderInv
      <4>2. /\ \A q \in sent : q.id < processed
            /\ \A e \in Queue : e.packet.id < processed
        BY <1>5, <3>1 DEF OrderInv, Older
      <4>3. /\ \A q \in sent : q.id \in Nat
            /\ \A e \in Queue : e.packet.id \in Nat
        BY PacketFields DEF OrderInv
      <4>4. /\ \A q \in sent : q.id # processed
            /\ \A e \in Queue : e.packet.id # processed
        BY <4>1, <4>2, <4>3
      <4> QED BY <4>1, <4>4 DEF Queue
    <3>2. CASE t = "send"
      <4>1. PICK h \in in_hand : in_hand = {h} /\ InHand(t) = h.packet
        BY <1>6, <3>2
      <4>2. \A q \in sent : q.id # InHand(t).id
        BY <1>1, <3>2, <4>1 DEF AccountInv
      <4>3. ASSUME NEW e \in heap PROVE e.packet.id # h.packet.id
        <5>1. e.sequence \in Int /\ h.sequence \in Int /\ e.sequence # h.sequence
          <6>1. e \in DQP!Held /\ h \in DQP!Held /\ e # h
            BY DEF DQP!IInv, DQP!Distinct, DQP!Held
          <6>2. e.sequence \in Int /\ h.sequence \in Int
            BY DEF DQP!IInv, DQP!TypeOK, DQP!Entry
          <6> QED BY <6>1, <6>2 DEF DQP!IInv, DQP!Distinct
        <5>2. e.sequence < h.sequence \/ h.sequence < e.sequence
          BY <5>1
        <5>3. e \in Queue /\ h \in Queue
          BY DEF Queue
        <5>4. e.packet.id < h.packet.id \/ h.packet.id < e.packet.id
          BY <5>2, <5>3 DEF OrderInv
        <5>5. e.packet.id \in Nat /\ h.packet.id \in Nat
          BY <5>3, PacketFields DEF OrderInv
        <5> QED BY <5>4, <5>5
      <4> QED BY <3>2, <4>1, <4>2, <4>3
    <3> QED BY <3>1, <3>2
  <2>4. IsFiniteSet(sent') /\ Cardinality(sent') = Cardinality(sent) + 1
    <3>1. InHand(t) \notin sent
      BY <2>3
    <3> QED BY <1>7, <3>1, FS_AddElement DEF AccountInv
  <2>5. processed' = (Cardinality(sent') + lost') + Kept'
    BY <1>1, <1>4, <1>7, <2>2, <2>4 DEF AccountInv
  <2>6. /\ \A q \in sent', e \in heap' : q.id # e.packet.id
        /\ pc'["send"] \in {"send", "io"} => \A q \in sent', e \in in_hand' : q.id # e.packet.id
    BY <1>1, <1>7, <2>1, <2>3 DEF AccountInv
  <2> QED BY <1>1, <1>7, <2>1, <2>4, <2>5, <2>6 DEF AccountInv
<1>8. CASE Drop("send", 1) /\ UNCHANGED <<sent, lost>>
           /\ \/ pc'[t] = AfterSend(t) /\ UNCHANGED after
              \/ pc'[t] = "mark" /\ after'[t] = AfterSend(t)
  <2>1. Holds = Holds' + 1 /\ (SendHolds' => SendHolds)
        /\ (pc'["send"] \in {"send", "io"} => pc["send"] \in {"send", "io"})
    BY <1>1, <1>2, <1>8 DEF Holds, RecvHolds, SendHolds, Failure
  <2> QED BY <1>1, <1>8, <2>1, EvenOK DEF Even, Reason
<1>9. CASE pc'[t] = "mark" /\ after'[t] = (IF t = "recv" THEN "end" ELSE "discard")
           /\ lost' = (IF t = "recv" THEN lost + 1 ELSE lost) /\ UNCHANGED <<sent, drops, dropped>>
  <2>1. CASE t = "recv"
    <3>1. Holds = Holds' + 1 /\ (SendHolds' <=> SendHolds) /\ pc'["send"] = pc["send"]
      BY <1>1, <1>9, <2>1 DEF Holds, RecvHolds, SendHolds, Failure
    <3>2. Kept = Kept' + 1 /\ Kept' \in Nat /\ lost' = lost + 1
      BY <1>3, <1>9, <2>1, <3>1, KeptLess
    <3>3. processed' = (Cardinality(sent') + lost') + Kept'
      BY <1>1, <1>4, <1>9, <3>2 DEF AccountInv
    <3> QED BY <1>1, <1>4, <1>9, <3>1, <3>2, <3>3 DEF AccountInv
  <2>2. CASE t = "send"
    <3>1. Holds' = Holds /\ SendHolds /\ pc'["send"] = "mark"
      BY <1>1, <1>9, <2>2 DEF Holds, RecvHolds, SendHolds, Failure
    <3> QED BY <1>1, <1>9, <2>2, <3>1, EvenOK DEF Even
  <2> QED BY <2>1, <2>2
<1> QED BY <1>2, <1>7, <1>8, <1>9 DEF SendIo

LEMMA AccountTurn ==
  ASSUME GateInv, EmptyInv, DQP!IInv, AccountInv, SendTurn PROVE AccountInv'
<1> USE DEF GateInv, Places, Thread, Goto
<1>1. /\ pc["send"] = "turn" /\ in_hand = {} /\ UNCHANGED <<countVars, after>>
      /\ pc'["recv"] = pc["recv"] /\ pc'["send"] \in {"send", "done", "asleep"}
  BY DEF SendTurn, EmptyInv, SendOwes, Failure
<1>2. CASE UNCHANGED queueVars /\ pc'["send"] \in {"done", "asleep"}
  <2>1. Even
    BY <1>1, <1>2 DEF Even, Holds, RecvHolds, SendHolds, Failure, countVars, queueVars
  <2> QED BY <2>1, EvenOK
<1>3. ASSUME NEW e \in heap, DQ!Pop(e), pc'["send"] = "send" PROVE AccountInv'
  <2>1. in_hand' = {e} /\ heap' = heap \ {e}
    BY <1>1, <1>3 DEF DQ!Pop
  <2>2. Waits = Waits' + 1 /\ Waits' \in Nat
    <3>1. IsFiniteSet(heap \ {e}) /\ Cardinality(heap \ {e}) = Cardinality(heap) - 1
      BY QueueSizes, FS_RemoveElement
    <3>2. Cardinality(heap \ {e}) \in Nat /\ Cardinality(heap) \in Nat
      BY <3>1, QueueSizes, FS_CardinalityType
    <3>3. Waits = Cardinality(heap) /\ Waits' = Cardinality(heap \ {e})
      BY <2>1 DEF Waits
    <3> QED BY <3>1, <3>2, <3>3
  <2>3. Holds' = Holds + 1 /\ SendHolds'
    BY <1>1, <1>3 DEF Holds, RecvHolds, SendHolds, Failure
  <2>4. dropped' = dropped /\ dropped \in Nat /\ Holds \in Nat
    BY <1>1 DEF AccountInv, Holds, countVars
  <2>5. Kept' = Kept
    <3>1. \A w, h, d \in Nat : (w + 1) + (h + d) = w + ((h + 1) + d)
      OBVIOUS
    <3>2. Kept = (Waits' + 1) + (Holds + dropped) /\ Kept' = Waits' + ((Holds + 1) + dropped)
      BY <2>2, <2>3, <2>4, Zenon DEF Kept
    <3> QED BY <2>2, <2>4, <3>1, <3>2, Zenon
  <2>6. /\ \A q \in sent, x \in heap' : q.id # x.packet.id
        /\ \A q \in sent, x \in in_hand' : q.id # x.packet.id
    BY <2>1 DEF AccountInv
  <2> QED BY <1>1, <2>1, <2>3, <2>5, <2>6 DEF AccountInv, countVars
<1> QED BY <1>1, <1>2, <1>3 DEF SendTurn

LEMMA AccountSend ==
  ASSUME GateInv, EmptyInv, DQP!IInv, AccountInv, SendWake \/ SendFinish \/ SendDiscard
  PROVE  AccountInv'
<1> USE DEF GateInv, Places, Thread, Goto
<1>1. CASE SendWake
  <2>1. Even
    BY <1>1 DEF SendWake, Even, Holds, RecvHolds, SendHolds, Failure, countVars, queueVars
  <2> QED BY <2>1, EvenOK
<1>2. CASE SendFinish
  <2>1. Even
    BY <1>2 DEF SendFinish, Even, Holds, RecvHolds, SendHolds, Failure, countVars, DQ!Finish
  <2> QED BY <2>1, EvenOK
<1>3. CASE SendDiscard
  <2>1. /\ heap' = {} /\ in_hand' = {} /\ UNCHANGED <<processed, sent, lost>>
        /\ Drop("shutdown", usage.packets)
        /\ pc["send"] = "discard" /\ pc'["send"] = "done" /\ pc'["recv"] = pc["recv"]
    BY <1>3 DEF SendDiscard, DiscardPending, DQ!Clear
  <2>2. SendHolds /\ ~SendHolds' /\ Holds = Holds' + 1
    BY <2>1 DEF Holds, RecvHolds, SendHolds, Failure
  <2>3. PICK e \in in_hand : in_hand = {e}
    BY <2>2 DEF AccountInv, EmptyInv, SendOwes
  <2>4. Cardinality(in_hand) = 1
    BY <2>3, FS_Singleton
  <2>5. usage.packets = Waits + 1 /\ Waits \in Nat
    BY <2>4, QueueSizes, FS_CardinalityType DEF Waits
  <2>6. Waits' = 0
    BY <2>1, FS_EmptySet DEF Waits
  <2>7. usage.packets \in Nat /\ dropped' = dropped + (Waits + 1)
    BY <2>1, <2>5 DEF Drop
  <2>8. Kept' = Kept
    <3>1. \A w, h, d \in Nat : 0 + (h + (d + (w + 1))) = w + ((h + 1) + d)
      OBVIOUS
    <3>2. Kept = Waits + ((Holds' + 1) + dropped) /\ Kept' = 0 + (Holds' + (dropped + (Waits + 1)))
      BY <2>2, <2>6, <2>7, Zenon DEF Kept
    <3>3. Holds' \in Nat /\ dropped \in Nat
      BY DEF Holds, AccountInv
    <3> QED BY <2>5, <3>1, <3>2, <3>3, Zenon
  <2> QED BY <2>1, <2>2, <2>7, <2>8, SteadyOK DEF Steady, SendHolds, Reason
<1> QED BY <1>1, <1>2, <1>3

LEMMA AccountUi ==
  ASSUME GateInv, EmptyInv, DQP!IInv, AccountInv,
         \/ ApplyRunning \/ ApplySync \/ Start \/ Stop \/ RequestStop \/ Drain
         \/ ShutdownRecv \/ Stopped \/ Open \/ SpawnRecv \/ Snapshot \/ Tell \/ Tick
  PROVE  AccountInv'
<1> USE DEF Holds, RecvHolds, SendHolds, Failure, GateInv, Places, Sender, Thread, Goto, countVars,
            queueVars
<1>1. CASE ApplyRunning \/ ApplySync \/ RequestStop \/ ShutdownRecv \/ SpawnRecv
  BY <1>1, EvenOK DEF Even, ApplyRunning, ApplySync, RequestStop, ShutdownRecv, SpawnRecv
<1>2. CASE Start \/ Stop \/ Snapshot \/ Tell
  BY <1>2, EvenOK DEF Even, Start, Stop, StopFor, Snapshot, Tell
<1>3. CASE Tick
  BY <1>3, EvenOK DEF Even, Tick, DQ!Tick, DQ!queueVars, threadVars
<1>4. CASE Drain
  <2>1. /\ Holds' = Holds /\ (SendHolds' => SendHolds)
        /\ pc'["send"] \in {"send", "io"} => pc["send"] \in {"send", "io"}
    BY <1>4 DEF Drain, GotoNotifying
  <2> HIDE DEF Holds, SendHolds, RecvHolds
  <2> QED BY <1>4, <2>1, ReleaseOK DEF Drain, ReleaseAll
<1>5. CASE Stopped
  <2>1. /\ heap = {} /\ in_hand = {} /\ ~RecvHolds /\ ~SendHolds
    BY <1>5 DEF Stopped, Joined, EmptyInv, SendOwes, Failure
  <2>2. /\ heap' = {} /\ in_hand' = {} /\ ~RecvHolds' /\ ~SendHolds'
        /\ pc'["send"] = "off" /\ UNCHANGED <<processed, sent, lost>>
        /\ Drop("shutdown", usage.packets)
    BY <1>5 DEF Stopped, DiscardPending, DQ!Clear
  <2>3. usage.packets = 0
    BY <2>1, NothingCounted
  <2>4. Drop("shutdown", 0) /\ dropped' = dropped
    <3>1. Drop("shutdown", 0)
      BY <2>2, <2>3
    <3> QED BY <3>1 DEF Drop, AccountInv
  <2>5. Kept' = Kept
    BY <2>1, <2>2, <2>4 DEF Kept, Waits
  <2> HIDE DEF Holds, SendHolds, RecvHolds
  <2> QED BY <2>2, <2>4, <2>5, SteadyOK DEF Steady, Reason
<1>6. CASE Open
  <2>1. pc["recv"] = "off" /\ pc["send"] = "off"
    BY <1>6 DEF Open
  <2>2. pc'["recv"] = "off" /\ pc'["send"] \in {"off", "awake"}
    BY <1>6, <2>1 DEF Open
  <2>3. ~RecvHolds' /\ ~SendHolds' /\ Holds' = 0
    BY <2>2
  <2>4. CASE UNCHANGED countVars /\ UNCHANGED queueVars
    BY <2>1, <2>2, <2>3, <2>4, EvenOK DEF Even
  <2>5. CASE ResetCounters
    <3>1. /\ processed' = 0 /\ drops' = NoDrops /\ dropped' = 0 /\ sent' = {} /\ lost' = 0
          /\ heap' = {} /\ in_hand' = {}
      BY <2>5 DEF ResetCounters, DQ!Clear
    <3>2. SumFunctionOnSet(drops', Reason) = 0
      BY <3>1, ReasonsFinite, SumOfZeros DEF NoDrops
    <3>3. Waits' = 0 /\ Cardinality(sent') = 0 /\ IsFiniteSet(sent')
      BY <3>1, FS_EmptySet DEF Waits
    <3> HIDE DEF Holds, SendHolds, RecvHolds
    <3> QED BY <2>2, <2>3, <3>1, <3>2, <3>3 DEF AccountInv, Kept, NoDrops
  <2> QED BY <1>6, <2>4, <2>5 DEF Open
<1> QED BY <1>1, <1>2, <1>3, <1>4, <1>5, <1>6

LEMMA AccountChange ==
  ASSUME GateInv, DQP!IInv, AccountInv, NEW r, NEW g, NEW revised, Change(r, g, revised)
  PROVE  AccountInv'
<1>1. /\ Holds' = Holds /\ (SendHolds' => SendHolds)
      /\ pc'["send"] \in {"send", "io"} => pc["send"] \in {"send", "io"}
      /\ UNCHANGED countVars
  BY DEF Change, Goto, GotoNotifying, Holds, RecvHolds, SendHolds, Failure, GateInv, Places, Thread
<1>2. CASE revised
  BY <1>1, <1>2, ReleaseOK DEF Change
<1>3. CASE ~revised
  BY <1>1, <1>3, EvenOK DEF Change, Even, countVars, queueVars
<1> QED BY <1>2, <1>3

LEMMA AccountStep ==
  GateInv /\ FlagInv /\ EmptyInv /\ DQP!IInv /\ OrderInv /\ AccountInv /\ [Next]_vars
    => AccountInv'
<1> SUFFICES ASSUME GateInv, FlagInv, EmptyInv, DQP!IInv, OrderInv, AccountInv, [Next]_vars
             PROVE  AccountInv'
  OBVIOUS
<1>1. CASE (\E k \in Kind : Receive(k)) \/ RecvStep
  BY <1>1, AccountReceive, AccountRecv, AccountQueue, AccountCheck, AccountIo, AccountFail
     DEF RecvStep, Thread, Sender
<1>2. CASE SendStep
  BY <1>2, AccountTurn, AccountSend, AccountCheck, AccountIo, AccountFail
     DEF SendStep, Thread, Sender
<1>3. CASE UiStep
  BY <1>3, AccountUi, AccountFail DEF UiStep, Thread
<1>4. CASE Operation \/ Tick
  BY <1>4, AccountUi, AccountChange DEF Operation, UpdateRule, SetGlobalRule, ClearRules
<1>5. CASE UNCHANGED vars
  BY <1>5, EvenOK DEF vars, Even, Holds, RecvHolds, SendHolds, countVars, queueVars, threadVars
<1> QED BY <1>1, <1>2, <1>3, <1>4, <1>5 DEF Next

(***************************************************************************)
(* Every captured packet is accounted for exactly once, however the two    *)
(* threads, the stops and the failures interleave, and the total of the    *)
(* drops is that of its reasons (engine.rs: record_drop, discard_pending,  *)
(* whose count of the queue includes the packet in flight).                *)
(***************************************************************************)
THEOREM PacketsAccounted == Spec => []Accounted
<1>1. AccountInv /\ DQP!IInv => Accounted
  <2> SUFFICES ASSUME AccountInv, DQP!IInv PROVE Accounted
    OBVIOUS
  <2> DEFINE c == Cardinality(sent)
             w == Cardinality(heap)
             r == IF RecvHolds THEN 1 ELSE 0
             s == IF SendHolds THEN 1 ELSE 0
  <2>1. c \in Nat /\ w \in Nat /\ r \in Nat /\ s \in Nat /\ lost \in Nat /\ dropped \in Nat
    BY CountTypes DEF AccountInv, Waits
  <2>2. processed = (c + lost) + (w + ((r + s) + dropped))
    BY DEF AccountInv, Kept, Holds, Waits
  <2>3. dropped = SumFunction(drops)
    BY DEF AccountInv, SumFunction
  <2> HIDE DEF c, w, r, s
  <2>5. processed = c + dropped + lost + w + r + s
    BY <2>1, <2>2
  <2> QED BY <2>3, <2>5 DEF Accounted, c, w, r, s
<1> QED BY <1>1, QueueInductive, GateInit, GateStep, FlagInit, FlagStep, EmptyInit, EmptyStep,
           OrderInit, OrderStep, AccountInit, AccountStep, PTL DEF Spec

-----------------------------------------------------------------------------
(***************************************************************************)
(* Types.  The flags and the places are typed by every step on their own;  *)
(* the counters are bounded because each packet counts for one capture     *)
(* (AccountInv), is delayed at most once, on its way to the queue, and the *)
(* receive thread can be lost to a panic only once per start.              *)
(***************************************************************************)
Flags ==
  /\ error \in BOOLEAN /\ aborted \in BOOLEAN /\ stopping \in BOOLEAN
  /\ draining \in BOOLEAN /\ recv_done \in BOOLEAN /\ active \in BOOLEAN
  /\ gate \in {Free, "recv", "send"} /\ lock \in {Free, "send"}
  /\ io \in {"closed", "open", "shut"}
  /\ told \in {"running", "stopped", "starting"}

At ==
  /\ pc["recv"] \in RecvPlace /\ pc["send"] \in SendPlace /\ pc["ui"] \in UiPlace

Connections ==
  /\ DOMAIN socket = {"active", "error"}
  /\ socket.active \subseteq Pid \cup {Everyone} /\ socket.error \in BOOLEAN

Settled == rules \in [Pid -> Rule \cup {NoRule}] /\ global \in GlobalRule \cup {NoRule}

Arrived ==
  /\ processed \in 0 .. MaxArrivals
  /\ delayed \in Nat /\ delayed <= processed
  /\ pc["recv"] \in {"check", "filter", "admit", "queue"} => delayed < processed

Vanished ==
  /\ lost \in 0 .. 1
  /\ lost = 1 => /\ pc["recv"] \in {"off", "end", "done"} \cup Failure
                 /\ pc["recv"] \in Failure => after["recv"] = "end"
                 /\ pc["ui"] # "spawn"

InHands ==
  /\ inbound = Nothing \/ inbound.packet \in Packet
  /\ until \in DQ!Instant \cup {None}

LEMMA FlagsFail ==
  ASSUME GateInv, FlagInv, Flags, At, NEW t \in Thread, Fail(t) PROVE Flags' /\ At'
<1> USE DEF Flags, At, RecvPlace, SendPlace, UiPlace, Failure, GateInv, Places, Thread, Goto,
            flagVars, failVars, hostVars
<1>1. CASE Mark(t)
  BY <1>1 DEF Mark
<1>2. CASE Close(t)
  BY <1>2 DEF Close, CloseHandle
<1>3. CASE Unblock(t)
  BY <1>3 DEF Unblock
<1>4. CASE Flush(t)
  BY <1>4 DEF Flush, GotoNotifying, AfterFail, FlagInv
<1> QED BY <1>1, <1>2, <1>3, <1>4 DEF Fail

LEMMA FlagsRecv ==
  ASSUME GateInv, Flags, At,
         \/ \E k \in Kind : Receive(k)
         \/ ReceiveError \/ RecvCheck \/ RecvAdmit \/ RecvQueue \/ RecvEnd
         \/ \E k \in Kind : \E found \in {k.pid, NoPid} : RecvFilter(k, found)
  PROVE  Flags' /\ At'
<1> USE DEF Flags, At, RecvPlace, SendPlace, UiPlace, Failure, GateInv, Places, Thread, Goto,
            flagVars, failVars, hostVars
<1>1. ASSUME NEW k \in Kind, Receive(k) PROVE Flags' /\ At'
  BY <1>1 DEF Receive
<1>2. CASE ReceiveError
  BY <1>2 DEF ReceiveError
<1>3. CASE RecvCheck
  BY <1>3 DEF RecvCheck
<1>4. CASE RecvEnd
  BY <1>4 DEF RecvEnd, GotoNotifying
<1>5. ASSUME NEW k \in Kind, NEW found, RecvFilter(k, found) PROVE Flags' /\ At'
  BY <1>5 DEF RecvFilter
<1>6. CASE RecvAdmit
  BY <1>6 DEF RecvAdmit
<1>7. CASE RecvQueue
  BY <1>7 DEF RecvQueue, GotoNotifying
<1> QED BY <1>1, <1>2, <1>3, <1>4, <1>5, <1>6, <1>7

LEMMA FlagsSend ==
  ASSUME GateInv, Flags, At,
         \/ SendWake \/ SendTurn \/ SendFinish \/ SendDiscard
         \/ \E t \in Sender : SendCheck(t) \/ SendIo(t)
  PROVE  Flags' /\ At'
<1> USE DEF Flags, At, RecvPlace, SendPlace, UiPlace, Failure, GateInv, Places, Thread, Goto,
            Sender, AfterSend, flagVars, failVars, hostVars
<1>1. CASE SendWake
  BY <1>1 DEF SendWake
<1>2. CASE SendTurn
  BY <1>2 DEF SendTurn
<1>3. CASE SendFinish
  BY <1>3 DEF SendFinish
<1>4. CASE SendDiscard
  BY <1>4 DEF SendDiscard
<1>5. ASSUME NEW t \in Sender, SendCheck(t) PROVE Flags' /\ At'
  BY <1>5 DEF SendCheck
<1>6. ASSUME NEW t \in Sender, SendIo(t) PROVE Flags' /\ At'
  <2>1. error' \in BOOLEAN
    BY <1>6 DEF SendIo
  <2>2. /\ gate' \in {gate, Free}
        /\ UNCHANGED <<aborted, stopping, lock, draining, recv_done, active, io, told>>
    BY <1>6 DEF SendIo
  <2>3. pc' = [pc EXCEPT ![t] = pc'[t]] /\ pc'[t] \in {AfterSend(t), "mark"}
    BY <1>6 DEF SendIo
  <2>4. At'
    BY <2>3
  <2> QED BY <2>1, <2>2, <2>4
<1> QED BY <1>1, <1>2, <1>3, <1>4, <1>5, <1>6

LEMMA FlagsUi ==
  ASSUME GateInv, FlagInv, Flags, At,
         \/ ApplyRunning \/ ApplySync \/ Start \/ Stop \/ RequestStop \/ Drain
         \/ ShutdownRecv \/ Stopped \/ Open \/ SpawnRecv \/ Snapshot \/ Tell \/ Tick
  PROVE  Flags' /\ At'
<1> USE DEF Flags, At, RecvPlace, SendPlace, UiPlace, Failure, GateInv, Places, Thread, Goto,
            flagVars, failVars, hostVars
<1>1. CASE ApplyRunning
  BY <1>1 DEF ApplyRunning
<1>2. CASE ApplySync
  BY <1>2 DEF ApplySync
<1>3. CASE Start
  BY <1>3 DEF Start, StopFor
<1>4. CASE Stop
  BY <1>4 DEF Stop, StopFor
<1>5. CASE RequestStop
  BY <1>5 DEF RequestStop
<1>6. CASE Drain
  BY <1>6 DEF Drain, GotoNotifying
<1>7. CASE ShutdownRecv
  BY <1>7 DEF ShutdownRecv, ShutHandle
<1>8. CASE SpawnRecv
  <2>1. recv_done' \in BOOLEAN
    BY <1>8 DEF SpawnRecv
  <2>2. UNCHANGED <<error, aborted, stopping, gate, lock, draining, active, io, told>>
    BY <1>8 DEF SpawnRecv
  <2>3. At'
    BY <1>8 DEF SpawnRecv
  <2> QED BY <2>1, <2>2, <2>3
<1>9. CASE Snapshot
  BY <1>9 DEF Snapshot
<1>10. CASE Tell
  BY <1>10 DEF Tell
<1>11. CASE Tick
  BY <1>11 DEF Tick, threadVars
<1>12. CASE Stopped
  BY <1>12 DEF Stopped, CloseHandle, FlagInv
<1>13. CASE Open
  <2>1. At'
    BY <1>13 DEF Open
  <2>2. UNCHANGED <<gate, lock, told>>
    BY <1>13 DEF Open
  <2>3. CASE /\ UNCHANGED <<failVars, flagVars, active, io>>
    BY <2>1, <2>2, <2>3
  <2>4. CASE stopping' = FALSE /\ ResetCounters /\ active' = TRUE /\ OpenHandle
    BY <2>1, <2>2, <2>4 DEF ResetCounters, OpenHandle
  <2> QED BY <1>13, <2>3, <2>4 DEF Open
<1> QED BY <1>1, <1>2, <1>3, <1>4, <1>5, <1>6, <1>7, <1>8, <1>9, <1>10, <1>11, <1>12, <1>13

LEMMA FlagsChange ==
  ASSUME GateInv, Flags, At, NEW r, NEW g, NEW revised, Change(r, g, revised) PROVE Flags' /\ At'
BY DEF Flags, At, RecvPlace, SendPlace, UiPlace, Failure, GateInv, Places, Thread, Goto,
       flagVars, failVars, hostVars, Change, GotoNotifying

LEMMA FlagsStep == GateInv /\ FlagInv /\ Flags /\ At /\ [Next]_vars => Flags' /\ At'
<1> SUFFICES ASSUME GateInv, FlagInv, Flags, At, [Next]_vars PROVE Flags' /\ At'
  OBVIOUS
<1>1. CASE (\E k \in Kind : Receive(k)) \/ RecvStep
  BY <1>1, FlagsRecv, FlagsSend, FlagsFail DEF RecvStep, Sender, Thread
<1>2. CASE SendStep
  BY <1>2, FlagsSend, FlagsFail DEF SendStep, Sender, Thread
<1>3. CASE UiStep
  BY <1>3, FlagsUi, FlagsFail DEF UiStep, Thread
<1>4. CASE Operation \/ Tick
  BY <1>4, FlagsUi, FlagsChange DEF Operation, UpdateRule, SetGlobalRule, ClearRules
<1>5. CASE UNCHANGED vars
  BY <1>5 DEF vars, Flags, At, flagVars, failVars, threadVars, hostVars
<1> QED BY <1>1, <1>2, <1>3, <1>4, <1>5 DEF Next

LEMMA TallyFail ==
  ASSUME GateInv, FlagInv, Arrived, Vanished, NEW t \in Thread, Fail(t) PROVE Arrived' /\ Vanished'
<1> USE DEF Arrived, Vanished, Failure, GateInv, Places, Thread, Goto, countVars
<1>1. CASE Mark(t)
  BY <1>1 DEF Mark
<1>2. CASE Close(t)
  BY <1>2 DEF Close
<1>3. CASE Unblock(t)
  BY <1>3 DEF Unblock
<1>4. CASE Flush(t)
  BY <1>4 DEF Flush, GotoNotifying, AfterFail, FlagInv
<1> QED BY <1>1, <1>2, <1>3, <1>4 DEF Fail

LEMMA TallyRecv ==
  ASSUME GateInv, Arrived, Vanished,
         \/ \E k \in Kind : Receive(k)
         \/ ReceiveError \/ RecvCheck \/ RecvAdmit \/ RecvQueue \/ RecvEnd
         \/ \E k \in Kind : \E found \in {k.pid, NoPid} : RecvFilter(k, found)
  PROVE  Arrived' /\ Vanished'
<1> USE DEF Arrived, Vanished, Failure, GateInv, Places, Thread, Goto, countVars
<1>1. ASSUME NEW k \in Kind, Receive(k) PROVE Arrived' /\ Vanished'
  BY <1>1, BoundAssumption DEF Receive
<1>2. CASE ReceiveError
  BY <1>2 DEF ReceiveError
<1>3. CASE RecvCheck
  BY <1>3 DEF RecvCheck
<1>4. CASE RecvEnd
  BY <1>4 DEF RecvEnd, GotoNotifying
<1>5. ASSUME NEW k \in Kind, NEW found, RecvFilter(k, found) PROVE Arrived' /\ Vanished'
  BY <1>5 DEF RecvFilter
<1>6. CASE RecvAdmit
  BY <1>6 DEF RecvAdmit
<1>7. CASE RecvQueue
  BY <1>7 DEF RecvQueue, GotoNotifying
<1> QED BY <1>1, <1>2, <1>3, <1>4, <1>5, <1>6, <1>7

LEMMA TallySend ==
  ASSUME GateInv, Arrived, Vanished,
         \/ SendWake \/ SendTurn \/ SendFinish \/ SendDiscard
         \/ \E t \in Sender : SendCheck(t) \/ SendIo(t)
  PROVE  Arrived' /\ Vanished'
<1> USE DEF Arrived, Vanished, Failure, GateInv, Places, Thread, Goto, Sender, AfterSend, countVars
<1>1. CASE SendWake
  BY <1>1 DEF SendWake
<1>2. CASE SendTurn
  BY <1>2 DEF SendTurn
<1>3. CASE SendFinish
  BY <1>3 DEF SendFinish
<1>4. CASE SendDiscard
  BY <1>4 DEF SendDiscard
<1>5. ASSUME NEW t \in Sender, SendCheck(t) PROVE Arrived' /\ Vanished'
  BY <1>5 DEF SendCheck
<1>6. ASSUME NEW t \in Sender, SendIo(t) PROVE Arrived' /\ Vanished'
  BY <1>6 DEF SendIo
<1> QED BY <1>1, <1>2, <1>3, <1>4, <1>5, <1>6

LEMMA TallyUi ==
  ASSUME GateInv, FlagInv, Arrived, Vanished,
         \/ ApplyRunning \/ ApplySync \/ Start \/ Stop \/ RequestStop \/ Drain
         \/ ShutdownRecv \/ Stopped \/ Open \/ SpawnRecv \/ Snapshot \/ Tell \/ Tick
  PROVE  Arrived' /\ Vanished'
<1> USE DEF Arrived, Vanished, Failure, GateInv, Places, Thread, Goto, countVars
<1>1. CASE ApplyRunning
  BY <1>1 DEF ApplyRunning
<1>2. CASE ApplySync
  BY <1>2 DEF ApplySync
<1>3. CASE Start
  BY <1>3 DEF Start, StopFor
<1>4. CASE Stop
  BY <1>4 DEF Stop, StopFor
<1>5. CASE RequestStop
  BY <1>5 DEF RequestStop
<1>6. CASE Drain
  BY <1>6 DEF Drain, GotoNotifying
<1>7. CASE ShutdownRecv
  BY <1>7 DEF ShutdownRecv
<1>8. CASE SpawnRecv
  BY <1>8 DEF SpawnRecv
<1>9. CASE Snapshot
  BY <1>9 DEF Snapshot
<1>10. CASE Tell
  BY <1>10 DEF Tell
<1>11. CASE Tick
  BY <1>11 DEF Tick, threadVars
<1>12. CASE Stopped
  BY <1>12 DEF Stopped, FlagInv
<1>13. CASE Open
  <2>1. CASE UNCHANGED countVars /\ Goto("ui", "idle") /\ UNCHANGED after
    BY <2>1
  <2>2. CASE ResetCounters
    <3>1. processed' = 0 /\ delayed' = 0 /\ lost' = 0
      BY <2>2 DEF ResetCounters
    <3>2. pc'["recv"] = "off"
      BY <1>13 DEF Open
    <3> QED BY <3>1, <3>2, BoundAssumption
  <2> QED BY <1>13, <2>1, <2>2 DEF Open
<1> QED BY <1>1, <1>2, <1>3, <1>4, <1>5, <1>6, <1>7, <1>8, <1>9, <1>10, <1>11, <1>12, <1>13

LEMMA TallyChange ==
  ASSUME GateInv, Arrived, Vanished, NEW r, NEW g, NEW revised, Change(r, g, revised)
  PROVE  Arrived' /\ Vanished'
BY DEF Arrived, Vanished, Failure, GateInv, Places, Thread, Goto, countVars, Change, GotoNotifying

LEMMA TallyStep == GateInv /\ FlagInv /\ Arrived /\ Vanished /\ [Next]_vars => Arrived' /\ Vanished'
<1> SUFFICES ASSUME GateInv, FlagInv, Arrived, Vanished, [Next]_vars PROVE Arrived' /\ Vanished'
  OBVIOUS
<1>1. CASE (\E k \in Kind : Receive(k)) \/ RecvStep
  BY <1>1, TallyRecv, TallySend, TallyFail DEF RecvStep, Sender, Thread
<1>2. CASE SendStep
  BY <1>2, TallySend, TallyFail DEF SendStep, Sender, Thread
<1>3. CASE UiStep
  BY <1>3, TallyUi, TallyFail DEF UiStep, Thread
<1>4. CASE Operation \/ Tick
  BY <1>4, TallyUi, TallyChange DEF Operation, UpdateRule, SetGlobalRule, ClearRules
<1>5. CASE UNCHANGED vars
  BY <1>5 DEF vars, Arrived, Vanished, countVars, threadVars
<1> QED BY <1>1, <1>2, <1>3, <1>4, <1>5 DEF Next

(***************************************************************************)
(* The rules and the filter.                                               *)
(***************************************************************************)
LEMMA ConnectionsOf ==
  ASSUME Connections,
         \/ UNCHANGED socket
         \/ socket' = NoFilter \/ Synced \/ SyncFailed
         \/ socket' = [socket EXCEPT !.active = {}]
  PROVE  Connections'
<1>1. Filter \subseteq Pid \cup {Everyone}
  BY DEF Filter
<1>2. CASE UNCHANGED socket
  BY <1>2 DEF Connections
<1>3. CASE socket' = NoFilter
  BY <1>3 DEF Connections, NoFilter
<1>4. CASE Synced
  BY <1>1, <1>2, <1>3, <1>4 DEF Connections, Synced
<1>5. CASE SyncFailed
  BY <1>5 DEF Connections, SyncFailed
<1>6. CASE socket' = [socket EXCEPT !.active = {}]
  BY <1>6 DEF Connections
<1> QED BY <1>2, <1>3, <1>4, <1>5, <1>6

LEMMA ConnectionsStep == Connections /\ [Next]_vars => Connections'
<1> SUFFICES ASSUME Connections, [Next]_vars
             PROVE  \/ UNCHANGED socket
                    \/ socket' = NoFilter \/ Synced \/ SyncFailed
                    \/ socket' = [socket EXCEPT !.active = {}]
  BY ConnectionsOf
<1> USE DEF hostVars
<1>1. CASE \E t \in Thread : Fail(t)
  BY <1>1 DEF Fail, Mark, Close, Unblock, Flush
<1>2. CASE \E t \in Sender : SendCheck(t) \/ SendIo(t)
  BY <1>2 DEF SendCheck, SendIo
<1>3. CASE (\E k \in Kind : Receive(k)) \/ ReceiveError \/ RecvCheck \/ RecvAdmit
           \/ (\E k \in Kind : \E found \in {k.pid, NoPid} : RecvFilter(k, found))
  BY <1>3 DEF Receive, ReceiveError, RecvCheck, RecvAdmit, RecvFilter
<1>4. CASE RecvQueue \/ RecvEnd
  BY <1>4 DEF RecvQueue, RecvEnd
<1>5. CASE SendWake \/ SendTurn \/ SendFinish \/ SendDiscard
  BY <1>5 DEF SendWake, SendTurn, SendFinish, SendDiscard
<1>6. CASE ApplyRunning \/ ApplySync \/ RequestStop \/ Drain \/ ShutdownRecv \/ Stopped
  BY <1>6 DEF ApplyRunning, ApplySync, RequestStop, Drain, ShutdownRecv, Stopped
<1>7. CASE Open
  BY <1>7 DEF Open
<1>8. CASE SpawnRecv \/ Tell \/ Start \/ Stop \/ Snapshot \/ Tick
  BY <1>8 DEF SpawnRecv, Tell, Start, Stop, Snapshot, Tick
<1>9. CASE Operation /\ ~Start /\ ~Stop /\ ~Snapshot
  BY <1>9 DEF Operation, UpdateRule, SetGlobalRule, ClearRules, Change
<1>10. CASE UNCHANGED vars
  BY <1>10 DEF vars
<1> QED BY <1>1, <1>2, <1>3, <1>4, <1>5, <1>6, <1>7, <1>8, <1>9, <1>10
        DEF Next, RecvStep, SendStep, UiStep, Operation, Sender, Thread

LEMMA SettledOf ==
  ASSUME Settled,
         \/ UNCHANGED ruleVars
         \/ \E S \in SUBSET Pid, rule \in Rule : UpdateRule(S, rule)
         \/ \E rule \in GlobalRule : SetGlobalRule(rule)
         \/ ClearRules
  PROVE  Settled'
<1> USE DEF Settled, ruleVars, Change
<1>1. CASE UNCHANGED ruleVars
  BY <1>1
<1>2. ASSUME NEW S \in SUBSET Pid, NEW rule \in Rule, UpdateRule(S, rule) PROVE Settled'
  BY <1>2 DEF UpdateRule
<1>3. ASSUME NEW rule \in GlobalRule, SetGlobalRule(rule) PROVE Settled'
  BY <1>3 DEF SetGlobalRule
<1>4. CASE ClearRules
  BY <1>4 DEF ClearRules
<1> QED BY <1>1, <1>2, <1>3, <1>4

LEMMA SettledStep == Settled /\ [Next]_vars => Settled'
<1> SUFFICES ASSUME Settled, [Next]_vars PROVE Settled'
  OBVIOUS
<1>1. CASE \E t \in Thread : Fail(t)
  BY <1>1, SettledOf DEF Fail, Mark, Close, Unblock, Flush
<1>2. CASE \E t \in Sender : SendCheck(t) \/ SendIo(t)
  BY <1>2, SettledOf DEF SendCheck, SendIo
<1>3. CASE (\E k \in Kind : Receive(k)) \/ ReceiveError \/ RecvCheck \/ RecvAdmit
           \/ (\E k \in Kind : \E found \in {k.pid, NoPid} : RecvFilter(k, found))
  BY <1>3, SettledOf DEF Receive, ReceiveError, RecvCheck, RecvAdmit, RecvFilter
<1>4. CASE RecvQueue \/ RecvEnd
  BY <1>4, SettledOf DEF RecvQueue, RecvEnd
<1>5. CASE SendWake \/ SendTurn \/ SendFinish \/ SendDiscard
  BY <1>5, SettledOf DEF SendWake, SendTurn, SendFinish, SendDiscard
<1>6. CASE ApplyRunning \/ ApplySync \/ RequestStop \/ Drain \/ ShutdownRecv \/ Stopped
  BY <1>6, SettledOf DEF ApplyRunning, ApplySync, RequestStop, Drain, ShutdownRecv, Stopped
<1>7. CASE Open \/ SpawnRecv \/ Tell \/ Start \/ Stop \/ Snapshot \/ Tick
  BY <1>7, SettledOf DEF Open, SpawnRecv, Tell, Start, Stop, Snapshot, Tick
<1>8. CASE Operation
  BY <1>7, <1>8, SettledOf DEF Operation
<1>9. CASE UNCHANGED vars
  BY <1>9, SettledOf DEF vars
<1> QED BY <1>1, <1>2, <1>3, <1>4, <1>5, <1>6, <1>7, <1>8, <1>9
        DEF Next, RecvStep, SendStep, UiStep, Sender, Thread

(***************************************************************************)
(* What the threads hold: a packet as it was captured, with the process    *)
(* found for it, and the earliest deadline of those that wait.             *)
(***************************************************************************)
LEMMA EarliestIsIn ==
  ASSUME NEW S \in SUBSET Nat, S # {} PROVE Min(S) \in S
<1>1. PICK m \in S : \A y \in S : ~(<<y, m>> \in OpToRel(<, Nat))
  BY NatLessThanWellFounded, WFMin
<1>2. \A y \in S : ~(y < m)
  BY <1>1, Zenon DEF OpToRel
<1>3. \A y \in S : m <= y
  BY <1>2
<1>4. Min(S) \in S
  BY <1>3, Zenon DEF Min
<1> QED BY <1>4

LEMMA DeadlineType == DQP!IInv => NextDeadline \in DQ!Instant \cup {None}
<1> SUFFICES ASSUME DQP!IInv, heap # {} PROVE NextDeadline \in DQ!Instant
  BY DEF NextDeadline
<1> DEFINE S == {e.deadline : e \in heap}
<1>1. \A e \in heap : e.deadline \in DQ!Instant
  BY DEF DQP!IInv, DQP!TypeOK, DQP!Entry, DQP!Instant, DQ!Instant
<1>2. S \subseteq DQ!Instant /\ S # {}
  BY <1>1
<1>3. DQ!Instant \subseteq Nat
  BY BoundAssumption DEF DQ!Instant
<1>4. NextDeadline = Min(S)
  BY DEF NextDeadline
<1> HIDE DEF S
<1> QED BY <1>2, <1>3, <1>4, EarliestIsIn

LEMMA InHandsStep == DQP!IInv /\ OrderInv /\ InHands /\ [Next]_vars => InHands'
<1> SUFFICES ASSUME DQP!IInv, OrderInv, InHands, [Next]_vars PROVE InHands'
  OBVIOUS
<1>1. UNCHANGED <<inbound, until>> => InHands'
  BY DEF InHands, DQ!Instant
<1>2. CASE \E t \in Thread : Fail(t)
  BY <1>1, <1>2 DEF Fail, Mark, Close, Unblock, Flush
<1>3. CASE \E t \in Sender : SendCheck(t) \/ SendIo(t)
  BY <1>1, <1>3 DEF SendCheck, SendIo
<1>4. ASSUME NEW k \in Kind, Receive(k) PROVE InHands'
  <2>1. processed + 1 \in 1 .. MaxArrivals /\ UNCHANGED until
    BY <1>4, BoundAssumption DEF Receive, OrderInv
  <2>2. Captured(k, processed + 1, NoPid) \in Packet
    BY <2>1 DEF Packet
  <2>3. inbound'.packet \in Packet
    BY <1>4, <2>2 DEF Receive
  <2> QED BY <2>1, <2>3 DEF InHands, DQ!Instant
<1>5. CASE ReceiveError \/ RecvCheck \/ RecvAdmit \/ RecvQueue \/ RecvEnd
  BY <1>1, <1>5 DEF ReceiveError, RecvCheck, RecvAdmit, RecvQueue, RecvEnd
<1>6. ASSUME NEW k \in Kind, NEW found \in {k.pid, NoPid}, RecvFilter(k, found) PROVE InHands'
  <2>1. /\ RecvHolds /\ inbound.packet \in Packet /\ UNCHANGED until
        /\ inbound.packet = Captured(k, processed, NoPid)
        /\ inbound' = [inbound EXCEPT !.packet = Captured(k, processed, found)]
    BY <1>6 DEF RecvFilter, OrderInv, RecvHolds
  <2>2. PICK j \in Kind, i \in 1 .. MaxArrivals, pid \in Pid \cup {NoPid} :
          inbound.packet = Captured(j, i, pid)
    BY <2>1 DEF Packet
  <2>3. i = processed /\ found \in Pid \cup {NoPid}
    BY <2>1, <2>2 DEF Captured, Pid
  <2>4. Captured(k, processed, found) \in Packet
    BY <2>3 DEF Packet
  <2>5. inbound'.packet \in Packet \/ inbound' = inbound
    BY <2>1, <2>4
  <2> QED BY <2>1, <2>5 DEF InHands, DQ!Instant
<1>7. CASE SendWake \/ SendFinish \/ SendDiscard
  BY <1>1, <1>7 DEF SendWake, SendFinish, SendDiscard
<1>8. CASE SendTurn
  <2>1. UNCHANGED inbound /\ until' \in {until, NextDeadline}
    BY <1>8 DEF SendTurn
  <2>2. until' \in DQ!Instant \cup {None}
    BY <2>1, DeadlineType DEF InHands
  <2> QED BY <2>1, <2>2 DEF InHands, DQ!Instant
<1>9. CASE ApplyRunning \/ ApplySync \/ RequestStop \/ Drain \/ ShutdownRecv \/ Stopped
  BY <1>1, <1>9 DEF ApplyRunning, ApplySync, RequestStop, Drain, ShutdownRecv, Stopped
<1>10. CASE Open \/ SpawnRecv \/ Tell \/ Start \/ Stop \/ Snapshot \/ Tick
  BY <1>1, <1>10 DEF Open, SpawnRecv, Tell, Start, Stop, Snapshot, Tick, threadVars
<1>11. CASE Operation
  BY <1>1, <1>10, <1>11 DEF Operation, UpdateRule, SetGlobalRule, ClearRules, Change
<1>12. CASE UNCHANGED vars
  BY <1>1, <1>12 DEF vars, threadVars
<1> QED BY <1>2, <1>3, <1>4, <1>5, <1>6, <1>7, <1>8, <1>9, <1>10, <1>11, <1>12
        DEF Next, RecvStep, SendStep, UiStep, Sender, Thread

Typed == Flags /\ At /\ Connections /\ Settled /\ Arrived /\ Vanished /\ InHands

LEMMA TypedInit == Init => Typed
<1> SUFFICES ASSUME Init PROVE Typed
  OBVIOUS
<1>1. Flags /\ At
  BY DEF Init, Flags, At, Thread, RecvPlace, SendPlace, UiPlace
<1>2. Connections /\ Settled
  BY DEF Init, Connections, Settled, NoFilter
<1>3. Arrived
  BY BoundAssumption DEF Init, Arrived, Thread
<1>4. Vanished /\ InHands
  BY DEF Init, Vanished, InHands
<1> QED BY <1>1, <1>2, <1>3, <1>4 DEF Typed

LEMMA TypedStep ==
  GateInv /\ FlagInv /\ DQP!IInv /\ OrderInv /\ Typed /\ [Next]_vars => Typed'
BY FlagsStep, TallyStep, ConnectionsStep, SettledStep, InHandsStep DEF Typed

\* A total of drops is within what was captured, and so is each of its parts.
LEMMA DropsBounded ==
  ASSUME AccountInv, DQP!IInv, processed \in 0 .. MaxArrivals
  PROVE  drops \in [Reason -> 0 .. MaxArrivals] /\ dropped \in 0 .. MaxArrivals
<1>1. /\ Waits \in Nat /\ Cardinality(sent) \in Nat /\ Holds \in Nat /\ dropped \in Nat
      /\ lost \in Nat
  BY CountTypes, HoldsType DEF AccountInv
<1>2. processed = (Cardinality(sent) + lost) + (Waits + (Holds + dropped))
  BY DEF AccountInv, Kept
<1>3. dropped \in 0 .. MaxArrivals
  <2>1. \A a, b, c, d, e \in Nat : e <= (a + b) + (c + (d + e))
    OBVIOUS
  <2>2. dropped <= (Cardinality(sent) + lost) + (Waits + (Holds + dropped))
    BY <1>1, <2>1
  <2> QED BY <1>1, <1>2, <2>2, BoundAssumption
<1>4. ASSUME NEW r \in Reason PROVE drops[r] \in 0 .. MaxArrivals
  <2>1. drops[r] \in Nat /\ drops[r] <= SumFunctionOnSet(drops, Reason)
    BY ReasonsFinite, SumBounds DEF AccountInv
  <2>2. drops[r] <= dropped
    BY <2>1 DEF AccountInv
  <2> QED BY <1>3, <2>1, <2>2, BoundAssumption
<1> QED BY <1>3, <1>4 DEF AccountInv

(***************************************************************************)
(* Every variable of the engine keeps its type in every reachable state:   *)
(* no counter exceeds the packets captured, no thread is at a place it has *)
(* no code for, every packet held or sent is one that was captured.        *)
(***************************************************************************)
THEOREM EngineTyped == Spec => []TypeOK
<1>1. ASSUME Typed, DQP!IInv, OrderInv, AccountInv PROVE TypeOK
  <2>1. DQ!TypeOK
    BY <1>1 DEF DQP!IInv, DQP!TypeOK, DQ!TypeOK, DQP!Entry, DQ!Entry, DQP!Instant, DQ!Instant,
                DQP!FlowState, DQ!FlowState, DQP!Usage, DQ!Usage, DQP!Flow, DQ!Flow,
                DQP!Pid, DQ!Pid, DQP!None, DQ!None
  <2>2. drops \in [Reason -> 0 .. MaxArrivals] /\ dropped \in 0 .. MaxArrivals
    BY <1>1, DropsBounded DEF Typed, Arrived
  <2>3. sent \subseteq Packet
    BY <1>1 DEF OrderInv
  <2>4. processed \in 0 .. MaxArrivals /\ delayed \in 0 .. MaxArrivals /\ lost \in 0 .. 1
    BY <1>1, BoundAssumption DEF Typed, Arrived, Vanished
  <2>5. {error, aborted, stopping, draining, recv_done, active} \subseteq BOOLEAN
    BY <1>1 DEF Typed, Flags
  <2>6. /\ gate \in {Free, "recv", "send"} /\ lock \in {Free, "send"}
        /\ io \in {"closed", "open", "shut"} /\ told \in {"running", "stopped", "starting"}
    BY <1>1 DEF Typed, Flags
  <2>7. /\ socket.active \subseteq Pid \cup {Everyone} /\ socket.error \in BOOLEAN
        /\ rules \in [Pid -> Rule \cup {NoRule}] /\ global \in GlobalRule \cup {NoRule}
    BY <1>1 DEF Typed, Connections, Settled
  <2>8. /\ pc["recv"] \in RecvPlace /\ pc["send"] \in SendPlace /\ pc["ui"] \in UiPlace
        /\ inbound = Nothing \/ inbound.packet \in Packet
        /\ until \in DQ!Instant \cup {None}
    BY <1>1 DEF Typed, At, InHands
  <2> QED BY <2>1, <2>2, <2>3, <2>4, <2>5, <2>6, <2>7, <2>8 DEF TypeOK
<1> QED BY <1>1, QueueInductive, GateInit, GateStep, FlagInit, FlagStep, EmptyInit, EmptyStep,
           OrderInit, OrderStep, AccountInit, AccountStep, TypedInit, TypedStep, PTL DEF Spec
=============================================================================
