------------------------------- MODULE Engine -------------------------------
(***************************************************************************)
(* The packet engine of flowbrake-windows (engine.rs): a receive thread    *)
(* that captures packets and decides what becomes of each, a send thread   *)
(* that sends the delayed ones when they are due, and the UI thread, which *)
(* alone starts and stops the engine, changes the rules and takes          *)
(* snapshots.  They share the delay queue (module DelayQueue), the rules,  *)
(* the send gate, the driver handle and the socket filter.                 *)
(*                                                                         *)
(* A step is what a thread does between two points where another thread    *)
(* can see or change what it uses.  The mutex send_gate is the variable    *)
(* gate; the mutex of the queue is the variable lock, set while the send   *)
(* thread keeps it from finish to the next pop or wait; every other        *)
(* section under it is one step.  The driver is external: it is modelled   *)
(* by what PacketIo's users rely on.                                       *)
(*                                                                         *)
(* One direction of traffic is modelled, the two are handled alike.  A     *)
(* rule's speed limit is reduced to whether there is one, which may drop   *)
(* any packet with a payload, and its loss to none (0), some (1), all (2). *)
(***************************************************************************)
EXTENDS Integers, FiniteSetsExt

CONSTANTS
  Kind,           \* the packets that may arrive: records with the fields flow, pid,
                  \* bytes, charge (payload), loopback and parsed (TCP or UDP)
  NoPid,          \* the pid of a packet that no process is found for
  Rule,           \* the process rules that may be set: block, loss, delay and rate
  GlobalRule,     \* the global rules that may be set
  MaxPackets, MaxBytes, MaxPidPackets, MaxPidBytes, MaxDelay, Horizon,
  MaxArrivals,    \* bound of the packets captured per start
  MaxCommands,    \* bound of the rule changes
  MaxStarts,      \* bound of the starts
  Fault,          \* what may fail: "send", "fatal", "panic", "recv", "shutdown",
                  \* "open", "filter", "spawn"; "wake" is a spurious wake-up
  MaxFaults       \* bound of the failures

ASSUME KindAssumption == \A k \in Kind : k.bytes \in Nat

\* A flow is loopback traffic or it is not: its key holds both addresses.
ASSUME FlowAssumption ==
  \A j, k \in Kind : j.parsed /\ k.parsed /\ j.flow = k.flow => j.loopback = k.loopback

ASSUME RuleAssumption == \A rule \in Rule \cup GlobalRule : rule.delay \in Nat \cup {-1}

ASSUME BoundAssumption ==
  /\ MaxPackets \in Nat /\ MaxBytes \in Nat /\ MaxPidPackets \in Nat /\ MaxPidBytes \in Nat
  /\ MaxDelay \in Nat /\ Horizon \in Nat /\ MaxArrivals \in Nat

VARIABLES
  \* EngineState
  rules, global,
  processed, drops, dropped, delayed,
  error, aborted,
  gate,           \* the thread that holds send_gate
  \* DelayRuntime: the DelayQueue, the lock on it and the two flags beside it
  heap, flows, pids, usage, next_sequence, in_hand, now,
  lock, draining, recv_done,
  \* NetworkEngine and its threads
  stopping,
  active,         \* whether active_worker is set
  socket,         \* SocketBlock: the processes whose connections are filtered, the error
  io,             \* the driver handle: "closed", "open", "shut" (receiving shut down)
  pc,             \* where each thread is
  after,          \* where it continues after what it is doing
  inbound,        \* the packet the receive thread holds, and when it came
  until,          \* the deadline the send thread waits for
  \* History and bounds
  sent,           \* the packets sent since the start
  lost,           \* packets that vanished with a panic of the receive thread
  told,           \* what the last snapshot said of the engine
  left            \* commands, starts and failures that may still happen

queueVars == <<heap, flows, pids, usage, next_sequence, in_hand>>
ruleVars == <<rules, global>>
countVars == <<processed, drops, dropped, delayed, sent, lost>>
failVars == <<error, aborted, stopping>>
flagVars == <<draining, recv_done>>
hostVars == <<active, socket, io, told>>
threadVars == <<pc, after, inbound, until>>
vars == <<queueVars, now, ruleVars, countVars, failVars, gate, lock, flagVars, hostVars,
          threadVars, left>>

None == -1
Everyone == "everyone"
Free == "free"     \* of a mutex
Pid == {k.pid : k \in Kind} \ {NoPid}

Captured(k, id, pid) == [id |-> id, flow |-> k.flow, pid |-> pid, bytes |-> k.bytes,
                         charge |-> k.charge, loopback |-> k.loopback, parsed |-> k.parsed]
Packet == {Captured(k, id, pid) : k \in Kind, id \in 1 .. MaxArrivals, pid \in Pid \cup {NoPid}}

DQ == INSTANCE DelayQueue WITH MaxSequence <- MaxArrivals

NoRule == [block |-> FALSE, loss |-> None, delay |-> None, rate |-> FALSE]
NoFilter == [active |-> {}, error |-> FALSE]
Nothing == [packet |-> [id |-> 0], at |-> 0]
Reason == {"block", "loss", "rate", "queue", "send", "shutdown"}
NoDrops == [r \in Reason |-> 0]
Thread == {"recv", "send", "ui"}

Init ==
  /\ DQ!Init
  /\ rules = [p \in Pid |-> NoRule] /\ global = NoRule
  /\ processed = 0 /\ drops = NoDrops /\ dropped = 0 /\ delayed = 0
  /\ error = FALSE /\ aborted = FALSE /\ stopping = FALSE
  /\ gate = Free /\ lock = Free
  /\ draining = FALSE /\ recv_done = FALSE
  /\ active = FALSE /\ socket = NoFilter /\ io = "closed"
  /\ pc = [t \in Thread |-> IF t = "ui" THEN "idle" ELSE "off"]
  /\ after = [t \in Thread |-> "idle"]
  /\ inbound = Nothing /\ until = None
  /\ sent = {} /\ lost = 0 /\ told = "stopped"
  /\ left = [commands |-> MaxCommands, starts |-> MaxStarts, faults |-> MaxFaults]

-----------------------------------------------------------------------------
(* Rules. *)

RuleOf(p) == IF p.pid \in Pid THEN rules[p.pid] ELSE NoRule

\* An explicit value of the process replaces the global one; None inherits it.
Chosen(own, inherited) == IF own # None THEN own ELSE IF inherited # None THEN inherited ELSE 0

GlobalBlocks(p) == ~p.loopback /\ global.block    \* global_blocks_packet
ProcessBlocks(p) == ~p.loopback /\ RuleOf(p).block  \* process_blocks_packet
Blocks(p) == GlobalBlocks(p) \/ ProcessBlocks(p)
\* effective_delay_ms, capped at MAX_DELAY_MS
Capped(delay) == IF delay <= MaxDelay THEN delay ELSE MaxDelay
Delay(p) == IF p.loopback THEN 0 ELSE Capped(Chosen(RuleOf(p).delay, global.delay))
\* should_drop_for_loss, up to the sampling: whether it may drop the packet, and must
Loss(p) == IF p.loopback THEN 0 ELSE Chosen(RuleOf(p).loss, global.loss)
\* a token bucket may drop the packet
Limited(p) == p.charge > 0 /\ (global.rate \/ RuleOf(p).rate)

\* socket_block_filter
Filter == IF global.block THEN {Everyone} ELSE {p \in Pid : rules[p].block}

-----------------------------------------------------------------------------
(* The driver handle, a WinDivert shared by the threads (windivert.rs). *)

ValidHandle == io # "closed"
OpenHandle == io' = "open"
ShutHandle == ValidHandle /\ io' = "shut"
CloseHandle == io' = "closed"

\* recv_result: a packet, unless the handle is closed; what was captured before receiving was
\* shut down is still there, and when it is drained, or the handle closed, receiving fails.
RecvPacket == ValidHandle
RecvEnds == io # "open"

-----------------------------------------------------------------------------
(* Steps that several threads share. *)

Goto(t, place) == pc' = [pc EXCEPT ![t] = place]

GotoSilently(t, place) == Goto(t, place)  \* mutant: nobody is notified

\* The thread moves on and the send thread, if it waits for a change, is notified.
GotoNotifying(t, place) ==
  pc' = [pc EXCEPT ![t] = place,
                   !["send"] = IF pc["send"] = "asleep" THEN "awake" ELSE @]

\* Mutants: the total is forgotten, or counted twice.
DropReasonOnly(reason, n) == drops' = [drops EXCEPT ![reason] = @ + n] /\ UNCHANGED dropped
DropTwice(reason, n) == drops' = [drops EXCEPT ![reason] = @ + n] /\ dropped' = dropped + 2 * n

\* record_drop, for n packets
Drop(reason, n) ==
  /\ drops' = [drops EXCEPT ![reason] = @ + n]
  /\ dropped' = dropped + n

Failing(f) ==
  /\ f \in Fault
  /\ left.faults > 0
  /\ left' = [left EXCEPT !.faults = @ - 1]

\* send_result: sent, not sent, or not any more, the handle being closed or the driver gone.
SendAnswer(answer) ==
  \/ answer = "sent" /\ ValidHandle /\ UNCHANGED left
  \/ answer = "failed" /\ ValidHandle /\ Failing("send")
  \/ answer = "fatal" /\ ~ValidHandle /\ UNCHANGED left
  \/ answer = "fatal" /\ ValidHandle /\ Failing("fatal")

\* release_matching of every waiting packet
ReleaseAll == lock = Free /\ DQ!ReleaseMatching({e.packet : e \in heap})

\* Mutant: the packets in flight are not counted.
DiscardWaiting == Drop("shutdown", Cardinality(heap)) /\ DQ!Clear

\* discard_pending
DiscardPending == Drop("shutdown", usage.packets) /\ DQ!Clear

(* fail: the error is kept, the handle closed, the socket filter removed and the waiting
   packets released, each a step of its own.  The gate, if the thread holds it, is freed. *)
AfterFail(t) == IF t = "ui" THEN "join" ELSE after[t]

Mark(t) ==
  /\ pc[t] = "mark"
  /\ error' = TRUE /\ aborted' = TRUE /\ stopping' = TRUE
  /\ Goto(t, "close")
  /\ UNCHANGED <<queueVars, now, ruleVars, countVars, gate, lock, flagVars, hostVars,
                 after, inbound, until, left>>

\* Mutant: the handle stays open.
KeepOpen(t) ==
  /\ pc[t] = "close"
  /\ Goto(t, "unblock")
  /\ UNCHANGED <<queueVars, now, ruleVars, countVars, failVars, gate, lock, flagVars,
                 hostVars, after, inbound, until, left>>

Close(t) ==
  /\ pc[t] = "close"
  /\ CloseHandle
  /\ Goto(t, "unblock")
  /\ UNCHANGED <<queueVars, now, ruleVars, countVars, failVars, gate, lock, flagVars,
                 active, socket, told, after, inbound, until, left>>

Unblock(t) ==
  /\ pc[t] = "unblock"
  /\ socket' = NoFilter
  /\ Goto(t, "flush")
  /\ UNCHANGED <<queueVars, now, ruleVars, countVars, failVars, gate, lock, flagVars,
                 active, io, told, after, inbound, until, left>>

Flush(t) ==
  /\ pc[t] = "flush"
  /\ ReleaseAll
  /\ draining' = TRUE
  /\ gate' = IF gate = t THEN Free ELSE gate
  /\ GotoNotifying(t, AfterFail(t))
  /\ UNCHANGED <<ruleVars, countVars, failVars, lock, recv_done, hostVars,
                 after, inbound, until, left>>

Fail(t) == Mark(t) \/ Close(t) \/ Unblock(t) \/ Flush(t)

(* PacketWorker::send, of the packet a thread has in hand. *)
InHand(t) == IF t = "recv" THEN inbound.packet ELSE (CHOOSE e \in in_hand : TRUE).packet
AfterSend(t) == IF t = "recv" THEN "recv" ELSE "finish"

\* Mutant: the rules are checked and the gate is not kept until the packet is sent.
CheckUngated(t) ==
  /\ pc[t] = "send" /\ ~aborted /\ ~Blocks(InHand(t))
  /\ Goto(t, "io")
  /\ UNCHANGED <<queueVars, now, ruleVars, countVars, failVars, gate, lock,
                 flagVars, hostVars, after, inbound, until, left>>

SendCheck(t) ==
  /\ pc[t] = "send"
  /\ gate = Free
  /\ \/ /\ aborted
        /\ Drop("shutdown", 1) /\ Goto(t, AfterSend(t)) /\ UNCHANGED gate
     \/ /\ ~aborted /\ Blocks(InHand(t))
        /\ Drop("block", 1) /\ Goto(t, AfterSend(t)) /\ UNCHANGED gate
     \/ /\ ~aborted /\ ~Blocks(InHand(t))
        /\ gate' = t /\ Goto(t, "io") /\ UNCHANGED <<drops, dropped>>
  /\ UNCHANGED <<queueVars, now, ruleVars, processed, delayed, sent, lost, failVars, lock,
                 flagVars, hostVars, after, inbound, until, left>>

SendIo(t) ==
  /\ pc[t] = "io"
  /\ \/ /\ SendAnswer("sent")
        /\ sent' = sent \cup {InHand(t)}
        /\ gate' = Free /\ Goto(t, AfterSend(t))
        /\ UNCHANGED <<drops, dropped, lost, error, after>>
     \/ /\ SendAnswer("failed")
        /\ Drop("send", 1) /\ error' = TRUE
        /\ gate' = Free /\ Goto(t, AfterSend(t))
        /\ UNCHANGED <<sent, lost, after>>
     \/ /\ SendAnswer("fatal")
        /\ Drop("send", 1)
        /\ after' = [after EXCEPT ![t] = AfterSend(t)] /\ Goto(t, "mark")
        /\ UNCHANGED <<sent, lost, error, gate>>
     \/ /\ Failing("panic")
        /\ lost' = IF t = "recv" THEN lost + 1 ELSE lost
        /\ after' = [after EXCEPT ![t] = IF t = "recv" THEN "end" ELSE "discard"]
        /\ gate' = Free /\ Goto(t, "mark")
        /\ UNCHANGED <<sent, drops, dropped, error>>
  /\ UNCHANGED <<queueVars, now, ruleVars, processed, delayed, aborted, stopping, lock,
                 flagVars, hostVars, inbound, until>>

-----------------------------------------------------------------------------
(* The receive thread: recv_loop and the end of run_worker. *)

Receive(k) ==
  /\ pc["recv"] = "recv"
  /\ RecvPacket
  /\ processed < MaxArrivals /\ now + MaxDelay <= Horizon
  /\ inbound' = [packet |-> Captured(k, processed + 1, NoPid), at |-> now]
  /\ processed' = processed + 1
  /\ Goto("recv", "check")
  /\ UNCHANGED <<queueVars, now, ruleVars, drops, dropped, delayed, sent, lost, failVars, gate,
                 lock, flagVars, hostVars, after, until, left>>

\* Receiving fails: the handle is closed, or shut down and drained, or the driver failed.
ReceiveError ==
  /\ pc["recv"] = "recv"
  /\ \/ /\ RecvEnds
        /\ UNCHANGED left
        /\ IF aborted \/ (stopping /\ io = "shut")
             THEN Goto("recv", "end") /\ UNCHANGED after
             ELSE Goto("recv", "mark") /\ after' = [after EXCEPT !["recv"] = "end"]
     \/ /\ Failing("recv")
        /\ IF aborted
             THEN Goto("recv", "end") /\ UNCHANGED after
             ELSE Goto("recv", "mark") /\ after' = [after EXCEPT !["recv"] = "end"]
  /\ UNCHANGED <<queueVars, now, ruleVars, countVars, failVars, gate, lock, flagVars, hostVars,
                 inbound, until>>

\* The aborted flag, global Block, and the parser.
RecvCheck ==
  /\ pc["recv"] = "check"
  /\ LET p == inbound.packet
     IN  \/ aborted /\ Drop("shutdown", 1) /\ Goto("recv", "recv")
         \/ ~aborted /\ GlobalBlocks(p) /\ Drop("block", 1) /\ Goto("recv", "recv")
         \/ /\ ~aborted /\ ~GlobalBlocks(p)
            /\ Goto("recv", IF p.parsed THEN "filter" ELSE "send")
            /\ UNCHANGED <<drops, dropped>>
  /\ UNCHANGED <<queueVars, now, ruleVars, processed, delayed, sent, lost, failVars, gate, lock,
                 flagVars, hostVars, after, inbound, until, left>>

(* The port table finds the packet's process or none; then process Block, loss, and the
   speed limits, global and of the process, which look at Block again. *)
RecvFilter(k, found) ==
  /\ pc["recv"] = "filter"
  /\ inbound.packet = Captured(k, processed, NoPid)
  /\ found \in {k.pid, NoPid}
  /\ LET p == Captured(k, processed, found)
     IN  /\ inbound' = [inbound EXCEPT !.packet = p]
         /\ \/ ProcessBlocks(p) /\ Drop("block", 1) /\ Goto("recv", "recv")
            \/ ~ProcessBlocks(p) /\ Loss(p) > 0 /\ Drop("loss", 1) /\ Goto("recv", "recv")
            \/ /\ ~ProcessBlocks(p) /\ Loss(p) < 2 /\ GlobalBlocks(p)
               /\ Drop("block", 1) /\ Goto("recv", "recv")
            \/ ~Blocks(p) /\ Loss(p) < 2 /\ Limited(p) /\ Drop("rate", 1) /\ Goto("recv", "recv")
            \/ /\ ~Blocks(p) /\ Loss(p) < 2
               /\ Goto("recv", "admit") /\ UNCHANGED <<drops, dropped>>
  /\ UNCHANGED <<queueVars, now, ruleVars, processed, delayed, sent, lost, failVars, gate, lock,
                 flagVars, hostVars, after, until, left>>

\* The gate is taken and aborted read again.
RecvAdmit ==
  /\ pc["recv"] = "admit"
  /\ gate = Free
  /\ \/ /\ aborted
        /\ Drop("shutdown", 1) /\ Goto("recv", "recv") /\ UNCHANGED gate
     \/ /\ ~aborted
        /\ gate' = "recv" /\ Goto("recv", "queue") /\ UNCHANGED <<drops, dropped>>
  /\ UNCHANGED <<queueVars, now, ruleVars, processed, delayed, sent, lost, failVars, lock,
                 flagVars, hostVars, after, inbound, until, left>>

MustDelay(p) == ~p.loopback /\ Delay(p) > 0  \* mutant: the flow's backlog is ignored

\* A packet is queued when it is delayed, or when its flow already has packets waiting.
MustQueue(p) == ~p.loopback /\ (Delay(p) > 0 \/ DQ!HasFlow(p.flow))

RecvQueue ==
  /\ pc["recv"] = "queue"
  /\ lock = Free
  /\ gate' = Free
  /\ LET p == inbound.packet
         deadline == IF draining THEN inbound.at ELSE inbound.at + Delay(p)
     IN  \/ /\ MustQueue(p) /\ DQ!Enqueue(p, deadline)
            /\ delayed' = delayed + 1
            /\ GotoNotifying("recv", "recv")
            /\ UNCHANGED <<drops, dropped>>
         \/ /\ MustQueue(p) /\ ~DQ!Admits(p)
            /\ Drop("queue", 1) /\ Goto("recv", "recv")
            /\ UNCHANGED <<queueVars, now, delayed>>
         \/ /\ ~MustQueue(p)
            /\ Goto("recv", "send")
            /\ UNCHANGED <<queueVars, now, drops, dropped, delayed>>
  /\ UNCHANGED <<ruleVars, processed, sent, lost, failVars, lock, flagVars, hostVars,
                 after, inbound, until, left>>

\* The end of run_worker: the send thread learns that nothing more will come.
RecvEnd ==
  /\ pc["recv"] = "end"
  /\ lock = Free
  /\ recv_done' = TRUE
  /\ GotoNotifying("recv", "done")
  /\ UNCHANGED <<queueVars, now, ruleVars, countVars, failVars, gate, lock, draining, hostVars,
                 after, inbound, until, left>>

-----------------------------------------------------------------------------
(* The send thread: send_loop and the end of run_worker. *)

\* When the send thread leaves: nothing more will come, and the queue is empty.
Ended == recv_done /\ heap = {}

NextDeadline == IF heap = {} THEN None ELSE Min({e.deadline : e \in heap})

\* Starting, or back from a wait: by a notification, by the deadline, or for no reason.
SendWake ==
  /\ lock = Free
  /\ \/ pc["send"] = "awake" /\ UNCHANGED left
     \/ pc["send"] = "asleep" /\ until # None /\ now >= until /\ UNCHANGED left
     \/ pc["send"] = "asleep" /\ Failing("wake")
  /\ lock' = "send"
  /\ Goto("send", "turn")
  /\ UNCHANGED <<queueVars, now, ruleVars, countVars, failVars, gate, flagVars, hostVars,
                 after, inbound, until>>

\* A turn of the loop, under the lock: pop a packet that is due, or leave, or wait.
SendTurn ==
  /\ pc["send"] = "turn"
  /\ lock' = Free
  /\ \/ /\ \E e \in heap : DQ!Pop(e)
        /\ Goto("send", "send")
        /\ UNCHANGED until
     \/ /\ ~DQ!HasDue /\ Ended
        /\ Goto("send", "done")
        /\ UNCHANGED <<queueVars, now, until>>
     \/ /\ ~DQ!HasDue /\ ~Ended
        /\ until' = NextDeadline
        /\ Goto("send", "asleep")
        /\ UNCHANGED <<queueVars, now>>
  /\ UNCHANGED <<ruleVars, countVars, failVars, gate, flagVars, hostVars, after, inbound, left>>

\* Mutant: finish is not called.
SkipFinish ==
  /\ pc["send"] = "finish" /\ lock = Free /\ lock' = "send"
  /\ Goto("send", "turn")
  /\ UNCHANGED <<queueVars, now, ruleVars, countVars, failVars, gate, flagVars, hostVars, after,
                 inbound, until, left>>

SendFinish ==
  /\ pc["send"] = "finish"
  /\ lock = Free
  /\ \E e \in in_hand : DQ!Finish(e)
  /\ lock' = "send"
  /\ Goto("send", "turn")
  /\ UNCHANGED <<ruleVars, countVars, failVars, gate, flagVars, hostVars, after, inbound,
                 until, left>>

\* Mutant: the gate is not taken.
DiscardUngated ==
  /\ pc["send"] = "discard" /\ lock = Free
  /\ DiscardPending
  /\ Goto("send", "done")
  /\ UNCHANGED <<ruleVars, processed, delayed, sent, lost, failVars, gate, lock, flagVars,
                 hostVars, after, inbound, until, left>>

\* After a panic the queue is emptied, behind the gate.
SendDiscard ==
  /\ pc["send"] = "discard"
  /\ gate = Free /\ lock = Free
  /\ DiscardPending
  /\ Goto("send", "done")
  /\ UNCHANGED <<ruleVars, processed, delayed, sent, lost, failVars, gate, lock, flagVars,
                 hostVars, after, inbound, until, left>>

-----------------------------------------------------------------------------
(* The UI thread. *)

IsRunning == ~stopping /\ pc["recv"] \notin {"off", "done"} /\ pc["send"] \notin {"off", "done"}

\* The part of apply under the gate.  Waiting packets that need not wait are released.
Unneeded(p) == Blocks(p) \/ Delay(p) = 0
Change(newRules, newGlobal, revised) ==
  /\ pc["ui"] = "idle"
  /\ gate = Free
  /\ left.commands > 0 /\ left' = [left EXCEPT !.commands = @ - 1]
  /\ rules' = newRules /\ global' = newGlobal
  /\ IF revised
       THEN /\ lock = Free
            /\ DQ!ReleaseMatching({p \in {e.packet : e \in heap} : Unneeded(p)'})
            /\ GotoNotifying("ui", "applied")
       ELSE /\ Goto("ui", "applied")
            /\ UNCHANGED <<queueVars, now>>
  /\ UNCHANGED <<countVars, failVars, gate, lock, flagVars, hostVars, after, inbound, until>>

\* update_rule, for some processes; a speed limit alone is no revision
SameShape(a, b) == a.block = b.block /\ a.loss = b.loss /\ a.delay = b.delay
UpdateRule(S, rule) ==
  Change([p \in Pid |-> IF p \in S THEN rule ELSE rules[p]], global,
         \E p \in S : ~SameShape(rules[p], rule))

SetGlobalRule(rule) ==
  Change(rules, rule, global.block # rule.block \/ global.delay # rule.delay)

ClearRules == Change([p \in Pid |-> NoRule], NoRule, TRUE)

\* Mutant: the filter is installed whether the engine runs or not.
AlwaysSync ==
  /\ pc["ui"] = "applied"
  /\ Goto("ui", "sync")
  /\ UNCHANGED <<queueVars, now, ruleVars, countVars, failVars, gate, lock, flagVars, hostVars,
                 after, inbound, until, left>>

\* The rest of apply.
ApplyRunning ==
  /\ pc["ui"] = "applied"
  /\ Goto("ui", IF IsRunning THEN "sync" ELSE "unsync")
  /\ UNCHANGED <<queueVars, now, ruleVars, countVars, failVars, gate, lock, flagVars, hostVars,
                 after, inbound, until, left>>

\* Mutant: a filter that is no longer wanted stays.
SyncedKeeping == socket' = IF Filter = {} THEN socket ELSE [active |-> Filter, error |-> FALSE]

\* sync_socket_block: the filter in force is replaced once the new one is installed.
Synced == socket' = IF Filter = {} THEN NoFilter
                    ELSE IF socket.active = Filter THEN socket
                    ELSE [active |-> Filter, error |-> FALSE]
SyncFailed ==
  /\ Filter # {} /\ socket.active # Filter
  /\ Failing("filter")
  /\ socket' = [active |-> {}, error |-> TRUE]

ApplySync ==
  /\ \/ pc["ui"] = "sync" /\ Synced /\ UNCHANGED left
     \/ pc["ui"] = "sync" /\ SyncFailed
     \/ pc["ui"] = "unsync" /\ socket' = NoFilter /\ UNCHANGED left
  /\ Goto("ui", "idle")
  /\ UNCHANGED <<queueVars, now, ruleVars, countVars, failVars, gate, lock, flagVars,
                 active, io, told, after, inbound, until>>

\* stop, alone or at the head of start
StopFor(next) ==
  /\ Goto("ui", IF active THEN "request" ELSE "join")
  /\ after' = [after EXCEPT !["ui"] = next]

Start ==
  /\ pc["ui"] = "idle" /\ ~IsRunning
  /\ left.starts > 0 /\ left' = [left EXCEPT !.starts = @ - 1]
  /\ StopFor("open")
  /\ stopping' = (stopping \/ ~active)
  /\ told' = "starting"
  /\ UNCHANGED <<queueVars, now, ruleVars, countVars, error, aborted, gate, lock, flagVars,
                 active, socket, io, inbound, until>>

Stop ==
  /\ pc["ui"] = "idle"
  /\ StopFor("idle")
  /\ stopping' = (stopping \/ ~active)
  /\ UNCHANGED <<queueVars, now, ruleVars, countVars, error, aborted, gate, lock, flagVars,
                 hostVars, inbound, until, left>>

\* request_stop: the flag, then the release of the queue, then the driver.
RequestStop ==
  /\ pc["ui"] = "request"
  /\ stopping' = TRUE
  /\ Goto("ui", IF stopping THEN "drain" ELSE "drain_first")
  /\ UNCHANGED <<queueVars, now, ruleVars, countVars, error, aborted, gate, lock, flagVars,
                 hostVars, after, inbound, until, left>>

Drain ==
  /\ pc["ui"] \in {"drain", "drain_first"}
  /\ ReleaseAll
  /\ draining' = TRUE
  /\ GotoNotifying("ui", IF pc["ui"] = "drain" THEN "join" ELSE "shutdown")
  /\ UNCHANGED <<ruleVars, countVars, failVars, gate, lock, recv_done, hostVars,
                 after, inbound, until, left>>

ShutdownRecv ==
  /\ pc["ui"] = "shutdown"
  /\ \/ ShutHandle /\ Goto("ui", "join") /\ UNCHANGED left
     \/ ~ValidHandle /\ Goto("ui", "mark") /\ UNCHANGED <<io, left>>
     \/ ValidHandle /\ Failing("shutdown") /\ Goto("ui", "mark") /\ UNCHANGED io
  /\ UNCHANGED <<queueVars, now, ruleVars, countVars, failVars, gate, lock, flagVars,
                 active, socket, told, after, inbound, until>>

JoinedRecv == pc["recv"] \in {"off", "done"}  \* mutant: the send thread is not waited for
Joined == pc["recv"] \in {"off", "done"} /\ pc["send"] \in {"off", "done"}

\* Both threads have ended: what they left behind is discarded.
Stopped ==
  /\ pc["ui"] = "join"
  /\ Joined
  /\ pc' = [t \in Thread |-> IF t = "ui" THEN after["ui"] ELSE "off"]
  /\ active' = FALSE /\ CloseHandle /\ socket' = NoFilter
  /\ DiscardPending
  /\ UNCHANGED <<ruleVars, processed, delayed, sent, lost, failVars, gate, lock, flagVars,
                 told, after, inbound, until, left>>

\* Mutant: the flags beside the queue survive the restart.
ResetCountersOnly ==
  /\ processed' = 0 /\ drops' = NoDrops /\ dropped' = 0 /\ delayed' = 0
  /\ sent' = {} /\ lost' = 0
  /\ aborted' = FALSE /\ error' = FALSE
  /\ DQ!Clear /\ UNCHANGED flagVars

\* reset_runtime_counters
ResetCounters ==
  /\ processed' = 0 /\ drops' = NoDrops /\ dropped' = 0 /\ delayed' = 0
  /\ sent' = {} /\ lost' = 0
  /\ aborted' = FALSE /\ error' = FALSE
  /\ DQ!Clear /\ draining' = FALSE /\ recv_done' = FALSE

\* The rest of start, up to the send thread: the handle, the filter, the counters.
Open ==
  /\ pc["ui"] = "open"
  /\ \/ /\ Failing("open")
        /\ Goto("ui", "idle") /\ UNCHANGED socket
        /\ UNCHANGED <<queueVars, now, countVars, failVars, flagVars, active, io, after>>
     \/ /\ SyncFailed
        /\ Goto("ui", "idle")
        /\ UNCHANGED <<queueVars, now, countVars, failVars, flagVars, active, io, after>>
     \/ /\ Synced
        /\ stopping' = FALSE
        /\ ResetCounters
        /\ active' = TRUE /\ OpenHandle
        /\ \/ /\ pc' = [pc EXCEPT !["ui"] = "spawn", !["send"] = "awake"]
              /\ UNCHANGED <<after, left>>
           \/ Failing("spawn") /\ Goto("ui", "request") /\ after' = [after EXCEPT !["ui"] = "idle"]
  /\ UNCHANGED <<ruleVars, gate, lock, told, inbound, until>>

SpawnRecv ==
  /\ pc["ui"] = "spawn"
  /\ \/ /\ pc' = [pc EXCEPT !["ui"] = "idle", !["recv"] = "recv"]
        /\ UNCHANGED <<recv_done, after, left>>
     \/ /\ Failing("spawn") /\ lock = Free
        /\ recv_done' = TRUE
        /\ Goto("ui", "request") /\ after' = [after EXCEPT !["ui"] = "idle"]
  /\ UNCHANGED <<queueVars, now, ruleVars, countVars, failVars, gate, lock, draining, hostVars,
                 inbound, until>>

\* snapshot_and_reset: whether it runs is read first; a filter without an engine is removed.
Snapshot ==
  /\ pc["ui"] = "idle"
  /\ Goto("ui", IF IsRunning THEN "tell_running" ELSE "tell_stopped")
  /\ UNCHANGED <<queueVars, now, ruleVars, countVars, failVars, gate, lock, flagVars, hostVars,
                 after, inbound, until, left>>

Tell ==
  /\ pc["ui"] \in {"tell_running", "tell_stopped"}
  /\ IF pc["ui"] = "tell_stopped"
       THEN told' = "stopped" /\ socket' = [socket EXCEPT !.active = {}]
       ELSE told' = "running" /\ UNCHANGED socket
  /\ Goto("ui", "idle")
  /\ UNCHANGED <<queueVars, now, ruleVars, countVars, failVars, gate, lock, flagVars,
                 active, io, after, inbound, until, left>>

-----------------------------------------------------------------------------
(* The system. *)

Tick ==
  /\ DQ!Tick
  /\ UNCHANGED <<ruleVars, countVars, failVars, gate, lock, flagVars, hostVars, threadVars, left>>

RecvStep ==
  \/ ReceiveError \/ RecvCheck
  \/ \E k \in Kind : \E found \in {k.pid, NoPid} : RecvFilter(k, found)
  \/ RecvAdmit \/ RecvQueue \/ RecvEnd
  \/ SendCheck("recv") \/ SendIo("recv") \/ Fail("recv")
SendStep ==
  SendWake \/ SendTurn \/ SendFinish \/ SendDiscard
  \/ SendCheck("send") \/ SendIo("send") \/ Fail("send")
UiStep ==
  ApplyRunning \/ ApplySync \/ RequestStop \/ Drain \/ ShutdownRecv \/ Stopped
  \/ Open \/ SpawnRecv \/ Tell \/ Fail("ui")
Operation ==
  \/ \E S \in SUBSET Pid \ {{}}, rule \in Rule : UpdateRule(S, rule)
  \/ \E rule \in GlobalRule : SetGlobalRule(rule)
  \/ ClearRules \/ Start \/ Stop \/ Snapshot

Next == (\E k \in Kind : Receive(k)) \/ RecvStep \/ SendStep \/ UiStep \/ Operation \/ Tick

Spec == Init /\ [][Next]_vars

(***************************************************************************)
(* The threads are scheduled, the driver answers a receive once its handle *)
(* is shut down or closed, and time passes; nothing has to fail, arrive or *)
(* be asked for.                                                           *)
(***************************************************************************)
Fairness ==
  /\ WF_vars(RecvStep /\ UNCHANGED left)
  /\ WF_vars(SendStep /\ UNCHANGED left)
  /\ WF_vars(UiStep /\ UNCHANGED left)
  /\ WF_vars(Tick)
FairSpec == Spec /\ Fairness

-----------------------------------------------------------------------------
(* Properties. *)

Failure == {"mark", "close", "unblock", "flush"}
RecvPlace == {"off", "recv", "check", "filter", "admit", "queue", "send", "io", "end", "done"}
             \cup Failure
SendPlace == {"off", "awake", "asleep", "turn", "send", "io", "finish", "discard", "done"}
             \cup Failure
UiPlace == {"idle", "applied", "sync", "unsync", "request", "drain", "drain_first", "shutdown",
            "join", "open", "spawn", "tell_running", "tell_stopped"} \cup Failure

TypeOK ==
  /\ DQ!TypeOK
  /\ rules \in [Pid -> Rule \cup {NoRule}] /\ global \in GlobalRule \cup {NoRule}
  /\ processed \in 0 .. MaxArrivals /\ delayed \in 0 .. MaxArrivals
  /\ drops \in [Reason -> 0 .. MaxArrivals] /\ dropped \in 0 .. MaxArrivals
  /\ {error, aborted, stopping, draining, recv_done, active} \subseteq BOOLEAN
  /\ gate \in {Free, "recv", "send"} /\ lock \in {Free, "send"}
  /\ socket.active \subseteq Pid \cup {Everyone} /\ socket.error \in BOOLEAN
  /\ io \in {"closed", "open", "shut"}
  /\ pc["recv"] \in RecvPlace /\ pc["send"] \in SendPlace /\ pc["ui"] \in UiPlace
  /\ inbound = Nothing \/ inbound.packet \in Packet
  /\ until \in DQ!Instant \cup {None}
  /\ sent \subseteq Packet /\ lost \in 0 .. 1
  /\ told \in {"running", "stopped", "starting"}

(***************************************************************************)
(* A Block rule is final: whatever was captured, filtered or queued before *)
(* the rule was set, no packet it covers is sent once the change is made   *)
(* (engine.rs: the gate is held from the check to the driver's send, and   *)
(* by apply while it changes the rules).                                   *)
(***************************************************************************)
BlockIsFinal ==
  [][\A p \in sent' \ sent : ~p.loopback => ~global.block /\ ~RuleOf(p).block]_vars

(***************************************************************************)
(* The packets of a flow are sent in the order they were captured, though  *)
(* some are sent by the receive thread at once and others by the send      *)
(* thread, and delays change while they wait.                              *)
(***************************************************************************)
SentInOrder ==
  [][\A p \in sent' \ sent : \A q \in sent :
       p.parsed /\ q.parsed /\ p.flow = q.flow => q.id < p.id]_vars

(***************************************************************************)
(* Every captured packet is accounted for once: it is sent, dropped for    *)
(* one reason, still waiting or in some thread's hands, or was lost with a *)
(* panic of the receive thread.                                            *)
(***************************************************************************)
RecvHolds == pc["recv"] \in {"check", "filter", "admit", "queue", "send", "io"}
SendHolds == \/ pc["send"] \in {"send", "io", "discard"}
             \/ pc["send"] \in Failure /\ after["send"] = "discard"
Accounted ==
  /\ processed = Cardinality(sent) + dropped + lost + Cardinality(heap)
                 + (IF RecvHolds THEN 1 ELSE 0) + (IF SendHolds THEN 1 ELSE 0)
  /\ dropped = SumFunction(drops)

(***************************************************************************)
(* Once the send thread has ended no packet waits for it, and none will:   *)
(* the receive thread has ended, or finds the engine aborted, behind the   *)
(* gate, before it queues one more.                                        *)
(***************************************************************************)
NothingStranded ==
  pc["send"] = "done" =>
    /\ heap = {} /\ in_hand = {}
    /\ aborted \/ pc["recv"] \in {"off", "done"}

\* Delays are cut short only while the engine stops, never after a restart.
OnlyStoppingDrains == draining => stopping

(***************************************************************************)
(* Nothing is thrown away or fails silently: a shutdown discard, a failed  *)
(* send or a lost packet always comes with an engine error, so a stop      *)
(* without one has flushed everything (README.md: "Normal Stop/Exit stops  *)
(* capture, cancels extra waiting and flushes captured packets").          *)
(***************************************************************************)
FailuresReported ==
  drops["shutdown"] > 0 \/ drops["send"] > 0 \/ lost > 0
    => error \/ \E t \in Thread : pc[t] = "mark"

(***************************************************************************)
(* The connection filter: none is left once a snapshot has told the user   *)
(* that the engine stopped (engine.rs: "must not leave invisible           *)
(* connection filters active while the UI reports stopped"), and while it  *)
(* runs the filter is that of the rules, unless its failure is reported.   *)
(***************************************************************************)
FilterGone == told = "stopped" => socket.active = {}
FilterCurrent == pc["ui"] = "idle" /\ IsRunning /\ ~socket.error => socket.active = Filter

(***************************************************************************)
(* A packet that was popped is finished once, before the next is popped or *)
(* the thread waits, whatever fails meanwhile: until then, and no longer,  *)
(* it counts against the queue's limit and holds its flow back, so that    *)
(* what comes behind it is queued (engine.rs:612-630; finish on every way  *)
(* out of the send, and after a panic none, but a new queue).              *)
(***************************************************************************)
SendOwes == pc["send"] \in {"send", "io", "finish", "discard"} \cup Failure
FinishedOnce ==
  /\ usage.packets = Cardinality(heap) + (IF SendOwes THEN 1 ELSE 0)
  /\ SendOwes => DQ!HasFlow(InHand("send").flow)

\* A stop, alone or at the head of a start, comes to an end, whatever fails meanwhile.
StopCompletes ==
  pc["ui"] \in {"request", "drain", "drain_first", "shutdown", "join"} \cup Failure
    ~> pc["ui"] \in {"idle", "open"}

\* A packet that waits does not wait for ever, nor does one that was popped.
PacketsLeave ==
  \A id \in 1 .. MaxArrivals :
    (\E e \in DQ!Held : e.packet.id = id) ~> ~(\E e \in DQ!Held : e.packet.id = id)

\* A failure ends both threads without the user's help.
AbortEnds ==
  aborted ~> ~aborted \/ (pc["recv"] \in {"off", "done"} /\ pc["send"] \in {"off", "done"})
=============================================================================
