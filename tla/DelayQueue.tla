----------------------------- MODULE DelayQueue -----------------------------
(***************************************************************************)
(* The delay queue of flowbrake-windows (delay_queue.rs): packets that     *)
(* must wait before they are sent again, ordered by deadline but never     *)
(* reordered within a flow, with quotas on packets and bytes, for the      *)
(* whole queue and per process.                                            *)
(*                                                                         *)
(* One action per method that changes the queue.  The caller's side is     *)
(* reduced to what the methods require of it: a popped entry stays in      *)
(* in_hand until the sender finishes it.  Instants are the values of a     *)
(* discrete clock; None, where the code has an Option<Instant>, is a value *)
(* below every instant.                                                    *)
(***************************************************************************)
EXTENDS Integers, FiniteSetsExt

CONSTANTS
  Packet,         \* packets: records with the fields flow, pid and bytes
  MaxPackets,     \* max_packets
  MaxBytes,       \* max_bytes
  MaxPidPackets,  \* max_pid_packets
  MaxPidBytes,    \* max_pid_bytes
  MaxDelay,       \* the longest delay a caller asks for (MAX_DELAY_MS)
  Horizon,        \* bound of the clock
  MaxSequence     \* bound of next_sequence

ASSUME PacketAssumption == \A p \in Packet : p.bytes \in Nat

ASSUME LimitsAssumption ==
  /\ MaxPackets \in Nat /\ MaxBytes \in Nat
  /\ MaxPidPackets \in Nat /\ MaxPidBytes \in Nat
  /\ MaxDelay \in Nat /\ Horizon \in Nat /\ MaxSequence \in Nat

VARIABLES
  heap,           \* the waiting entries
  flows,          \* FlowState of every flow that has an entry
  pids,           \* Usage of every process that has an entry
  usage,          \* Usage of the whole queue
  next_sequence,
  in_hand,        \* entries popped and not yet finished
  now             \* the clock

queueVars == <<heap, flows, pids, usage, next_sequence, in_hand>>
vars == <<queueVars, now>>

-----------------------------------------------------------------------------
(* The data. *)

None == -1
Instant == 0 .. Horizon + MaxDelay
Flow == {p.flow : p \in Packet}
Pid == {p.pid : p \in Packet}

(***************************************************************************)
(* An entry of the heap.  The fields due and since are history, read by    *)
(* the properties only: due is the instant the caller asked for (lowered   *)
(* when the entry is released), since the instant it was queued.           *)
(***************************************************************************)
Entry == [packet : Packet, deadline : Instant, sequence : 0 .. MaxSequence - 1,
          due : Instant, since : 0 .. Horizon]
FlowState == [packets : Int, tail : Instant \cup {None},
              in_flight : Int, in_flight_tail : Instant \cup {None}]
Usage == [packets : Int, bytes : Int]

EmptyFlow == [packets |-> 0, tail |-> None, in_flight |-> 0, in_flight_tail |-> None]
NoUsage == [packets |-> 0, bytes |-> 0]
EmptyMap == [k \in {} |-> None]

With(map, key, value) ==
  [k \in DOMAIN map \cup {key} |-> IF k = key THEN value ELSE map[k]]
Without(map, key) == [k \in DOMAIN map \ {key} |-> map[k]]

\* entry(key).or_default()
FlowOf(f) == IF f \in DOMAIN flows THEN flows[f] ELSE EmptyFlow
UsageOf(k) == IF k \in DOMAIN pids THEN pids[k] ELSE NoUsage

\* What each method does to the state of the flow concerned.
Queued(state, deadline) == [state EXCEPT !.packets = @ + 1, !.tail = deadline]
Popped(state, deadline) == [state EXCEPT !.in_flight = @ + 1, !.in_flight_tail = deadline]
FinishedInFlight(state) == [state EXCEPT !.packets = @ - 1]  \* mutant: in_flight is kept
Finished(state) ==
  [state EXCEPT !.packets = @ - 1, !.in_flight = @ - 1,
                !.in_flight_tail = IF state.in_flight = 1 THEN None ELSE @]

Later(a, b) == IF a >= b THEN a ELSE b
SameFlow(a, b) == a.packet.flow = b.packet.flow

-----------------------------------------------------------------------------
(* The methods. *)

Init ==
  /\ heap = {} /\ in_hand = {}
  /\ flows = EmptyMap /\ pids = EmptyMap
  /\ usage = NoUsage
  /\ next_sequence = 0
  /\ now = 0

HasFlow(f) == f \in DOMAIN flows

\* saturating_sub
Room(max, used) == IF used >= max THEN 0 ELSE max - used

\* Mutant: the packet quota is off by one.
AdmitsOneMore(p) ==
  /\ usage.packets <= MaxPackets
  /\ p.bytes <= Room(MaxBytes, usage.bytes)
  /\ UsageOf(p.pid).packets < MaxPidPackets
  /\ p.bytes <= Room(MaxPidBytes, UsageOf(p.pid).bytes)

\* The test at the head of enqueue: whether there is room for packet p.
Admits(p) ==
  /\ usage.packets < MaxPackets
  /\ p.bytes <= Room(MaxBytes, usage.bytes)
  /\ UsageOf(p.pid).packets < MaxPidPackets
  /\ p.bytes <= Room(MaxPidBytes, UsageOf(p.pid).bytes)

\* Mutants: the delay of the predecessor is ignored, or added to the packet's own.
RequestedDeadline(p, requested) == requested
AddedDeadline(p, requested) ==
  IF FlowOf(p.flow).tail = None THEN requested ELSE FlowOf(p.flow).tail + requested - now

\* A packet never waits less than its predecessor of the same flow.
QueuedDeadline(p, requested) == Later(FlowOf(p.flow).tail, requested)

\* enqueue: when Admits fails the method returns false and changes nothing.
Enqueue(p, requested) ==
  /\ Admits(p)
  /\ next_sequence < MaxSequence
  /\ LET deadline == QueuedDeadline(p, requested)
     IN  /\ heap' = heap \cup {[packet |-> p, deadline |-> deadline,
                                sequence |-> next_sequence,
                                due |-> requested, since |-> now]}
         /\ flows' = With(flows, p.flow, Queued(FlowOf(p.flow), deadline))
  /\ pids' = With(pids, p.pid,
                  [packets |-> UsageOf(p.pid).packets + 1,
                   bytes |-> UsageOf(p.pid).bytes + p.bytes])
  /\ usage' = [packets |-> usage.packets + 1, bytes |-> usage.bytes + p.bytes]
  /\ next_sequence' = next_sequence + 1
  /\ UNCHANGED <<in_hand, now>>

\* The order of the heap: by deadline, then by sequence.
Before(a, b) ==
  \/ a.deadline < b.deadline
  \/ a.deadline = b.deadline /\ a.sequence < b.sequence
IsEarliest(e) == \A x \in heap : e.deadline <= x.deadline  \* mutant: ties are not broken
IsHead(e) == \A x \in heap \ {e} : Before(e, x)

HasDue == \E e \in heap : e.deadline <= now

\* pop_due
Pop(e) ==
  /\ e \in heap
  /\ IsHead(e)
  /\ e.deadline <= now
  /\ heap' = heap \ {e}
  /\ in_hand' = in_hand \cup {e}
  /\ flows' = [flows EXCEPT ![e.packet.flow] = Popped(@, e.deadline)]
  /\ UNCHANGED <<pids, usage, next_sequence, now>>

\* finish
Finish(e) ==
  /\ e \in in_hand
  /\ LET p == e.packet
         left == [packets |-> pids[p.pid].packets - 1,
                  bytes |-> pids[p.pid].bytes - p.bytes]
         flow == Finished(flows[p.flow])
     IN  /\ usage' = [packets |-> usage.packets - 1, bytes |-> usage.bytes - p.bytes]
         /\ pids' = IF left.packets = 0 THEN Without(pids, p.pid)
                                        ELSE With(pids, p.pid, left)
         /\ flows' = IF flow.packets = 0 THEN Without(flows, p.flow)
                                         ELSE With(flows, p.flow, flow)
  /\ in_hand' = in_hand \ {e}
  /\ UNCHANGED <<heap, next_sequence, now>>

(***************************************************************************)
(* release_matching walks the entries in capture order with a running      *)
(* maximum per flow that starts at the deadline of the entry in flight.    *)
(* In closed form an entry's new deadline is the latest among that start   *)
(* and the stamps of the entries of its flow up to and including itself.   *)
(***************************************************************************)
Stamp(e, matched) == IF e.packet \in matched THEN now ELSE e.deadline
UpTo(e) == {x \in heap : SameFlow(x, e) /\ x.sequence <= e.sequence}
\* Mutant: the running maximum starts at the old tail, not at the entry in flight.
RebuiltFromTail(e, matched) ==
  Max({flows[e.packet.flow].tail} \cup {Stamp(x, matched) : x \in UpTo(e)})
Rebuilt(e, matched) ==
  Max({flows[e.packet.flow].in_flight_tail} \cup {Stamp(x, matched) : x \in UpTo(e)})
Released(e, matched) ==
  [e EXCEPT !.deadline = Rebuilt(e, matched),
            !.due = IF e.packet \in matched /\ now < e.due THEN now ELSE e.due]
OldTail(f, matched) == flows[f].tail  \* mutant: a release leaves the tail alone
RebuiltTail(f, matched) ==
  Max({flows[f].in_flight_tail}
      \cup {Stamp(x, matched) : x \in {y \in heap : y.packet.flow = f}})

ReleaseMatching(matched) ==
  /\ UNCHANGED <<pids, usage, next_sequence, in_hand, now>>
  /\ heap' = {Released(e, matched) : e \in heap}
  /\ flows' = [f \in DOMAIN flows |-> [flows[f] EXCEPT !.tail = RebuiltTail(f, matched)]]

\* Mutant: the totals of the queue survive it.
ClearEntries ==
  /\ heap' = {} /\ in_hand' = {}
  /\ flows' = EmptyMap /\ pids' = EmptyMap
  /\ next_sequence' = 0
  /\ UNCHANGED <<usage, now>>

\* The queue is replaced by DelayQueue::default(), on a restart or a discard.
Clear ==
  /\ heap' = {} /\ in_hand' = {}
  /\ flows' = EmptyMap /\ pids' = EmptyMap
  /\ usage' = NoUsage
  /\ next_sequence' = 0
  /\ UNCHANGED now

Tick == now < Horizon /\ now' = now + 1 /\ UNCHANGED queueVars

Next ==
  \/ \E p \in Packet : \E requested \in 0 .. now + MaxDelay : Enqueue(p, requested)
  \/ \E e \in heap : Pop(e)
  \/ \E e \in in_hand : Finish(e)
  \/ \E matched \in SUBSET {e.packet : e \in heap} : ReleaseMatching(matched)
  \/ Clear
  \/ Tick

Spec == Init /\ [][Next]_vars

-----------------------------------------------------------------------------
(* Properties. *)

Held == heap \cup in_hand

TypeOK ==
  /\ heap \subseteq Entry /\ in_hand \subseteq Entry
  /\ DOMAIN flows \subseteq Flow /\ \A f \in DOMAIN flows : flows[f] \in FlowState
  /\ DOMAIN pids \subseteq Pid /\ \A k \in DOMAIN pids : pids[k] \in Usage
  /\ usage \in Usage
  /\ next_sequence \in 0 .. MaxSequence
  /\ now \in 0 .. Horizon

(***************************************************************************)
(* Within a flow the deadlines never decrease in capture order, every      *)
(* packet in flight was captured before every packet still waiting, and no *)
(* waiting packet is due before the last one in flight: clearing a later   *)
(* packet cannot overtake its predecessor.                                 *)
(***************************************************************************)
FlowOrder ==
  /\ \A a, b \in heap : SameFlow(a, b) /\ a.sequence < b.sequence => a.deadline <= b.deadline
  /\ \A a \in in_hand, b \in heap : SameFlow(a, b) =>
       /\ a.sequence < b.sequence
       /\ flows[b.packet.flow].in_flight_tail <= b.deadline

(***************************************************************************)
(* The tail kept for a flow is the latest deadline it still owes: a stale  *)
(* one would hold back packets that need not wait, a missing one would let *)
(* the next packet overtake.                                               *)
(***************************************************************************)
TailExact ==
  \A f \in DOMAIN flows :
    flows[f].tail = Max({flows[f].in_flight_tail}
                        \cup {e.deadline : e \in {x \in heap : x.packet.flow = f}})

(***************************************************************************)
(* Flow and process entries exist exactly for what is queued or in flight, *)
(* and every packet count is the number of those packets: nothing leaks    *)
(* and no counter underflows, whatever the order of the calls.             *)
(***************************************************************************)
CountsExact ==
  /\ DOMAIN flows = {e.packet.flow : e \in Held}
  /\ DOMAIN pids = {e.packet.pid : e \in Held}
  /\ usage.packets = Cardinality(heap) + Cardinality(in_hand)
  /\ \A f \in DOMAIN flows :
       /\ flows[f].packets = Cardinality({e \in Held : e.packet.flow = f})
       /\ flows[f].in_flight = Cardinality({e \in in_hand : e.packet.flow = f})
  /\ \A k \in DOMAIN pids :
       pids[k].packets = Cardinality({e \in Held : e.packet.pid = k})

\* The byte totals, of the queue and of each process, are those of its packets.
TotalBytes(S) == SumFunction([e \in S |-> e.packet.bytes])
BytesExact ==
  /\ usage.bytes = TotalBytes(Held)
  /\ \A k \in DOMAIN pids : pids[k].bytes = TotalBytes({e \in Held : e.packet.pid = k})

\* The quotas hold with the packets in flight counted in.
WithinLimits ==
  /\ usage.packets <= MaxPackets /\ usage.bytes <= MaxBytes
  /\ \A k \in DOMAIN pids : pids[k].packets <= MaxPidPackets /\ pids[k].bytes <= MaxPidBytes

(***************************************************************************)
(* A packet is never due before the instant asked for it, and one that     *)
(* still waits never waits longer than the longest delay that can be       *)
(* asked: delays of a flow do not add up.                                  *)
(***************************************************************************)
DelayBounds ==
  \A e \in heap :
    /\ e.due <= e.deadline
    /\ e.deadline > now => e.deadline <= e.since + MaxDelay

(***************************************************************************)
(* A released packet whose predecessors in the flow are all released too   *)
(* can be popped at once.                                                  *)
(***************************************************************************)
ReleaseMakesDue ==
  [][\A matched \in SUBSET {e.packet : e \in heap} :
       ReleaseMatching(matched) =>
         \A e \in heap : {x.packet : x \in UpTo(e)} \subseteq matched =>
           \E x \in heap' : x.sequence = e.sequence /\ x.deadline <= now]_vars

(***************************************************************************)
(* The queue implements the delay line: a packet leaves only when it is    *)
(* first of its flow and due, however deadlines are passed on, released    *)
(* or rebuilt, and whatever is in flight.                                  *)
(***************************************************************************)
Line(e) == [flow |-> e.packet.flow, ticket |-> e.sequence, due |-> e.due]
DL == INSTANCE DelayLine WITH waiting <- {Line(e) : e \in heap}, Ticket <- 0 .. MaxSequence - 1
ImplementsDelayLine == DL!Spec
=============================================================================
