-------------------------- MODULE DelayQueue_proof --------------------------
(***************************************************************************)
(* Proofs about DelayQueue: its invariants, for any packets, quotas,       *)
(* delays and bounds, and that it implements DelayLine.                    *)
(***************************************************************************)
EXTENDS DelayQueue, Sums, FiniteSetTheorems, WellFoundedInduction, TLAPS

-----------------------------------------------------------------------------
(* The inductive invariant. *)

Finite == IsFiniteSet(heap) /\ IsFiniteSet(in_hand)

\* Sequence numbers name the entries, and no entry is both waiting and popped.
Distinct ==
  /\ \A e \in Held : e.sequence < next_sequence
  /\ \A a, b \in Held : a.sequence = b.sequence => a = b
  /\ heap \cap in_hand = {}

\* The bounds of the instants a flow remembers.
TailBounds ==
  \A f \in DOMAIN flows :
    /\ flows[f].in_flight_tail <= now
    /\ flows[f].tail <= now + MaxDelay

\* FlowOrder, with its last part for every flow that has a waiting packet.
Order ==
  /\ \A a, b \in heap : SameFlow(a, b) /\ a.sequence < b.sequence => a.deadline <= b.deadline
  /\ \A a \in in_hand, b \in heap : SameFlow(a, b) => a.sequence < b.sequence
  /\ \A b \in heap : flows[b.packet.flow].in_flight_tail <= b.deadline

\* TailExact, said of the members rather than of their maximum.
TailMembers ==
  \A f \in DOMAIN flows :
    /\ flows[f].in_flight_tail <= flows[f].tail
    /\ \A e \in heap : e.packet.flow = f => e.deadline <= flows[f].tail
    /\ \/ flows[f].tail = flows[f].in_flight_tail
       \/ \E e \in heap : e.packet.flow = f /\ e.deadline = flows[f].tail

IInv ==
  /\ TypeOK /\ Finite /\ Distinct /\ CountsExact
  /\ Order /\ TailMembers /\ TailBounds /\ DelayBounds /\ WithinLimits

-----------------------------------------------------------------------------
(* Lemmas about the operators. *)

AnyInstant == Instant \cup {None}

LEMMA InstantsAreIntegers ==
  \A x \in AnyInstant : x \in Int /\ x >= None /\ x <= Horizon + MaxDelay
BY LimitsAssumption DEF AnyInstant, Instant, None

(***************************************************************************)
(* A nonempty set of instants, None among them or not, has a latest        *)
(* member, and Max is it.                                                  *)
(***************************************************************************)
LEMMA MaxIsLatest ==
  ASSUME NEW S, S \subseteq AnyInstant, S # {}
  PROVE  /\ Max(S) \in S
         /\ \A x \in S : x <= Max(S)
<1> DEFINE B == Horizon + MaxDelay
           T == {B - x : x \in S}
<1>1. B \in Nat /\ \A x \in S : x \in Int /\ x <= B
  BY LimitsAssumption, InstantsAreIntegers
<1>2. \A x \in S : B - x \in Nat
  <2> HIDE DEF B
  <2> QED BY <1>1
<1>3. PICK t \in T : \A y \in T : ~(<<y, t>> \in OpToRel(<, Nat))
  <2>1. T \subseteq Nat
    BY <1>2, Zenon
  <2>2. T # {}
    BY Zenon
  <2> HIDE DEF T
  <2> QED BY <2>1, <2>2, NatLessThanWellFounded, WFMin
<1>4. PICK m \in S : t = B - m
  OBVIOUS
<1>5. \A x \in S : ~(B - x < B - m)
  BY <1>2, <1>3, <1>4, Zenon DEF OpToRel
<1>6. \A x \in S : m >= x
  <2> HIDE DEF B
  <2> QED BY <1>1, <1>5
<1>7. Max(S) \in S /\ \A x \in S : Max(S) >= x
  BY <1>6, Zenon DEF Max
<1> QED BY <1>1, <1>7

\* The value of Max is the one member that bounds the set.
LEMMA MaxIs ==
  ASSUME NEW S, S \subseteq AnyInstant, NEW m \in S, \A x \in S : x <= m
  PROVE  Max(S) = m
<1>1. Max(S) \in S /\ m <= Max(S)
  BY MaxIsLatest
<1>2. m \in Int /\ Max(S) \in Int /\ Max(S) <= m
  BY <1>1, InstantsAreIntegers
<1> QED BY <1>1, <1>2

-----------------------------------------------------------------------------
(* The invariant holds initially and every action preserves it. *)

\* A queue as DelayQueue::default() makes it.
Fresh ==
  /\ heap = {} /\ in_hand = {}
  /\ flows = EmptyMap /\ pids = EmptyMap
  /\ usage = NoUsage /\ next_sequence = 0
  /\ now \in 0 .. Horizon

LEMMA FreshOK == Fresh => IInv
<1> SUFFICES ASSUME Fresh PROVE IInv
  OBVIOUS
<1>1. heap = {} /\ in_hand = {} /\ DOMAIN flows = {} /\ DOMAIN pids = {} /\ Held = {}
  BY DEF Fresh, EmptyMap, Held
<1>2. TypeOK
  BY <1>1, LimitsAssumption DEF TypeOK, Fresh, NoUsage, Usage
<1>3. Cardinality(heap) = 0 /\ Cardinality(in_hand) = 0 /\ Finite
  BY <1>1, FS_EmptySet DEF Finite
<1>4. usage.packets = 0 /\ usage.bytes = 0
  BY DEF Fresh, NoUsage
<1>5. CountsExact
  BY <1>1, <1>3, <1>4 DEF CountsExact
<1>6. WithinLimits
  BY <1>1, <1>4, LimitsAssumption DEF WithinLimits
<1>7. Distinct /\ Order /\ TailMembers /\ TailBounds /\ DelayBounds
  BY <1>1 DEF Distinct, Order, TailMembers, TailBounds, DelayBounds
<1> QED BY <1>2, <1>3, <1>5, <1>6, <1>7 DEF IInv

LEMMA InitOK == Init => IInv
<1>1. Init => Fresh
  BY LimitsAssumption DEF Init, Fresh
<1> QED BY <1>1, FreshOK

LEMMA ClearOK == IInv /\ Clear => IInv'
<1>1. IInv /\ Clear => Fresh'
  BY DEF IInv, TypeOK, Clear, Fresh
<1> QED BY <1>1, FreshOK, PTL

LEMMA TickOK == IInv /\ Tick => IInv'
<1> SUFFICES ASSUME IInv, Tick PROVE IInv'
  OBVIOUS
<1> USE DEF IInv, Tick, queueVars
<1>1. TypeOK'
  BY LimitsAssumption DEF TypeOK
<1>2. Finite' /\ Distinct' /\ CountsExact' /\ Order' /\ TailMembers' /\ WithinLimits'
  BY DEF Finite, Distinct, CountsExact, Order, TailMembers, WithinLimits, Held
<1>3. TailBounds'
  <2>1. \A f \in DOMAIN flows : flows[f].in_flight_tail \in Int /\ flows[f].tail \in Int
    BY InstantsAreIntegers DEF TypeOK, FlowState, AnyInstant
  <2> QED BY <2>1, LimitsAssumption DEF TailBounds, TypeOK
<1>4. DelayBounds'
  BY InstantsAreIntegers, LimitsAssumption DEF DelayBounds, TypeOK, Entry, AnyInstant
<1> QED BY <1>1, <1>2, <1>3, <1>4

\* What TypeOK says of the parts of an entry and of a flow.
LEMMA Parts ==
  ASSUME TypeOK
  PROVE  /\ \A e \in Held : /\ e.packet \in Packet /\ e.packet.bytes \in Nat
                            /\ e.deadline \in Int /\ e.due \in Int /\ e.since \in Int
                            /\ e.deadline \in Instant
                            /\ e.sequence \in Int
         /\ \A f \in DOMAIN flows :
              /\ flows[f].packets \in Int /\ flows[f].in_flight \in Int
              /\ flows[f].tail \in AnyInstant /\ flows[f].tail \in Int
              /\ flows[f].in_flight_tail \in AnyInstant /\ flows[f].in_flight_tail \in Int
<1>1. Instant \subseteq Int /\ 0 .. MaxSequence - 1 \subseteq Int /\ 0 .. Horizon \subseteq Int
  BY LimitsAssumption DEF Instant
<1>2. ASSUME NEW e \in Held
      PROVE  /\ e.packet \in Packet /\ e.packet.bytes \in Nat
             /\ e.deadline \in Int /\ e.due \in Int /\ e.since \in Int
             /\ e.deadline \in Instant /\ e.sequence \in Int
  <2>1. e \in Entry
    BY DEF TypeOK, Held
  <2> QED BY <1>1, <2>1, PacketAssumption DEF Entry
<1>3. ASSUME NEW f \in DOMAIN flows
      PROVE  /\ flows[f].packets \in Int /\ flows[f].in_flight \in Int
             /\ flows[f].tail \in AnyInstant /\ flows[f].tail \in Int
             /\ flows[f].in_flight_tail \in AnyInstant /\ flows[f].in_flight_tail \in Int
  <2>1. flows[f] \in [packets : Int, tail : AnyInstant,
                      in_flight : Int, in_flight_tail : AnyInstant]
    BY DEF TypeOK, FlowState, AnyInstant
  <2> QED BY <2>1, InstantsAreIntegers
<1> QED BY <1>2, <1>3

(***************************************************************************)
(* The fields of a flow's state after each method.                         *)
(***************************************************************************)
LEMMA QueuedFields ==
  ASSUME NEW s \in FlowState, NEW d \in Instant, NEW q, q = Queued(s, d)
  PROVE  /\ q \in FlowState
         /\ q.packets = s.packets + 1 /\ q.tail = d
         /\ q.in_flight = s.in_flight /\ q.in_flight_tail = s.in_flight_tail
<1>1. /\ q.packets = s.packets + 1 /\ q.tail = d
      /\ q.in_flight = s.in_flight /\ q.in_flight_tail = s.in_flight_tail
  BY DEF FlowState, Queued
<1>2. q = [packets |-> q.packets, tail |-> q.tail,
           in_flight |-> q.in_flight, in_flight_tail |-> q.in_flight_tail]
  BY DEF FlowState, Queued
<1> QED BY <1>1, <1>2 DEF FlowState

LEMMA PoppedFields ==
  ASSUME NEW s \in FlowState, NEW d \in Instant, NEW q, q = Popped(s, d)
  PROVE  /\ q \in FlowState
         /\ q.packets = s.packets /\ q.tail = s.tail
         /\ q.in_flight = s.in_flight + 1 /\ q.in_flight_tail = d
<1>1. /\ q.packets = s.packets /\ q.tail = s.tail
      /\ q.in_flight = s.in_flight + 1 /\ q.in_flight_tail = d
  BY DEF FlowState, Popped
<1>2. q = [packets |-> q.packets, tail |-> q.tail,
           in_flight |-> q.in_flight, in_flight_tail |-> q.in_flight_tail]
  BY DEF FlowState, Popped
<1> QED BY <1>1, <1>2 DEF FlowState

LEMMA FinishedFields ==
  ASSUME NEW s \in FlowState, NEW q, q = Finished(s)
  PROVE  /\ q \in FlowState
         /\ q.packets = s.packets - 1 /\ q.tail = s.tail
         /\ q.in_flight = s.in_flight - 1
         /\ q.in_flight_tail = IF s.in_flight = 1 THEN None ELSE s.in_flight_tail
<1>1. /\ q.packets = s.packets - 1 /\ q.tail = s.tail
      /\ q.in_flight = s.in_flight - 1
      /\ q.in_flight_tail = IF s.in_flight = 1 THEN None ELSE s.in_flight_tail
  BY DEF FlowState, Finished
<1>2. q = [packets |-> q.packets, tail |-> q.tail,
           in_flight |-> q.in_flight, in_flight_tail |-> q.in_flight_tail]
  BY DEF FlowState, Finished
<1> QED BY <1>1, <1>2 DEF FlowState

LEMMA PopOK == ASSUME IInv, NEW e \in heap, Pop(e) PROVE IInv'
<1> DEFINE f == e.packet.flow
<1> USE DEF IInv
<1>1. f \in DOMAIN flows /\ e \in Held /\ e \notin in_hand /\ e.deadline <= now
  BY DEF CountsExact, Held, Pop, Distinct
<1>2. Held' = Held /\ heap' = heap \ {e} /\ in_hand' = in_hand \cup {e}
  BY DEF Pop, Held
<1>3. UNCHANGED <<pids, usage, next_sequence, now>>
  BY DEF Pop
<1>4. /\ DOMAIN flows' = DOMAIN flows
      /\ flows'[f] \in FlowState
      /\ flows'[f].packets = flows[f].packets /\ flows'[f].tail = flows[f].tail
      /\ flows'[f].in_flight = flows[f].in_flight + 1
      /\ flows'[f].in_flight_tail = e.deadline
      /\ \A g \in DOMAIN flows : g # f => flows'[g] = flows[g]
  <2>1. flows' = [flows EXCEPT ![f] = Popped(flows[f], e.deadline)]
    BY DEF Pop
  <2>2. /\ DOMAIN flows' = DOMAIN flows
        /\ flows'[f] = Popped(flows[f], e.deadline)
        /\ \A g \in DOMAIN flows : g # f => flows'[g] = flows[g]
    <3> HIDE DEF f
    <3> QED BY <1>1, <2>1
  <2>3. flows[f] \in FlowState /\ e.deadline \in Instant
    BY <1>1, Parts DEF TypeOK
  <2> HIDE DEF f
  <2> QED BY <2>2, <2>3, PoppedFields
<1>5. TypeOK'
  BY <1>2, <1>3, <1>4 DEF TypeOK
<1>6. Finite'
  BY <1>2, FS_AddElement, FS_RemoveElement DEF Finite
<1>7. Distinct'
  BY <1>2, <1>3 DEF Distinct
<1>8. CountsExact'
  <2>1. usage.packets = Cardinality(heap') + Cardinality(in_hand')
    <3>1. Cardinality(heap') = Cardinality(heap) - 1
      BY <1>2, FS_RemoveElement DEF Finite
    <3>2. Cardinality(in_hand') = Cardinality(in_hand) + 1
      BY <1>1, <1>2, FS_AddElement DEF Finite
    <3>3. Cardinality(heap) \in Int /\ Cardinality(in_hand) \in Int
      BY FS_CardinalityType DEF Finite
    <3> QED BY <3>1, <3>2, <3>3 DEF CountsExact
  <2>2. ASSUME NEW g \in DOMAIN flows
        PROVE  flows'[g].in_flight = Cardinality({x \in in_hand' : x.packet.flow = g})
    <3> DEFINE H == {x \in in_hand : x.packet.flow = g}
    <3>1. IsFiniteSet(H) /\ Cardinality(H) = flows[g].in_flight
      BY FS_Subset DEF Finite, CountsExact
    <3>2. CASE g = f
      <4>1. {x \in in_hand' : x.packet.flow = g} = H \cup {e} /\ e \notin H
        BY <1>1, <1>2, <3>2
      <4>2. Cardinality(H \cup {e}) = Cardinality(H) + 1
        BY <3>1, <4>1, FS_AddElement
      <4>3. flows'[g].in_flight = flows[g].in_flight + 1
        BY <1>4, <3>2
      <4> QED BY <3>1, <4>1, <4>2, <4>3
    <3>3. CASE g # f
      <4>1. {x \in in_hand' : x.packet.flow = g} = H
        BY <1>1, <1>2, <3>3
      <4> QED BY <3>1, <3>3, <4>1, <1>4
    <3> QED BY <3>2, <3>3
  <2>3. \A g \in DOMAIN flows : flows'[g].packets = flows[g].packets
    BY <1>1, <1>4
  <2> QED BY <1>2, <1>3, <1>4, <2>1, <2>2, <2>3 DEF CountsExact
<1>9. \A b \in heap' : SameFlow(e, b) => e.sequence < b.sequence /\ e.deadline <= b.deadline
  <2> SUFFICES ASSUME NEW b \in heap, b # e, SameFlow(e, b)
               PROVE  e.sequence < b.sequence /\ e.deadline <= b.deadline
    BY <1>2
  <2>1. Before(e, b) /\ b \in Held
    BY DEF Pop, IsHead, Held
  <2>2. b.sequence # e.sequence
    BY <1>1, <2>1 DEF Distinct
  <2>3. b.sequence < e.sequence => b.deadline <= e.deadline
    BY DEF Order, SameFlow
  <2> QED BY <1>1, <2>1, <2>2, <2>3, Parts DEF Before
<1>10. Order'
  BY <1>2, <1>4, <1>9, <1>1 DEF Order, SameFlow, CountsExact, Held
<1>11. TailMembers'
  <2> SUFFICES ASSUME NEW g \in DOMAIN flows
               PROVE  /\ flows'[g].in_flight_tail <= flows'[g].tail
                      /\ \A x \in heap' : x.packet.flow = g => x.deadline <= flows'[g].tail
                      /\ \/ flows'[g].tail = flows'[g].in_flight_tail
                         \/ \E x \in heap' : x.packet.flow = g /\ x.deadline = flows'[g].tail
    BY <1>4 DEF TailMembers
  <2>1. flows'[g].tail = flows[g].tail
    BY <1>1, <1>4
  <2>2. \A x \in heap' : x.packet.flow = g => x.deadline <= flows'[g].tail
    BY <1>2, <2>1 DEF TailMembers
  <2>3. CASE g # f
    BY <1>2, <1>4, <2>1, <2>2, <2>3 DEF TailMembers
  <2>4. CASE g = f
    <3>1. flows'[g].in_flight_tail = e.deadline /\ e.deadline <= flows[g].tail
      BY <1>4, <2>4 DEF TailMembers
    <3>2. flows[g].in_flight_tail <= e.deadline
      BY <2>4 DEF Order
    <3>3. e.deadline \in Int /\ flows[g].tail \in Int /\ flows[g].in_flight_tail \in Int
      BY <1>1, Parts
    <3>4. flows[g].tail = e.deadline
            \/ \E x \in heap \ {e} : x.packet.flow = g /\ x.deadline = flows[g].tail
      BY <3>1, <3>2, <3>3 DEF TailMembers
    <3> QED BY <1>2, <2>1, <2>2, <3>1, <3>4
  <2> QED BY <2>3, <2>4
<1>12. TailBounds' /\ DelayBounds' /\ WithinLimits'
  BY <1>1, <1>2, <1>3, <1>4 DEF TailBounds, DelayBounds, WithinLimits
<1> QED BY <1>5, <1>6, <1>7, <1>8, <1>10, <1>11, <1>12

LEMMA EnqueueOK ==
  ASSUME IInv, NEW p \in Packet, NEW requested \in 0 .. now + MaxDelay, Enqueue(p, requested)
  PROVE  IInv'
<1> DEFINE f == p.flow
           k == p.pid
           d == QueuedDeadline(p, requested)
           new == [packet |-> p, deadline |-> d, sequence |-> next_sequence,
                   due |-> requested, since |-> now]
           OfFlow(S, g) == {x \in S : x.packet.flow = g}
           OfPid(S, j) == {x \in S : x.packet.pid = j}
<1> USE DEF IInv
<1>1. /\ now \in Nat /\ requested \in Nat /\ MaxDelay \in Nat /\ Horizon \in Nat
      /\ next_sequence \in Nat /\ MaxSequence \in Nat /\ p.bytes \in Nat
      /\ now <= Horizon /\ requested <= now + MaxDelay
  BY LimitsAssumption, PacketAssumption DEF TypeOK
<1>2. /\ FlowOf(f) \in FlowState
      /\ FlowOf(f).tail \in Int /\ FlowOf(f).tail <= now + MaxDelay
      /\ FlowOf(f).in_flight_tail \in Int /\ FlowOf(f).in_flight_tail <= FlowOf(f).tail
      /\ FlowOf(f).in_flight_tail <= now
      /\ \A x \in heap : x.packet.flow = f => x.deadline <= FlowOf(f).tail
  <2>1. CASE f \in DOMAIN flows
    BY <2>1, Parts DEF FlowOf, TypeOK, TailMembers, TailBounds
  <2>2. CASE f \notin DOMAIN flows
    <3>1. \A x \in heap : x.packet.flow # f
      BY <2>2 DEF CountsExact, Held
    <3> QED BY <1>1, <2>2, <3>1 DEF FlowOf, EmptyFlow, FlowState, None
  <2> QED BY <2>1, <2>2
<1>3. /\ d \in Instant /\ d \in Int
      /\ FlowOf(f).tail <= d /\ requested <= d /\ d <= now + MaxDelay
  BY <1>1, <1>2 DEF QueuedDeadline, Later, Instant
<1>4. /\ new \in Entry /\ new \notin Held /\ \A x \in Held : x.sequence < new.sequence
      /\ new.packet = p /\ new.deadline = d /\ new.sequence = next_sequence
      /\ new.due = requested /\ new.since = now
  <2>1. new \in Entry
    BY <1>1, <1>3 DEF Entry, Enqueue, Instant
  <2> QED BY <1>1, <2>1 DEF Distinct
<1>5. /\ heap' = heap \cup {new} /\ in_hand' = in_hand /\ Held' = Held \cup {new}
      /\ next_sequence' = next_sequence + 1 /\ next_sequence' \in 0 .. MaxSequence
      /\ now' = now
  BY <1>1 DEF Enqueue, Held
<1>6. /\ DOMAIN flows' = DOMAIN flows \cup {f}
      /\ flows'[f] \in FlowState
      /\ flows'[f].packets = FlowOf(f).packets + 1 /\ flows'[f].tail = d
      /\ flows'[f].in_flight = FlowOf(f).in_flight
      /\ flows'[f].in_flight_tail = FlowOf(f).in_flight_tail
      /\ \A g \in DOMAIN flows : g # f => flows'[g] = flows[g]
  <2>1. flows' = With(flows, f, Queued(FlowOf(f), d))
    BY DEF Enqueue
  <2>2. /\ DOMAIN flows' = DOMAIN flows \cup {f}
        /\ flows'[f] = Queued(FlowOf(f), d)
        /\ \A g \in DOMAIN flows : g # f => flows'[g] = flows[g]
    <3> HIDE DEF f, d
    <3> QED BY <2>1 DEF With
  <2> HIDE DEF f, d
  <2> QED BY <1>2, <1>3, <2>2, QueuedFields
<1>7. /\ UsageOf(k).packets \in Int /\ UsageOf(k).bytes \in Int
      /\ \A j \in DOMAIN pids : pids[j].packets \in Int /\ pids[j].bytes \in Int
      /\ usage.packets \in Int /\ usage.bytes \in Int
  BY DEF UsageOf, NoUsage, TypeOK, Usage
<1>8. /\ DOMAIN pids' = DOMAIN pids \cup {k}
      /\ pids'[k] = [packets |-> UsageOf(k).packets + 1, bytes |-> UsageOf(k).bytes + p.bytes]
      /\ \A j \in DOMAIN pids : j # k => pids'[j] = pids[j]
      /\ usage' = [packets |-> usage.packets + 1, bytes |-> usage.bytes + p.bytes]
  BY DEF Enqueue, With
<1>9. TypeOK'
  <2>1. f \in Flow /\ k \in Pid
    BY DEF Flow, Pid
  <2>2. \A j \in DOMAIN pids' : pids'[j] \in Usage
    BY <1>1, <1>7, <1>8 DEF TypeOK, Usage
  <2>3. \A g \in DOMAIN flows' : flows'[g] \in FlowState
    BY <1>6 DEF TypeOK
  <2>4. heap' \subseteq Entry /\ in_hand' \subseteq Entry /\ now' \in 0 .. Horizon
    BY <1>4, <1>5 DEF TypeOK
  <2>5. usage' \in Usage
    BY <1>1, <1>7, <1>8 DEF Usage
  <2> QED BY <1>5, <1>6, <1>8, <2>1, <2>2, <2>3, <2>4, <2>5 DEF TypeOK
<1>10. Finite'
  BY <1>5, FS_AddElement DEF Finite
<1>11. Distinct'
  BY <1>1, <1>4, <1>5, Parts DEF Distinct, Held
<1> HIDE DEF new
<1>12. CountsExact'
  <2>1. usage'.packets = Cardinality(heap') + Cardinality(in_hand')
    <3>1. Cardinality(heap') = Cardinality(heap) + 1
      BY <1>4, <1>5, FS_AddElement DEF Finite, Held
    <3>2. Cardinality(heap) \in Int /\ Cardinality(in_hand) \in Int
      BY FS_CardinalityType DEF Finite
    <3> QED BY <1>5, <1>8, <3>1, <3>2 DEF CountsExact
  <2>2. IsFiniteSet(Held)
    BY FS_Union DEF Finite, Held
  <2>3. /\ FlowOf(f).packets = Cardinality(OfFlow(Held, f))
        /\ FlowOf(f).in_flight = Cardinality(OfFlow(in_hand, f))
    <3>1. CASE f \in DOMAIN flows
      BY <3>1 DEF FlowOf, CountsExact
    <3>2. CASE f \notin DOMAIN flows
      <4>1. OfFlow(Held, f) = {} /\ OfFlow(in_hand, f) = {}
        BY <3>2 DEF CountsExact, Held
      <4>2. FlowOf(f).packets = 0 /\ FlowOf(f).in_flight = 0
        BY <3>2 DEF FlowOf, EmptyFlow
      <4> QED BY <4>1, <4>2, FS_EmptySet
    <3> QED BY <3>1, <3>2
  <2>4. UsageOf(k).packets = Cardinality(OfPid(Held, k))
    <3>1. CASE k \in DOMAIN pids
      BY <3>1 DEF UsageOf, CountsExact
    <3>2. CASE k \notin DOMAIN pids
      <4>1. OfPid(Held, k) = {}
        BY <3>2 DEF CountsExact, Held
      <4> QED BY <3>2, <4>1, FS_EmptySet DEF UsageOf, NoUsage
    <3> QED BY <3>1, <3>2
  <2>5. ASSUME NEW g \in DOMAIN flows'
        PROVE  /\ flows'[g].packets = Cardinality(OfFlow(Held', g))
               /\ flows'[g].in_flight = Cardinality(OfFlow(in_hand', g))
    <3>1. CASE g # f
      <4>1. OfFlow(Held', g) = OfFlow(Held, g)
        BY <1>4, <1>5, <3>1
      <4> QED BY <1>5, <1>6, <3>1, <4>1 DEF CountsExact
    <3>2. CASE g = f
      <4>1. OfFlow(Held', g) = OfFlow(Held, f) \cup {new} /\ new \notin OfFlow(Held, f)
        BY <1>4, <1>5, <3>2
      <4>2. IsFiniteSet(OfFlow(Held, f))
        BY <2>2, FS_Subset
      <4>3. Cardinality(OfFlow(Held, f) \cup {new}) = Cardinality(OfFlow(Held, f)) + 1
        BY <4>1, <4>2, FS_AddElement
      <4> HIDE DEF f
      <4> QED BY <1>5, <1>6, <2>3, <3>2, <4>1, <4>3
    <3> QED BY <3>1, <3>2
  <2>6. ASSUME NEW j \in DOMAIN pids'
        PROVE  pids'[j].packets = Cardinality(OfPid(Held', j))
    <3>1. CASE j # k
      <4>1. OfPid(Held', j) = OfPid(Held, j)
        BY <1>4, <1>5, <3>1
      <4> QED BY <1>8, <3>1, <4>1 DEF CountsExact
    <3>2. CASE j = k
      <4>1. OfPid(Held', j) = OfPid(Held, k) \cup {new} /\ new \notin OfPid(Held, k)
        BY <1>4, <1>5, <3>2
      <4>2. IsFiniteSet(OfPid(Held, k))
        BY <2>2, FS_Subset
      <4>3. Cardinality(OfPid(Held, k) \cup {new}) = Cardinality(OfPid(Held, k)) + 1
        BY <4>1, <4>2, FS_AddElement
      <4>4. pids'[j].packets = UsageOf(k).packets + 1
        BY <1>8, <3>2
      <4> HIDE DEF k, OfPid
      <4> QED BY <2>4, <3>2, <4>1, <4>3, <4>4
    <3> QED BY <3>1, <3>2
  <2>7. /\ DOMAIN flows' = {x.packet.flow : x \in Held'}
        /\ DOMAIN pids' = {x.packet.pid : x \in Held'}
    BY <1>4, <1>5, <1>6, <1>8 DEF CountsExact
  <2> QED BY <2>1, <2>5, <2>6, <2>7 DEF CountsExact
<1>13. Order'
  <2>1. \A a, b \in heap' : SameFlow(a, b) /\ a.sequence < b.sequence => a.deadline <= b.deadline
    <3> SUFFICES ASSUME NEW a \in heap', NEW b \in heap', SameFlow(a, b), a.sequence < b.sequence
                 PROVE  a.deadline <= b.deadline
      OBVIOUS
    <3>1. a # new
      BY <1>1, <1>4, <1>5, Parts DEF Held
    <3>2. CASE b = new
      <4>1. a \in heap /\ a.packet.flow = f
        BY <1>4, <1>5, <3>1, <3>2 DEF SameFlow
      <4> QED BY <1>2, <1>3, <1>4, <3>2, <4>1, Parts DEF Held
    <3>3. CASE b # new
      BY <1>5, <3>1, <3>3 DEF Order
    <3> QED BY <3>2, <3>3
  <2>2. \A a \in in_hand', b \in heap' : SameFlow(a, b) => a.sequence < b.sequence
    BY <1>4, <1>5 DEF Order, Held
  <2>3. \A b \in heap' : flows'[b.packet.flow].in_flight_tail <= b.deadline
    <3> SUFFICES ASSUME NEW b \in heap'
                 PROVE  flows'[b.packet.flow].in_flight_tail <= b.deadline
      OBVIOUS
    <3>1. CASE b = new
      BY <1>2, <1>3, <1>4, <1>6, <3>1
    <3>2. CASE b # new
      <4>1. b \in heap /\ b.packet.flow \in DOMAIN flows
        BY <1>5, <3>2 DEF CountsExact, Held
      <4>2. flows'[b.packet.flow].in_flight_tail = flows[b.packet.flow].in_flight_tail
        BY <1>6, <4>1 DEF FlowOf
      <4> QED BY <4>1, <4>2 DEF Order
    <3> QED BY <3>1, <3>2
  <2> QED BY <2>1, <2>2, <2>3 DEF Order
<1>14. TailMembers'
  <2> SUFFICES ASSUME NEW g \in DOMAIN flows'
               PROVE  /\ flows'[g].in_flight_tail <= flows'[g].tail
                      /\ \A x \in heap' : x.packet.flow = g => x.deadline <= flows'[g].tail
                      /\ \/ flows'[g].tail = flows'[g].in_flight_tail
                         \/ \E x \in heap' : x.packet.flow = g /\ x.deadline = flows'[g].tail
    BY DEF TailMembers
  <2>1. CASE g # f
    BY <1>4, <1>5, <1>6, <2>1 DEF TailMembers
  <2>2. CASE g = f
    <3>1. \A x \in heap : x.packet.flow = f => x.deadline <= d
      BY <1>2, <1>3, Parts DEF Held
    <3>2. FlowOf(f).in_flight_tail <= d
      BY <1>2, <1>3
    <3>3. flows'[g].tail = d /\ flows'[g].in_flight_tail = FlowOf(f).in_flight_tail
      BY <1>6, <2>2
    <3>4. new \in heap' /\ new.packet.flow = g /\ new.deadline = d
      BY <1>4, <1>5, <2>2
    <3>5. \A x \in heap' : x.packet.flow = g => x.deadline <= d
      <4> HIDE DEF f, d
      <4> QED BY <1>3, <1>5, <2>2, <3>1, <3>4
    <3> HIDE DEF f, d
    <3> QED BY <3>2, <3>3, <3>4, <3>5
  <2> QED BY <2>1, <2>2
<1>15. TailBounds'
  BY <1>2, <1>3, <1>5, <1>6 DEF TailBounds
<1>16. DelayBounds'
  BY <1>1, <1>3, <1>4, <1>5 DEF DelayBounds
<1>17. WithinLimits'
  <2>1. /\ usage.packets + 1 <= MaxPackets /\ usage.bytes + p.bytes <= MaxBytes
        /\ UsageOf(k).packets + 1 <= MaxPidPackets /\ UsageOf(k).bytes + p.bytes <= MaxPidBytes
    <3>1. Admits(p)
      BY DEF Enqueue
    <3>2. /\ usage.bytes <= MaxBytes
          /\ UsageOf(k).bytes <= MaxPidBytes
      BY LimitsAssumption DEF WithinLimits, UsageOf, NoUsage
    <3> QED BY <1>1, <1>7, <3>1, <3>2, LimitsAssumption DEF Admits, Room
  <2> QED BY <1>8, <2>1 DEF WithinLimits
<1> QED BY <1>9, <1>10, <1>11, <1>12, <1>13, <1>14, <1>15, <1>16, <1>17

LEMMA FinishOK == ASSUME IInv, NEW e \in in_hand, Finish(e) PROVE IInv'
<1> DEFINE f == e.packet.flow
           k == e.packet.pid
           OfFlow(S, g) == {x \in S : x.packet.flow = g}
           OfPid(S, j) == {x \in S : x.packet.pid = j}
<1> USE DEF IInv
<1>1. /\ e \in Held /\ e \notin heap /\ f \in DOMAIN flows /\ k \in DOMAIN pids
      /\ e.packet.bytes \in Nat
  BY Parts DEF Held, Distinct, CountsExact
<1>2. /\ heap' = heap /\ in_hand' = in_hand \ {e} /\ Held' = Held \ {e}
      /\ next_sequence' = next_sequence /\ now' = now
  BY <1>1 DEF Finish, Held
<1>3. /\ IsFiniteSet(Held) /\ IsFiniteSet(OfFlow(Held, f))
      /\ IsFiniteSet(OfFlow(in_hand, f)) /\ IsFiniteSet(OfPid(Held, k))
  BY FS_Union, FS_Subset DEF Finite, Held
<1>4. /\ OfFlow(Held', f) = OfFlow(Held, f) \ {e} /\ e \in OfFlow(Held, f)
      /\ OfFlow(in_hand', f) = OfFlow(in_hand, f) \ {e} /\ e \in OfFlow(in_hand, f)
      /\ OfPid(Held', k) = OfPid(Held, k) \ {e} /\ e \in OfPid(Held, k)
  BY <1>1, <1>2
<1>5. /\ Cardinality(OfFlow(Held', f)) = Cardinality(OfFlow(Held, f)) - 1
      /\ Cardinality(OfFlow(in_hand', f)) = Cardinality(OfFlow(in_hand, f)) - 1
      /\ Cardinality(OfPid(Held', k)) = Cardinality(OfPid(Held, k)) - 1
      /\ IsFiniteSet(OfFlow(Held', f)) /\ IsFiniteSet(OfFlow(in_hand', f))
      /\ IsFiniteSet(OfPid(Held', k))
  <2> HIDE DEF OfFlow, OfPid, f, k
  <2> QED BY <1>3, <1>4, FS_RemoveElement
<1>6. /\ flows[f].packets = Cardinality(OfFlow(Held, f))
      /\ flows[f].in_flight = Cardinality(OfFlow(in_hand, f))
      /\ pids[k].packets = Cardinality(OfPid(Held, k))
  BY <1>1 DEF CountsExact
<1> DEFINE flow == Finished(flows[f])
           left == [packets |-> pids[k].packets - 1, bytes |-> pids[k].bytes - e.packet.bytes]
<1>7. /\ flow \in FlowState
      /\ flow.packets = Cardinality(OfFlow(Held', f)) /\ flow.tail = flows[f].tail
      /\ flow.in_flight = Cardinality(OfFlow(in_hand', f))
      /\ flow.in_flight_tail \in {None, flows[f].in_flight_tail}
      /\ flow.in_flight_tail # flows[f].in_flight_tail => OfFlow(in_hand', f) = {}
  <2>1. flows[f] \in FlowState
    BY <1>1 DEF TypeOK
  <2>2. /\ flow \in FlowState
        /\ flow.packets = flows[f].packets - 1 /\ flow.tail = flows[f].tail
        /\ flow.in_flight = flows[f].in_flight - 1
        /\ flow.in_flight_tail = IF flows[f].in_flight = 1 THEN None
                                                           ELSE flows[f].in_flight_tail
    <3> HIDE DEF f
    <3> QED BY <2>1, FinishedFields
  <2>3. flows[f].in_flight = 1 => Cardinality(OfFlow(in_hand', f)) = 0
    BY <1>5, <1>6
  <2>4. Cardinality(OfFlow(in_hand', f)) = 0 => OfFlow(in_hand', f) = {}
    <3> HIDE DEF OfFlow
    <3> QED BY <1>5, FS_EmptySet
  <2> HIDE DEF flow, OfFlow
  <2> QED BY <1>5, <1>6, <2>2, <2>3, <2>4
<1>8. /\ flow.packets = 0 <=> OfFlow(Held', f) = {}
      /\ left.packets = 0 <=> OfPid(Held', k) = {}
      /\ left.packets = Cardinality(OfPid(Held', k))
  <2>1. left.packets = Cardinality(OfPid(Held', k))
    BY <1>5, <1>6
  <2> HIDE DEF flow, left, OfFlow, OfPid
  <2> QED BY <1>5, <1>7, <2>1, FS_EmptySet
<1>9. /\ DOMAIN flows' = {g \in DOMAIN flows : g # f \/ OfFlow(Held', f) # {}}
      /\ \A g \in DOMAIN flows' : flows'[g] = IF g = f THEN flow ELSE flows[g]
  <2>1. flows' = IF flow.packets = 0 THEN Without(flows, f) ELSE With(flows, f, flow)
    BY DEF Finish
  <2> HIDE DEF flow, OfFlow, f
  <2> QED BY <1>1, <1>8, <2>1 DEF With, Without
<1>10. /\ DOMAIN pids' = {j \in DOMAIN pids : j # k \/ OfPid(Held', k) # {}}
       /\ \A j \in DOMAIN pids' : pids'[j] = IF j = k THEN left ELSE pids[j]
  <2>1. pids' = IF left.packets = 0 THEN Without(pids, k) ELSE With(pids, k, left)
    BY DEF Finish
  <2> HIDE DEF left, OfPid, k
  <2> QED BY <1>1, <1>8, <2>1 DEF With, Without
<1>11. usage' = [packets |-> usage.packets - 1, bytes |-> usage.bytes - e.packet.bytes]
  BY DEF Finish
<1>12. TypeOK'
  <2>1. pids[k] \in Usage /\ usage \in Usage
    BY <1>1 DEF TypeOK
  <2>2. left \in Usage /\ usage' \in Usage
    BY <1>1, <1>11, <2>1 DEF Usage
  <2> HIDE DEF flow, left
  <2> QED BY <1>2, <1>7, <1>9, <1>10, <2>2 DEF TypeOK
<1>13. Finite' /\ Distinct'
  <2>1. Finite'
    BY <1>2, FS_RemoveElement DEF Finite
  <2> QED BY <1>2, <2>1 DEF Distinct
<1>14. CountsExact'
  <2>1. usage'.packets = Cardinality(heap') + Cardinality(in_hand')
    <3>1. Cardinality(in_hand') = Cardinality(in_hand) - 1
      BY <1>2, FS_RemoveElement DEF Finite
    <3>2. Cardinality(heap) \in Int /\ Cardinality(in_hand) \in Int
      BY FS_CardinalityType DEF Finite
    <3> QED BY <1>2, <1>11, <3>1, <3>2 DEF CountsExact
  <2>2. ASSUME NEW g \in DOMAIN flows'
        PROVE  /\ flows'[g].packets = Cardinality(OfFlow(Held', g))
               /\ flows'[g].in_flight = Cardinality(OfFlow(in_hand', g))
    <3>1. CASE g # f
      <4>1. OfFlow(Held', g) = OfFlow(Held, g) /\ OfFlow(in_hand', g) = OfFlow(in_hand, g)
        BY <1>2, <3>1
      <4> QED BY <1>9, <3>1, <4>1 DEF CountsExact
    <3>2. CASE g = f
      <4> HIDE DEF flow, OfFlow, f
      <4> QED BY <1>7, <1>9, <3>2
    <3> QED BY <3>1, <3>2
  <2>3. ASSUME NEW j \in DOMAIN pids'
        PROVE  pids'[j].packets = Cardinality(OfPid(Held', j))
    <3>1. CASE j # k
      <4>1. OfPid(Held', j) = OfPid(Held, j)
        BY <1>2, <3>1
      <4> QED BY <1>10, <3>1, <4>1 DEF CountsExact
    <3>2. CASE j = k
      <4> HIDE DEF left, OfPid, k
      <4> QED BY <1>8, <1>10, <3>2
    <3> QED BY <3>1, <3>2
  <2>4. DOMAIN flows' = {x.packet.flow : x \in Held'}
    BY <1>2, <1>9 DEF CountsExact
  <2>5. DOMAIN pids' = {x.packet.pid : x \in Held'}
    BY <1>2, <1>10 DEF CountsExact
  <2> QED BY <2>1, <2>2, <2>3, <2>4, <2>5 DEF CountsExact
<1>15. Order'
  <2>1. ASSUME NEW b \in heap'
        PROVE  flows'[b.packet.flow].in_flight_tail <= b.deadline
    <3>1. b \in heap /\ b \in Held' /\ b.deadline \in Nat
      BY <1>1, <1>2, Parts, LimitsAssumption DEF Held, Instant
    <3>2. b.packet.flow \in DOMAIN flows'
      BY <1>14, <3>1 DEF CountsExact
    <3>3. flows[b.packet.flow].in_flight_tail <= b.deadline
      BY <3>1 DEF Order
    <3>4. \/ flows'[b.packet.flow].in_flight_tail = None
          \/ flows'[b.packet.flow].in_flight_tail = flows[b.packet.flow].in_flight_tail
      <4> HIDE DEF flow
      <4> QED BY <1>7, <1>9, <3>2
    <3> QED BY <3>1, <3>3, <3>4 DEF None
  <2> QED BY <1>2, <2>1 DEF Order
<1>16. TailMembers'
  <2> SUFFICES ASSUME NEW g \in DOMAIN flows'
               PROVE  /\ flows'[g].in_flight_tail <= flows'[g].tail
                      /\ \A x \in heap' : x.packet.flow = g => x.deadline <= flows'[g].tail
                      /\ \/ flows'[g].tail = flows'[g].in_flight_tail
                         \/ \E x \in heap' : x.packet.flow = g /\ x.deadline = flows'[g].tail
    BY DEF TailMembers
  <2>1. CASE g # f
    BY <1>2, <1>9, <2>1 DEF TailMembers
  <2>2. CASE g = f
    <3>1. /\ flows'[g].tail = flows[f].tail
          /\ flows'[g].in_flight_tail \in {None, flows[f].in_flight_tail}
          /\ flows'[g].in_flight_tail # flows[f].in_flight_tail => OfFlow(in_hand', f) = {}
      <4> HIDE DEF flow, OfFlow, f
      <4> QED BY <1>7, <1>9, <2>2
    <3>2. flows[f].tail \in AnyInstant /\ flows[f].in_flight_tail <= flows[f].tail
      BY <1>1, Parts DEF TailMembers
    <3>3. flows'[g].in_flight_tail <= flows'[g].tail
      BY <3>1, <3>2, InstantsAreIntegers DEF None
    <3>4. \A x \in heap' : x.packet.flow = g => x.deadline <= flows'[g].tail
      BY <1>1, <1>2, <2>2, <3>1 DEF TailMembers
    <3>5. CASE flows'[g].in_flight_tail = flows[f].in_flight_tail
      BY <1>1, <1>2, <2>2, <3>1, <3>3, <3>4, <3>5 DEF TailMembers
    <3>6. CASE flows'[g].in_flight_tail # flows[f].in_flight_tail
      <4>1. OfFlow(in_hand', f) = {} /\ OfFlow(Held', f) # {}
        BY <1>9, <2>2, <3>1, <3>6
      <4>2. PICK x \in heap : x.packet.flow = f
        BY <1>1, <1>2, <4>1 DEF Held
      <4>3. flows[f].in_flight_tail <= x.deadline /\ x.deadline <= flows[f].tail
        BY <1>1, <4>2 DEF Order, TailMembers
      <4>4. \E y \in heap : y.packet.flow = f /\ y.deadline = flows[f].tail
        BY <1>1, <4>2, <4>3, Parts DEF TailMembers, Held
      <4> QED BY <1>2, <2>2, <3>1, <3>3, <3>4, <4>4
    <3> QED BY <3>5, <3>6
  <2> QED BY <2>1, <2>2
<1>17. TailBounds'
  <2> SUFFICES ASSUME NEW g \in DOMAIN flows'
               PROVE  flows'[g].in_flight_tail <= now /\ flows'[g].tail <= now + MaxDelay
    BY <1>2 DEF TailBounds
  <2>1. /\ flows'[g].tail = flows[g].tail
        /\ flows'[g].in_flight_tail \in {None, flows[g].in_flight_tail}
    <3> HIDE DEF flow
    <3> QED BY <1>7, <1>9
  <2> QED BY <1>9, <2>1 DEF TailBounds, None, TypeOK
<1>18. DelayBounds'
  BY <1>2 DEF DelayBounds
<1>19. WithinLimits'
  <2>1. /\ usage.packets \in Int /\ usage.bytes \in Int
        /\ \A j \in DOMAIN pids : pids[j].packets \in Int /\ pids[j].bytes \in Int
    BY DEF TypeOK, Usage
  <2>2. /\ usage'.packets <= MaxPackets /\ usage'.bytes <= MaxBytes
        /\ left.packets <= MaxPidPackets /\ left.bytes <= MaxPidBytes
    BY <1>1, <1>11, <2>1, LimitsAssumption DEF WithinLimits
  <2> HIDE DEF left
  <2> QED BY <1>10, <2>2 DEF WithinLimits
<1> QED BY <1>12, <1>13, <1>14, <1>15, <1>16, <1>17, <1>18, <1>19

LEMMA RetailedFields ==
  ASSUME NEW s \in FlowState, NEW d \in AnyInstant, NEW q, q = [s EXCEPT !.tail = d]
  PROVE  /\ q \in FlowState
         /\ q.packets = s.packets /\ q.tail = d
         /\ q.in_flight = s.in_flight /\ q.in_flight_tail = s.in_flight_tail
BY DEF FlowState, AnyInstant

LEMMA ReleaseFacts ==
  ASSUME IInv, NEW matched
  PROVE  /\ now \in Instant /\ now \in Int
         /\ \A e \in heap :
              LET r == Released(e, matched)
              IN  /\ r \in Entry /\ r.deadline = Rebuilt(e, matched)
                  /\ r.packet = e.packet /\ r.sequence = e.sequence /\ r.since = e.since
                  /\ r.due = IF e.packet \in matched /\ now < e.due THEN now ELSE e.due
         /\ \A e \in heap :
              /\ Rebuilt(e, matched) \in Int
              /\ Stamp(e, matched) <= Rebuilt(e, matched)
              /\ flows[e.packet.flow].in_flight_tail <= Rebuilt(e, matched)
              /\ \A x \in UpTo(e) : Stamp(x, matched) <= Rebuilt(e, matched)
              /\ \/ Rebuilt(e, matched) = flows[e.packet.flow].in_flight_tail
                 \/ \E x \in UpTo(e) : Rebuilt(e, matched) = Stamp(x, matched)
<1> USE DEF IInv
<1>1. now \in Instant /\ now \in Int
  BY LimitsAssumption DEF TypeOK, Instant
<1>2. \A e \in heap : /\ Stamp(e, matched) \in Instant
                      /\ e \in UpTo(e) /\ UpTo(e) \subseteq heap
                      /\ e.packet.flow \in DOMAIN flows
  BY <1>1, Parts DEF Stamp, UpTo, Held, SameFlow, CountsExact
<1>3. ASSUME NEW e \in heap
      PROVE  /\ Rebuilt(e, matched) \in Instant
             /\ Stamp(e, matched) <= Rebuilt(e, matched)
             /\ flows[e.packet.flow].in_flight_tail <= Rebuilt(e, matched)
             /\ \A x \in UpTo(e) : Stamp(x, matched) <= Rebuilt(e, matched)
             /\ \/ Rebuilt(e, matched) = flows[e.packet.flow].in_flight_tail
                \/ \E x \in UpTo(e) : Rebuilt(e, matched) = Stamp(x, matched)
  <2> DEFINE R == {flows[e.packet.flow].in_flight_tail} \cup {Stamp(x, matched) : x \in UpTo(e)}
  <2>1. R \subseteq AnyInstant /\ R # {} /\ Stamp(e, matched) \in R
    BY <1>2, Parts DEF AnyInstant
  <2>2. Max(R) \in R /\ \A x \in R : x <= Max(R)
    <3> HIDE DEF R
    <3> QED BY <2>1, MaxIsLatest
  <2>3. Rebuilt(e, matched) = Max(R)
    BY DEF Rebuilt
  <2>4. Max(R) \in Instant
    <3>1. Max(R) \in AnyInstant /\ Stamp(e, matched) <= Max(R)
      BY <2>1, <2>2, Zenon
    <3>2. \A x \in Instant : ~(x <= None)
      BY LimitsAssumption DEF Instant, None
    <3>3. Stamp(e, matched) \in Instant
      BY <1>2
    <3> QED BY <3>1, <3>2, <3>3, Zenon DEF AnyInstant
  <2>5. flows[e.packet.flow].in_flight_tail \in R /\ \A x \in UpTo(e) : Stamp(x, matched) \in R
    OBVIOUS
  <2>6. \/ Max(R) = flows[e.packet.flow].in_flight_tail
        \/ \E x \in UpTo(e) : Max(R) = Stamp(x, matched)
    BY <2>2, Zenon
  <2> HIDE DEF R
  <2> QED BY <1>2, <2>1, <2>2, <2>3, <2>4, <2>5, <2>6, Zenon
<1>4. ASSUME NEW e \in heap, NEW r, r = Released(e, matched)
      PROVE  /\ r \in Entry /\ r.deadline = Rebuilt(e, matched)
             /\ r.packet = e.packet /\ r.sequence = e.sequence /\ r.since = e.since
             /\ r.due = IF e.packet \in matched /\ now < e.due THEN now ELSE e.due
  <2> DEFINE d == Rebuilt(e, matched)
             u == IF e.packet \in matched /\ now < e.due THEN now ELSE e.due
  <2>1. e \in Entry /\ d \in Instant /\ u \in Instant
    BY <1>1, <1>3 DEF TypeOK, Entry
  <2>2. r = [e EXCEPT !.deadline = d, !.due = u]
    BY <1>4 DEF Released
  <2> HIDE DEF d, u
  <2>3. /\ r.deadline = d /\ r.due = u
        /\ r.packet = e.packet /\ r.sequence = e.sequence /\ r.since = e.since
    BY <2>1, <2>2 DEF Entry
  <2>4. /\ e.packet \in Packet /\ e.sequence \in 0 .. MaxSequence - 1 /\ e.since \in 0 .. Horizon
        /\ e = [packet |-> e.packet, deadline |-> e.deadline, sequence |-> e.sequence,
                due |-> e.due, since |-> e.since]
    BY <2>1 DEF Entry
  <2>5. r = [packet |-> e.packet, deadline |-> d, sequence |-> e.sequence,
             due |-> u, since |-> e.since]
    BY <2>2, <2>4, Zenon
  <2>6. r \in Entry
    BY <2>1, <2>4, <2>5 DEF Entry
  <2>7. r.deadline = Rebuilt(e, matched) /\ r.due = u
    BY <2>3 DEF d
  <2> QED BY <2>3, <2>6, <2>7 DEF u
<1>5. Instant \subseteq Int
  BY LimitsAssumption DEF Instant
<1> QED BY <1>1, <1>3, <1>4, <1>5

\* The tail rebuilt for a flow is the latest of the deadlines rebuilt for its entries.
LEMMA RebuiltTailFacts ==
  ASSUME IInv, NEW matched, NEW f \in DOMAIN flows
  PROVE  /\ RebuiltTail(f, matched) \in AnyInstant
         /\ flows[f].in_flight_tail <= RebuiltTail(f, matched)
         /\ \A e \in heap : e.packet.flow = f => Rebuilt(e, matched) <= RebuiltTail(f, matched)
         /\ \/ RebuiltTail(f, matched) = flows[f].in_flight_tail
            \/ \E e \in heap : /\ e.packet.flow = f
                               /\ Rebuilt(e, matched) = RebuiltTail(f, matched)
         /\ RebuiltTail(f, matched) <= now + MaxDelay
<1> USE DEF IInv
<1> DEFINE E == {y \in heap : y.packet.flow = f}
           R == {flows[f].in_flight_tail} \cup {Stamp(x, matched) : x \in E}
           d == RebuiltTail(f, matched)
<1>1. flows[f].in_flight_tail \in AnyInstant
  BY Parts
<1>2. \A e \in heap : Stamp(e, matched) \in Instant
  BY ReleaseFacts, Parts DEF Stamp, Held
<1>3. R \subseteq AnyInstant /\ R # {}
  BY <1>1, <1>2 DEF AnyInstant
<1>4. d \in R /\ \A x \in R : x <= d
  <2>1. d = Max(R)
    BY DEF RebuiltTail
  <2> HIDE DEF R, d
  <2> QED BY <1>3, <2>1, MaxIsLatest
<1>5. d \in AnyInstant /\ flows[f].in_flight_tail <= d
  <2> HIDE DEF d
  <2> QED BY <1>3, <1>4
<1>6. \A e \in E : Stamp(e, matched) <= d
  <2> HIDE DEF d
  <2> QED BY <1>4
<1>7. ASSUME NEW e \in E PROVE Rebuilt(e, matched) <= d
  <2>1. UpTo(e) \subseteq E
    BY DEF UpTo, SameFlow
  <2>2. CASE Rebuilt(e, matched) = flows[f].in_flight_tail
    <3> HIDE DEF d
    <3> QED BY <1>5, <2>2
  <2>3. CASE \E x \in UpTo(e) : Rebuilt(e, matched) = Stamp(x, matched)
    <3> HIDE DEF d, E
    <3> QED BY <1>6, <2>1, <2>3
  <2> QED BY <2>2, <2>3, ReleaseFacts, Zenon
<1>8. d = flows[f].in_flight_tail \/ \E e \in E : d = Stamp(e, matched)
  <2> HIDE DEF d
  <2> QED BY <1>4
<1>9. ASSUME NEW e \in E, d = Stamp(e, matched)
      PROVE  Rebuilt(e, matched) = d /\ d <= now + MaxDelay
  <2>1. Rebuilt(e, matched) = d
    <3>1. d <= Rebuilt(e, matched) /\ Rebuilt(e, matched) \in Int
      BY <1>9, ReleaseFacts, Zenon DEF E
    <3>2. Rebuilt(e, matched) <= d /\ d \in Int
      BY <1>5, <1>7, InstantsAreIntegers
    <3> HIDE DEF d
    <3> QED BY <3>1, <3>2
  <2>2. CASE e.packet \in matched
    <3>1. d = now /\ now \in Nat
      BY <1>9, <2>2 DEF Stamp, TypeOK
    <3> HIDE DEF d
    <3> QED BY <2>1, <3>1, LimitsAssumption
  <2>3. CASE e.packet \notin matched
    <3>1. d = e.deadline /\ e \in heap /\ e.packet.flow = f
      BY <1>9, <2>3 DEF Stamp
    <3>2. e.deadline <= flows[f].tail /\ flows[f].tail <= now + MaxDelay
      BY <3>1 DEF TailMembers, TailBounds
    <3>3. e.deadline \in Int /\ flows[f].tail \in Int /\ now \in Int
      BY <3>1, Parts, ReleaseFacts, InstantsAreIntegers DEF AnyInstant, Held
    <3> HIDE DEF d
    <3> QED BY <2>1, <3>1, <3>2, <3>3, LimitsAssumption
  <2> QED BY <2>2, <2>3, <2>1
<1>10. flows[f].in_flight_tail <= now + MaxDelay
  BY <1>1, ReleaseFacts, InstantsAreIntegers, LimitsAssumption DEF TailBounds
<1> HIDE DEF d
<1>11. d <= now + MaxDelay
  BY <1>8, <1>9, <1>10
<1>12. d = flows[f].in_flight_tail
       \/ \E e \in heap : e.packet.flow = f /\ Rebuilt(e, matched) = d
  BY <1>8, <1>9
<1> QED BY <1>5, <1>7, <1>11, <1>12 DEF d

LEMMA ReleaseOK == ASSUME IInv, NEW matched, ReleaseMatching(matched) PROVE IInv'
<1> USE DEF IInv
<1> DEFINE rel(e) == Released(e, matched)
           OfFlow(S, f) == {e \in S : e.packet.flow = f}
           OfPid(S, k) == {e \in S : e.packet.pid = k}
<1>1. /\ heap' = {rel(e) : e \in heap}
      /\ in_hand' = in_hand /\ pids' = pids /\ usage' = usage
      /\ next_sequence' = next_sequence /\ now' = now
  BY DEF ReleaseMatching
<1>2. \A e \in heap :
        /\ rel(e) \in Entry /\ rel(e).deadline = Rebuilt(e, matched)
        /\ rel(e).packet = e.packet /\ rel(e).sequence = e.sequence /\ rel(e).since = e.since
        /\ rel(e).due = IF e.packet \in matched /\ now < e.due THEN now ELSE e.due
  BY ReleaseFacts, Zenon
<1>3. \A e \in heap :
        /\ e \in Held /\ e.packet.flow \in DOMAIN flows
        /\ e.deadline \in Int /\ e.due \in Int /\ e.since \in Int /\ e.sequence \in Int
        /\ Rebuilt(e, matched) \in Int
  BY Parts, ReleaseFacts, Zenon DEF Held, CountsExact
<1>4. /\ DOMAIN flows' = DOMAIN flows
      /\ \A f \in DOMAIN flows :
           /\ flows'[f] \in FlowState /\ flows'[f].tail = RebuiltTail(f, matched)
           /\ flows'[f].packets = flows[f].packets /\ flows'[f].in_flight = flows[f].in_flight
           /\ flows'[f].in_flight_tail = flows[f].in_flight_tail
  <2>1. DOMAIN flows' = DOMAIN flows
    BY DEF ReleaseMatching
  <2>2. ASSUME NEW f \in DOMAIN flows, NEW q, q = flows'[f]
        PROVE  /\ q \in FlowState /\ q.tail = RebuiltTail(f, matched)
               /\ q.packets = flows[f].packets /\ q.in_flight = flows[f].in_flight
               /\ q.in_flight_tail = flows[f].in_flight_tail
    <3>1. q = [flows[f] EXCEPT !.tail = RebuiltTail(f, matched)]
      BY <2>2 DEF ReleaseMatching
    <3>2. RebuiltTail(f, matched) \in AnyInstant
      BY RebuiltTailFacts
    <3>3. flows[f] \in FlowState
      BY DEF TypeOK
    <3> QED BY <3>1, <3>2, <3>3, RetailedFields
  <2> QED BY <2>1, <2>2
<1> HIDE DEF rel
<1>5. TypeOK'
  BY <1>1, <1>2, <1>4 DEF TypeOK
<1>6. Held' = heap' \cup in_hand
  BY <1>1 DEF Held
<1>7. /\ \A e \in Held' : \/ e \in in_hand
                          \/ \E x \in heap : e = rel(x)
      /\ \A e \in heap : rel(e) \in Held' /\ rel(e) \in heap'
  BY <1>1, <1>6
<1>8. Distinct'
  <2>1. \A e \in Held' : \E x \in Held : /\ e.sequence = x.sequence
                                         /\ x \in heap => e = rel(x)
                                         /\ x \in in_hand => e = x
    BY <1>2, <1>3, <1>7 DEF Held, Distinct
  <2>2. \A e \in Held' : e.sequence < next_sequence'
    BY <1>1, <2>1 DEF Distinct
  <2>3. \A a, b \in Held' : a.sequence = b.sequence => a = b
    <3> TAKE a, b \in Held'
    <3> HAVE a.sequence = b.sequence
    <3>1. PICK x \in Held : /\ a.sequence = x.sequence
                            /\ x \in heap => a = rel(x)
                            /\ x \in in_hand => a = x
      BY <2>1, Zenon
    <3>2. PICK y \in Held : /\ b.sequence = y.sequence
                            /\ y \in heap => b = rel(y)
                            /\ y \in in_hand => b = y
      BY <2>1, Zenon
    <3>3. x = y
      BY <3>1, <3>2 DEF Distinct
    <3> QED BY <3>1, <3>2, <3>3 DEF Held
  <2>4. heap' \cap in_hand' = {}
    <3> SUFFICES ASSUME NEW e \in heap, rel(e) \in in_hand PROVE FALSE
      BY <1>1
    <3>1. rel(e) = e
      BY <1>2, <1>3 DEF Distinct, Held
    <3> QED BY <3>1 DEF Distinct
  <2> QED BY <2>2, <2>3, <2>4 DEF Distinct
<1>9. /\ IsFiniteSet(heap') /\ Cardinality(heap') = Cardinality(heap)
      /\ \A f : /\ Cardinality(OfFlow(Held', f)) = Cardinality(OfFlow(Held, f))
                /\ OfFlow(in_hand', f) = OfFlow(in_hand, f)
      /\ \A k : Cardinality(OfPid(Held', k)) = Cardinality(OfPid(Held, k))
  <2> DEFINE h == [e \in Held |-> IF e \in heap THEN rel(e) ELSE e]
  <2>1. \A e \in Held : /\ h[e].sequence = e.sequence /\ h[e].packet = e.packet
                        /\ e \in heap => h[e] = rel(e)
                        /\ e \in in_hand => h[e] = e
    BY <1>2 DEF Distinct, Held
  <2>2. \A e \in Held : h[e] \in Held'
    BY <1>6, <1>7, <2>1 DEF Held
  <2>3. \A e \in Held' : \E x \in Held : e = h[x]
    <3> HIDE DEF h
    <3> QED BY <1>7, <2>1 DEF Held
  <2> HIDE DEF h
  <2>4. \A a, b \in Held : h[a] = h[b] => a = b
    BY <2>1 DEF Distinct
  <2>5. IsFiniteSet(Held)
    BY FS_Union DEF Finite, Held
  <2>6. ASSUME NEW S \in SUBSET Held
        PROVE  /\ IsFiniteSet({h[x] : x \in S})
               /\ Cardinality({h[x] : x \in S}) = Cardinality(S)
    <3>1. IsFiniteSet(S)
      BY <2>5, FS_Subset
    <3>2. \A a, b \in S : h[a] = h[b] => a = b
      BY <2>4
    <3> QED BY <3>1, <3>2, SameSize
  <2>7. heap' = {h[x] : x \in heap}
    BY <1>1, <1>3, <2>1
  <2>8. IsFiniteSet(heap') /\ Cardinality(heap') = Cardinality(heap)
    BY <2>6, <2>7 DEF Held
  <2>9. ASSUME NEW f PROVE Cardinality(OfFlow(Held', f)) = Cardinality(OfFlow(Held, f))
    <3>1. OfFlow(Held', f) = {h[x] : x \in OfFlow(Held, f)}
      BY <2>1, <2>2, <2>3
    <3>2. OfFlow(Held, f) \in SUBSET Held
      OBVIOUS
    <3> HIDE DEF OfFlow
    <3> QED BY <2>6, <3>1, <3>2
  <2>10. ASSUME NEW k PROVE Cardinality(OfPid(Held', k)) = Cardinality(OfPid(Held, k))
    <3>1. OfPid(Held', k) = {h[x] : x \in OfPid(Held, k)}
      BY <2>1, <2>2, <2>3
    <3>2. OfPid(Held, k) \in SUBSET Held
      OBVIOUS
    <3> HIDE DEF OfPid
    <3> QED BY <2>6, <3>1, <3>2
  <2>11. \A f : OfFlow(in_hand', f) = OfFlow(in_hand, f)
    BY <1>1
  <2> HIDE DEF OfFlow, OfPid
  <2> QED BY <2>8, <2>9, <2>10, <2>11
<1>10. Finite'
  BY <1>1, <1>9 DEF Finite
<1>11. CountsExact'
  <2>1. /\ {e.packet.flow : e \in Held'} = {e.packet.flow : e \in Held}
        /\ {e.packet.pid : e \in Held'} = {e.packet.pid : e \in Held}
    BY <1>2, <1>6, <1>7 DEF Held
  <2>2. /\ DOMAIN flows' = {e.packet.flow : e \in Held'}
        /\ DOMAIN pids' = {e.packet.pid : e \in Held'}
    BY <1>1, <1>4, <2>1 DEF CountsExact
  <2>3. usage'.packets = Cardinality(heap') + Cardinality(in_hand')
    BY <1>1, <1>9 DEF CountsExact
  <2>4. ASSUME NEW f \in DOMAIN flows'
        PROVE  /\ flows'[f].packets = Cardinality(OfFlow(Held', f))
               /\ flows'[f].in_flight = Cardinality(OfFlow(in_hand', f))
    <3>1. /\ flows[f].packets = Cardinality(OfFlow(Held, f))
          /\ flows[f].in_flight = Cardinality(OfFlow(in_hand, f))
      BY <1>4 DEF CountsExact
    <3> HIDE DEF OfFlow
    <3> QED BY <1>4, <1>9, <3>1
  <2>5. ASSUME NEW k \in DOMAIN pids' PROVE pids'[k].packets = Cardinality(OfPid(Held', k))
    <3>1. pids[k].packets = Cardinality(OfPid(Held, k))
      BY <1>1 DEF CountsExact
    <3> HIDE DEF OfPid
    <3> QED BY <1>1, <1>9, <3>1
  <2> QED BY <2>2, <2>3, <2>4, <2>5 DEF CountsExact
<1>12. Order'
  <2>1. ASSUME NEW a \in heap, NEW b \in heap,
               a.packet.flow = b.packet.flow, a.sequence < b.sequence
        PROVE  Rebuilt(a, matched) <= Rebuilt(b, matched)
    <3>1. UpTo(a) \subseteq UpTo(b)
      BY <1>3, <2>1 DEF UpTo, SameFlow
    <3>2. CASE Rebuilt(a, matched) = flows[a.packet.flow].in_flight_tail
      BY <2>1, <3>2, ReleaseFacts
    <3>3. CASE \E x \in UpTo(a) : Rebuilt(a, matched) = Stamp(x, matched)
      BY <3>1, <3>3, ReleaseFacts
    <3> QED BY <3>2, <3>3, ReleaseFacts, Zenon
  <2>2. ASSUME NEW a \in heap', NEW b \in heap',
               a.packet.flow = b.packet.flow, a.sequence < b.sequence
        PROVE  a.deadline <= b.deadline
    <3>1. PICK x \in heap : a = rel(x)
      BY <1>1
    <3>2. PICK y \in heap : b = rel(y)
      BY <1>1
    <3> QED BY <1>2, <2>1, <2>2, <3>1, <3>2
  <2>3. ASSUME NEW a \in in_hand', NEW b \in heap', a.packet.flow = b.packet.flow
        PROVE  a.sequence < b.sequence
    <3>1. PICK y \in heap : b = rel(y)
      BY <1>1
    <3> QED BY <1>1, <1>2, <2>3, <3>1 DEF Order, SameFlow
  <2>4. ASSUME NEW b \in heap' PROVE flows'[b.packet.flow].in_flight_tail <= b.deadline
    <3>1. PICK y \in heap : b = rel(y)
      BY <1>1
    <3>2. flows[y.packet.flow].in_flight_tail <= Rebuilt(y, matched)
      BY ReleaseFacts
    <3> QED BY <1>2, <1>3, <1>4, <3>1, <3>2
  <2> QED BY <2>2, <2>3, <2>4 DEF Order, SameFlow
<1>13. TailMembers'
  <2> SUFFICES ASSUME NEW f \in DOMAIN flows
               PROVE  /\ flows'[f].in_flight_tail <= flows'[f].tail
                      /\ \A e \in heap' : e.packet.flow = f => e.deadline <= flows'[f].tail
                      /\ \/ flows'[f].tail = flows'[f].in_flight_tail
                         \/ \E e \in heap' : e.packet.flow = f /\ e.deadline = flows'[f].tail
    BY <1>4 DEF TailMembers
  <2>1. \A e \in heap : e.packet.flow = f => rel(e).deadline <= flows'[f].tail
    BY <1>2, <1>4, RebuiltTailFacts
  <2>2. \A e \in heap' : e.packet.flow = f => e.deadline <= flows'[f].tail
    BY <1>1, <1>2, <2>1
  <2>3. flows'[f].in_flight_tail <= flows'[f].tail
    BY <1>4, RebuiltTailFacts
  <2>4. \/ flows'[f].tail = flows'[f].in_flight_tail
        \/ \E e \in heap : e.packet.flow = f /\ rel(e).deadline = flows'[f].tail
    BY <1>2, <1>4, RebuiltTailFacts
  <2> QED BY <1>2, <1>7, <2>2, <2>3, <2>4
<1>14. TailBounds'
  BY <1>1, <1>4, RebuiltTailFacts DEF TailBounds
<1>15. DelayBounds'
  <2> SUFFICES ASSUME NEW e \in heap
               PROVE  /\ rel(e).due <= rel(e).deadline
                      /\ rel(e).deadline > now => rel(e).deadline <= rel(e).since + MaxDelay
    BY <1>1 DEF DelayBounds
  <2>1. Stamp(e, matched) <= Rebuilt(e, matched) /\ now \in Int
    BY ReleaseFacts
  <2>2. rel(e).due <= rel(e).deadline
    <3>1. rel(e).due <= Stamp(e, matched)
      BY <1>2, <1>3, <2>1 DEF Stamp, DelayBounds
    <3>2. rel(e).due \in Int /\ Stamp(e, matched) \in Int
      BY <1>2, <1>3, <2>1 DEF Stamp
    <3> QED BY <1>2, <1>3, <2>1, <3>1, <3>2
  <2>3. ASSUME Rebuilt(e, matched) > now PROVE Rebuilt(e, matched) <= e.since + MaxDelay
    <3>1. Rebuilt(e, matched) # flows[e.packet.flow].in_flight_tail
      BY <1>3, <2>1, <2>3, Parts DEF TailBounds
    <3>2. PICK x \in UpTo(e) : Rebuilt(e, matched) = Stamp(x, matched)
      BY <3>1, ReleaseFacts, Zenon
    <3>3. x \in heap /\ Rebuilt(e, matched) = x.deadline
      BY <2>1, <2>3, <3>2 DEF Stamp, UpTo
    <3>4. x.deadline <= e.deadline
      BY <1>3, <3>2, <3>3 DEF Order, UpTo, Distinct
    <3> QED BY <1>3, <2>1, <2>3, <3>3, <3>4, LimitsAssumption DEF DelayBounds
  <2> QED BY <1>2, <2>2, <2>3
<1>16. WithinLimits'
  BY <1>1 DEF WithinLimits
<1> QED BY <1>5, <1>8, <1>10, <1>11, <1>12, <1>13, <1>14, <1>15, <1>16

-----------------------------------------------------------------------------
(* The theorems. *)

LEMMA StepOK == IInv /\ [Next]_vars => IInv'
<1> SUFFICES ASSUME IInv, [Next]_vars PROVE IInv'
  OBVIOUS
<1>1. ASSUME NEW p \in Packet, NEW requested \in 0 .. now + MaxDelay, Enqueue(p, requested)
      PROVE  IInv'
  BY <1>1, EnqueueOK
<1>2. ASSUME NEW e \in heap, Pop(e) PROVE IInv'
  BY <1>2, PopOK
<1>3. ASSUME NEW e \in in_hand, Finish(e) PROVE IInv'
  BY <1>3, FinishOK
<1>4. ASSUME NEW matched, ReleaseMatching(matched) PROVE IInv'
  BY <1>4, ReleaseOK
<1>5. CASE Clear
  BY <1>5, ClearOK
<1>6. CASE Tick
  BY <1>6, TickOK
<1>7. CASE UNCHANGED vars
  BY <1>7 DEF vars, queueVars, IInv, TypeOK, Finite, Distinct, Held, CountsExact, Order,
              TailMembers, TailBounds, DelayBounds, WithinLimits
<1> QED BY <1>1, <1>2, <1>3, <1>4, <1>5, <1>6, <1>7 DEF Next

LEMMA Inductive == Spec => []IInv
BY InitOK, StepOK, PTL DEF Spec

\* The state keeps its type: no delay queue method stores anything else.
THEOREM TypeCorrect == Spec => []TypeOK
<1>1. IInv => TypeOK
  BY DEF IInv
<1> QED BY <1>1, Inductive, PTL

(***************************************************************************)
(* Packets of a flow leave in the order they came, whatever is released,   *)
(* popped or finished in between (delay_queue.rs: enqueue passes the tail  *)
(* on, release_matching rebuilds the deadlines from the one in flight).    *)
(***************************************************************************)
THEOREM OrderKept == Spec => []FlowOrder
<1>1. IInv => FlowOrder
  BY DEF IInv, Order, FlowOrder
<1> QED BY <1>1, Inductive, PTL

(***************************************************************************)
(* No usage entry or flow leaks and no counter drifts: finish returns what *)
(* enqueue took, and removes the entries that reach zero.                  *)
(***************************************************************************)
THEOREM CountsKept == Spec => []CountsExact
<1>1. IInv => CountsExact
  BY DEF IInv
<1> QED BY <1>1, Inductive, PTL

\* The quotas on packets and bytes that enqueue tests hold in every state.
THEOREM LimitsKept == Spec => []WithinLimits
<1>1. IInv => WithinLimits
  BY DEF IInv
<1> QED BY <1>1, Inductive, PTL

\* No packet is sent early, and none waits longer than the longest delay asked for.
THEOREM DelayBounded == Spec => []DelayBounds
<1>1. IInv => DelayBounds
  BY DEF IInv
<1> QED BY <1>1, Inductive, PTL

\* The tail of a flow is always the latest deadline it owes, even after a release.
THEOREM TailsExact == Spec => []TailExact
<1>1. ASSUME IInv PROVE TailExact
  <2> SUFFICES ASSUME NEW f \in DOMAIN flows
               PROVE  flows[f].tail = Max({flows[f].in_flight_tail}
                        \cup {e.deadline : e \in {x \in heap : x.packet.flow = f}})
    BY DEF TailExact
  <2> DEFINE S == {flows[f].in_flight_tail}
                  \cup {e.deadline : e \in {x \in heap : x.packet.flow = f}}
  <2> USE <1>1 DEF IInv
  <2>1. S \subseteq AnyInstant
    BY Parts DEF AnyInstant, Held
  <2>2. flows[f].tail \in S /\ \A x \in S : x <= flows[f].tail
    BY DEF TailMembers
  <2> HIDE DEF S
  <2>3. Max(S) = flows[f].tail
    BY <2>1, <2>2, MaxIs
  <2> QED BY <2>3 DEF S
<1> QED BY <1>1, Inductive, PTL

-----------------------------------------------------------------------------
(* The byte totals. *)

OfPid(S, k) == {x \in S : x.packet.pid = k}

\* An entry more or less is its bytes more or less.
LEMMA BytesWith ==
  ASSUME TypeOK, NEW S, IsFiniteSet(S), S \subseteq Entry, NEW e \in Entry, e \notin S
  PROVE  /\ TotalBytes(S) \in Nat
         /\ TotalBytes(S \cup {e}) = TotalBytes(S) + e.packet.bytes
<1> DEFINE f == [x \in S |-> x.packet.bytes]
           g == [x \in S \cup {e} |-> x.packet.bytes]
<1>1. \A x \in Entry : x.packet.bytes \in Nat
  BY PacketAssumption DEF Entry
<1>2. \A x \in S : f[x] \in Nat /\ g[x] = f[x]
  BY <1>1
<1>3. g[e] = e.packet.bytes /\ \A x \in S \cup {e} : g[x] \in Int
  BY <1>1
<1>4. TotalBytes(S) = SumFunctionOnSet(f, S) /\ TotalBytes(S \cup {e}) = SumFunctionOnSet(g, S \cup {e})
  BY DEF TotalBytes, SumFunction
<1> HIDE DEF f, g
<1>5. SumFunctionOnSet(f, S) \in Nat /\ SumFunctionOnSet(g, S) = SumFunctionOnSet(f, S)
  BY <1>2, SumIn, SumSame
<1>6. SumFunctionOnSet(g, S \cup {e}) = g[e] + SumFunctionOnSet(g, S)
  BY <1>3, SumWith
<1> QED BY <1>1, <1>3, <1>4, <1>5, <1>6

LEMMA BytesWithout ==
  ASSUME TypeOK, NEW S, IsFiniteSet(S), S \subseteq Entry, NEW e \in S
  PROVE  TotalBytes(S \ {e}) = TotalBytes(S) - e.packet.bytes
<1> DEFINE r == S \ {e}
<1>1. IsFiniteSet(r) /\ r \subseteq Entry /\ e \notin r /\ r \cup {e} = S /\ e \in Entry
  BY FS_RemoveElement
<1>2. e.packet.bytes \in Nat
  BY PacketAssumption DEF Entry
<1> HIDE DEF r
<1>3. TotalBytes(r) \in Nat /\ TotalBytes(r \cup {e}) = TotalBytes(r) + e.packet.bytes
  BY <1>1, BytesWith
<1>4. TotalBytes(S) = TotalBytes(r) + e.packet.bytes
  BY <1>1, <1>3, Zenon
<1>5. TotalBytes(r) = TotalBytes(S) - e.packet.bytes
  BY <1>2, <1>3, <1>4
<1> QED BY <1>5 DEF r

LEMMA BytesOfNone == TotalBytes({}) = 0
BY SumOfNone DEF TotalBytes, SumFunction

LEMMA HeldFinite ==
  ASSUME IInv
  PROVE  /\ IsFiniteSet(Held) /\ Held \subseteq Entry
         /\ \A k : IsFiniteSet(OfPid(Held, k)) /\ OfPid(Held, k) \subseteq Entry
<1>1. IsFiniteSet(Held) /\ Held \subseteq Entry
  BY FS_Union DEF IInv, TypeOK, Finite, Held
<1>2. ASSUME NEW k PROVE IsFiniteSet(OfPid(Held, k)) /\ OfPid(Held, k) \subseteq Entry
  <2>1. OfPid(Held, k) \in SUBSET Held
    BY DEF OfPid
  <2> QED BY <1>1, <2>1, FS_Subset
<1> QED BY <1>1, <1>2

LEMMA EnqueueBytes ==
  ASSUME IInv, BytesExact, NEW p \in Packet, NEW requested \in 0 .. now + MaxDelay,
         Enqueue(p, requested)
  PROVE  BytesExact'
<1> DEFINE k == p.pid
           new == [packet |-> p, deadline |-> QueuedDeadline(p, requested),
                   sequence |-> next_sequence, due |-> requested, since |-> now]
<1>1. heap' = heap \cup {new} /\ in_hand' = in_hand /\ new.packet = p /\ new.sequence = next_sequence
  BY DEF Enqueue
<1>2. new \in Entry /\ new \notin Held
  <2>1. IInv'
    BY EnqueueOK
  <2>2. \A x \in Held : x.sequence # next_sequence
    <3>1. \A x \in Held : x.sequence \in Int /\ x.sequence < next_sequence
      BY Parts DEF IInv, Distinct
    <3> QED BY <3>1
  <2> QED BY <1>1, <2>1, <2>2 DEF IInv, TypeOK
<1> HIDE DEF new
<1>3. Held' = Held \cup {new}
  BY <1>1 DEF Held
<1>4. /\ usage' = [packets |-> usage.packets + 1, bytes |-> usage.bytes + p.bytes]
      /\ DOMAIN pids' = DOMAIN pids \cup {k}
      /\ pids'[k].bytes = UsageOf(k).bytes + p.bytes
      /\ \A j \in DOMAIN pids : j # k => pids'[j] = pids[j]
  BY DEF Enqueue, With
<1>5. UsageOf(k).bytes = TotalBytes(OfPid(Held, k))
  <2>1. CASE k \in DOMAIN pids
    BY <2>1 DEF UsageOf, BytesExact, OfPid
  <2>2. CASE k \notin DOMAIN pids
    <3>1. OfPid(Held, k) = {}
      BY <2>2 DEF IInv, CountsExact, OfPid
    <3> QED BY <2>2, <3>1, BytesOfNone DEF UsageOf, NoUsage
  <2> QED BY <2>1, <2>2
<1>6. usage'.bytes = TotalBytes(Held')
  <2>1. TotalBytes(Held \cup {new}) = TotalBytes(Held) + p.bytes
    BY <1>1, <1>2, HeldFinite, BytesWith DEF IInv
  <2> QED BY <1>3, <1>4, <2>1 DEF BytesExact
<1>7. ASSUME NEW j \in DOMAIN pids' PROVE pids'[j].bytes = TotalBytes(OfPid(Held', j))
  <2>1. CASE j = k
    <3>1. OfPid(Held', k) = OfPid(Held, k) \cup {new} /\ new \notin OfPid(Held, k)
      BY <1>1, <1>2, <1>3 DEF OfPid
    <3>2. TotalBytes(OfPid(Held, k) \cup {new}) = TotalBytes(OfPid(Held, k)) + p.bytes
      <4> HIDE DEF k
      <4> QED BY <1>1, <1>2, <3>1, HeldFinite, BytesWith DEF IInv
    <3> QED BY <1>4, <1>5, <2>1, <3>1, <3>2
  <2>2. CASE j # k
    <3>1. OfPid(Held', j) = OfPid(Held, j)
      BY <1>1, <1>3, <2>2 DEF OfPid
    <3>2. pids[j].bytes = TotalBytes(OfPid(Held, j))
      BY <1>4, <2>2 DEF BytesExact, OfPid
    <3> QED BY <1>4, <2>2, <3>1, <3>2
  <2> QED BY <2>1, <2>2
<1> QED BY <1>6, <1>7 DEF BytesExact, OfPid

LEMMA FinishBytes ==
  ASSUME IInv, BytesExact, NEW e \in in_hand, Finish(e)
  PROVE  BytesExact'
<1> DEFINE k == e.packet.pid
<1>1. e \in Held /\ k \in DOMAIN pids /\ Held' = Held \ {e}
  BY DEF IInv, CountsExact, Distinct, Held, Finish
<1>2. /\ usage'.bytes = usage.bytes - e.packet.bytes
      /\ \A j \in DOMAIN pids' : /\ j \in DOMAIN pids
                                 /\ pids'[j].bytes = IF j = k THEN pids[k].bytes - e.packet.bytes
                                                             ELSE pids[j].bytes
  <2> DEFINE left == [packets |-> pids[k].packets - 1, bytes |-> pids[k].bytes - e.packet.bytes]
  <2>1. pids' = IF left.packets = 0 THEN Without(pids, k) ELSE With(pids, k, left)
    BY DEF Finish
  <2>2. left.bytes = pids[k].bytes - e.packet.bytes /\ usage'.bytes = usage.bytes - e.packet.bytes
    BY DEF Finish
  <2> HIDE DEF left, k
  <2> QED BY <1>1, <2>1, <2>2 DEF With, Without
<1>3. usage'.bytes = TotalBytes(Held')
  BY <1>1, <1>2, HeldFinite, BytesWithout DEF BytesExact, IInv
<1>4. ASSUME NEW j \in DOMAIN pids' PROVE pids'[j].bytes = TotalBytes(OfPid(Held', j))
  <2>1. j \in DOMAIN pids /\ pids[j].bytes = TotalBytes(OfPid(Held, j))
    BY <1>2 DEF BytesExact, OfPid
  <2>2. CASE j = k
    <3>1. OfPid(Held', k) = OfPid(Held, k) \ {e} /\ e \in OfPid(Held, k)
      BY <1>1 DEF OfPid
    <3>2. TotalBytes(OfPid(Held, k) \ {e}) = TotalBytes(OfPid(Held, k)) - e.packet.bytes
      <4> HIDE DEF k
      <4> QED BY <3>1, HeldFinite, BytesWithout DEF IInv
    <3> QED BY <1>2, <2>1, <2>2, <3>1, <3>2
  <2>3. CASE j # k
    <3>1. OfPid(Held', j) = OfPid(Held, j)
      BY <1>1, <2>3 DEF OfPid
    <3> QED BY <1>2, <2>1, <2>3, <3>1
  <2> QED BY <2>2, <2>3
<1> QED BY <1>3, <1>4 DEF BytesExact, OfPid

\* A release changes deadlines, not what is held.
LEMMA ReleaseBytes ==
  ASSUME IInv, BytesExact, NEW matched, ReleaseMatching(matched)
  PROVE  BytesExact'
<1> DEFINE h == [e \in Held |-> IF e \in heap THEN Released(e, matched) ELSE e]
<1>1. /\ heap' = {Released(e, matched) : e \in heap} /\ in_hand' = in_hand
      /\ pids' = pids /\ usage' = usage
  BY DEF ReleaseMatching
<1>2. \A e \in Held : h[e].packet = e.packet /\ h[e].sequence = e.sequence
  BY ReleaseFacts
<1>3. Held' = {h[e] : e \in Held}
  <2>1. \A e \in in_hand : e \in Held /\ h[e] = e
    BY DEF Held, IInv, Distinct
  <2>2. \A e \in heap : e \in Held /\ h[e] = Released(e, matched)
    BY DEF Held
  <2> HIDE DEF h
  <2> QED BY <1>1, <2>1, <2>2 DEF Held
<1> HIDE DEF h
<1>4. \A a, b \in Held : h[a] = h[b] => a = b
  BY <1>2 DEF IInv, Distinct
<1>5. ASSUME NEW S \in SUBSET Held PROVE TotalBytes({h[e] : e \in S}) = TotalBytes(S)
  <2> DEFINE T == {h[e] : e \in S}
             f == [x \in S |-> x.packet.bytes]
             g == [x \in T |-> x.packet.bytes]
  <2>1. IsFiniteSet(S)
    BY HeldFinite, FS_Subset
  <2>2. \A x \in S : f[x] \in Int /\ g[h[x]] = f[x]
    BY <1>2, Parts DEF IInv
  <2>3. TotalBytes(S) = SumFunctionOnSet(f, S) /\ TotalBytes(T) = SumFunctionOnSet(g, T)
    BY DEF TotalBytes, SumFunction
  <2>4. SumFunctionOnSet(g, {h[e] : e \in S}) = SumFunctionOnSet(f, S)
    <3> HIDE DEF f, g
    <3> QED BY <1>4, <2>1, <2>2, SumRenamed
  <2> QED BY <2>3, <2>4
<1>6. \A k : OfPid(Held', k) = {h[e] : e \in OfPid(Held, k)} /\ OfPid(Held, k) \in SUBSET Held
  BY <1>2, <1>3 DEF OfPid
<1>7. usage'.bytes = TotalBytes(Held')
  BY <1>1, <1>3, <1>5 DEF BytesExact
<1>8. \A k \in DOMAIN pids' : pids'[k].bytes = TotalBytes(OfPid(Held', k))
  BY <1>1, <1>5, <1>6 DEF BytesExact, OfPid
<1> QED BY <1>7, <1>8 DEF BytesExact, OfPid

LEMMA BytesInit == Init => BytesExact
BY BytesOfNone DEF Init, BytesExact, Held, NoUsage, EmptyMap

LEMMA BytesStep == IInv /\ BytesExact /\ [Next]_vars => BytesExact'
<1> SUFFICES ASSUME IInv, BytesExact, [Next]_vars PROVE BytesExact'
  OBVIOUS
<1>1. ASSUME NEW p \in Packet, NEW requested \in 0 .. now + MaxDelay, Enqueue(p, requested)
      PROVE  BytesExact'
  BY <1>1, EnqueueBytes
<1>2. ASSUME NEW e \in heap, Pop(e) PROVE BytesExact'
  <2>1. Held' = Held /\ UNCHANGED <<usage, pids>>
    BY <1>2 DEF Pop, Held
  <2> QED BY <2>1 DEF BytesExact
<1>3. ASSUME NEW e \in in_hand, Finish(e) PROVE BytesExact'
  BY <1>3, FinishBytes
<1>4. ASSUME NEW matched, ReleaseMatching(matched) PROVE BytesExact'
  BY <1>4, ReleaseBytes
<1>5. CASE Clear
  BY <1>5, BytesOfNone DEF Clear, BytesExact, Held, NoUsage, EmptyMap
<1>6. CASE Tick
  BY <1>6 DEF Tick, queueVars, BytesExact, Held
<1>7. CASE UNCHANGED vars
  BY <1>7 DEF vars, queueVars, BytesExact, Held
<1> QED BY <1>1, <1>2, <1>3, <1>4, <1>5, <1>6, <1>7 DEF Next

(***************************************************************************)
(* The byte totals that the quotas are tested against are those of the     *)
(* packets the queue answers for: what finish takes off is what enqueue    *)
(* put on, and a release moves nothing.                                    *)
(***************************************************************************)
THEOREM BytesKept == Spec => []BytesExact
<1>1. Spec => []IInv
  BY Inductive
<1> QED BY <1>1, BytesInit, BytesStep, PTL DEF Spec

-----------------------------------------------------------------------------
(* DelayQueue implements DelayLine. *)

LEMMA EnqueueJoins ==
  ASSUME IInv, NEW p \in Packet, NEW requested \in 0 .. now + MaxDelay, Enqueue(p, requested)
  PROVE  DL!Join(p.flow, next_sequence, requested) /\ next_sequence \in 0 .. MaxSequence - 1
<1> USE DEF IInv
<1>1. next_sequence \in 0 .. MaxSequence - 1
  BY LimitsAssumption DEF Enqueue, TypeOK
<1>2. \A w \in {Line(e) : e \in heap} : w.flow = p.flow => w.ticket < next_sequence
  BY DEF Line, Distinct, Held
<1>3. PICK x : heap' = heap \cup {x} /\ Line(x) = [flow |-> p.flow, ticket |-> next_sequence,
                                                   due |-> requested]
  <2> DEFINE x == [packet |-> p, deadline |-> QueuedDeadline(p, requested),
                   sequence |-> next_sequence, due |-> requested, since |-> now]
  <2>1. heap' = heap \cup {x}
    BY DEF Enqueue
  <2>2. Line(x) = [flow |-> p.flow, ticket |-> next_sequence, due |-> requested]
    BY DEF Line
  <2> QED BY <2>1, <2>2
<1>4. {Line(e) : e \in heap'}
      = {Line(e) : e \in heap} \cup {[flow |-> p.flow, ticket |-> next_sequence,
                                      due |-> requested]}
  <2> HIDE DEF IInv
  <2> QED BY <1>3
<1>5. now' = now
  BY DEF Enqueue
<1> QED BY <1>1, <1>2, <1>4, <1>5 DEF DL!Join

LEMMA PopLeaves ==
  ASSUME IInv, NEW e \in heap, Pop(e)
  PROVE  DL!Leave(Line(e))
<1> USE DEF IInv
<1>1. \A x \in heap : /\ x \in Held /\ x.deadline \in Int /\ x.sequence \in Int /\ x.due \in Int
                      /\ now \in Int
  BY Parts DEF Held, TypeOK
<1>2. Line(e).due <= now
  BY <1>1 DEF Line, Pop, DelayBounds
<1>3. ASSUME NEW x \in heap, Line(x).flow = Line(e).flow
      PROVE  Line(x).ticket >= Line(e).ticket
  <2>1. x # e => Before(e, x)
    BY DEF Pop, IsHead
  <2>2. SameFlow(x, e)
    BY <1>3 DEF Line, SameFlow
  <2>3. x.sequence >= e.sequence
    BY <1>1, <2>1, <2>2 DEF Before, Order
  <2> QED BY <2>3 DEF Line
<1>4. {Line(x) : x \in heap'} = {Line(x) : x \in heap} \ {Line(e)}
  <2>1. \A x \in heap : Line(x) = Line(e) => x = e
    BY <1>1 DEF Line, Distinct
  <2>2. heap' = heap \ {e}
    BY DEF Pop
  <2> QED BY <2>1, <2>2
<1>5. now' = now
  BY DEF Pop
<1> QED BY <1>2, <1>3, <1>4, <1>5 DEF DL!Leave

LEMMA ReleaseHastens ==
  ASSUME IInv, NEW matched, ReleaseMatching(matched)
  PROVE  \E S \in SUBSET {Line(e) : e \in heap} : DL!Hasten(S)
<1> DEFINE W == {Line(e) : e \in heap}
           S == {Line(e) : e \in {x \in heap : x.packet \in matched}}
           hastened(w) == IF w \in S THEN [w EXCEPT !.due = DL!Earlier(@, now)] ELSE w
<1>1. /\ heap' = {Released(e, matched) : e \in heap} /\ now' = now
  BY DEF ReleaseMatching
<1>2. ASSUME NEW e \in heap PROVE Line(Released(e, matched)) = hastened(Line(e))
  <2>1. /\ Released(e, matched).packet = e.packet /\ Released(e, matched).sequence = e.sequence
        /\ Released(e, matched).due
             = IF e.packet \in matched /\ now < e.due THEN now ELSE e.due
    BY ReleaseFacts, Zenon
  <2>2. e.due \in Int /\ now \in Int
    BY ReleaseFacts, Parts DEF IInv, Held
  <2>3. Line(e) \in S <=> e.packet \in matched
    <3>1. ASSUME NEW x \in heap, Line(x) = Line(e) PROVE x = e
      BY <3>1 DEF IInv, Distinct, Held, Line
    <3> QED BY <3>1
  <2>4. CASE e.packet \in matched
    <3>1. DL!Earlier(e.due, now) = IF now < e.due THEN now ELSE e.due
      BY <2>2 DEF DL!Earlier
    <3>2. [Line(e) EXCEPT !.due = DL!Earlier(@, now)]
            = [flow |-> e.packet.flow, ticket |-> e.sequence, due |-> DL!Earlier(e.due, now)]
      BY DEF Line
    <3>3. Line(Released(e, matched))
            = [flow |-> e.packet.flow, ticket |-> e.sequence, due |-> DL!Earlier(e.due, now)]
      BY <2>1, <2>4, <3>1 DEF Line
    <3> HIDE DEF S
    <3> QED BY <2>3, <2>4, <3>2, <3>3
  <2>5. CASE e.packet \notin matched
    <3>1. Line(Released(e, matched)) = Line(e)
      BY <2>1, <2>5 DEF Line
    <3> HIDE DEF S
    <3> QED BY <2>3, <2>5, <3>1
  <2> QED BY <2>4, <2>5
<1>3. {Line(e) : e \in heap'} = {hastened(w) : w \in W}
  <2> HIDE DEF hastened
  <2> QED BY <1>1, <1>2
<1>4. S \in SUBSET W
  OBVIOUS
<1>5. DL!Hasten(S)
  BY <1>1, <1>3 DEF DL!Hasten
<1> QED BY <1>4, <1>5

(***************************************************************************)
(* The queue implements the delay line, whose packets leave first come     *)
(* first served within their flow and never before they are due.           *)
(***************************************************************************)
THEOREM Refinement == Spec => ImplementsDelayLine
<1>1. Init => DL!Init
  BY DEF Init, DL!Init
<1>2. IInv /\ [Next]_vars => [DL!Next]_(DL!vars)
  <2> SUFFICES ASSUME IInv, [Next]_vars PROVE DL!Next \/ UNCHANGED DL!vars
    OBVIOUS
  <2>1. ASSUME NEW p \in Packet, NEW requested \in 0 .. now + MaxDelay, Enqueue(p, requested)
        PROVE  DL!Next
    <3>1. DL!Join(p.flow, next_sequence, requested) /\ next_sequence \in 0 .. MaxSequence - 1
      BY <2>1, EnqueueJoins
    <3>2. p.flow \in Flow
      BY DEF Flow
    <3> QED BY <3>1, <3>2 DEF DL!Next
  <2>2. ASSUME NEW e \in heap, Pop(e) PROVE DL!Next
    <3>1. DL!Leave(Line(e)) /\ Line(e) \in {Line(x) : x \in heap}
      BY <2>2, PopLeaves
    <3> QED BY <3>1 DEF DL!Next
  <2>3. ASSUME NEW e \in in_hand, Finish(e) PROVE UNCHANGED DL!vars
    BY <2>3 DEF Finish, DL!vars
  <2>4. ASSUME NEW matched, ReleaseMatching(matched) PROVE DL!Next
    BY <2>4, ReleaseHastens DEF DL!Next
  <2>5. CASE Clear
    <3>1. DL!Abandon
      BY <2>5 DEF Clear, DL!Abandon
    <3> QED BY <3>1 DEF DL!Next
  <2>6. CASE Tick
    <3>1. DL!Tick
      BY <2>6 DEF Tick, queueVars, DL!Tick
    <3> QED BY <3>1 DEF DL!Next
  <2>7. CASE UNCHANGED vars
    BY <2>7 DEF vars, queueVars, DL!vars
  <2> QED BY <2>1, <2>2, <2>3, <2>4, <2>5, <2>6, <2>7 DEF Next
<1> QED BY <1>1, <1>2, Inductive, PTL DEF Spec, ImplementsDelayLine, DL!Spec

(***************************************************************************)
(* A release lets go at once of every packet whose predecessors in the     *)
(* flow are released with it (README.md: "Setting delay to zero ...        *)
(* releases applicable backlog in order").                                 *)
(***************************************************************************)
THEOREM ReleaseIsPrompt == Spec => ReleaseMakesDue
<1>1. ASSUME IInv, NEW matched \in SUBSET {e.packet : e \in heap}, ReleaseMatching(matched),
             NEW e \in heap, {x.packet : x \in UpTo(e)} \subseteq matched
      PROVE  \E x \in heap' : x.sequence = e.sequence /\ x.deadline <= now
  <2>1. \/ Rebuilt(e, matched) = flows[e.packet.flow].in_flight_tail
        \/ \E x \in UpTo(e) : Rebuilt(e, matched) = Stamp(x, matched)
    BY <1>1, ReleaseFacts, Zenon
  <2>2. \A x \in UpTo(e) : Stamp(x, matched) = now
    BY <1>1 DEF Stamp
  <2>3. now <= now /\ e.packet.flow \in DOMAIN flows
    <3>1. now \in Int
      BY <1>1, ReleaseFacts, Zenon
    <3>2. e.packet.flow \in DOMAIN flows
      BY <1>1 DEF IInv, CountsExact, Held
    <3> QED BY <3>1, <3>2
  <2>4. Rebuilt(e, matched) <= now
    BY <1>1, <2>1, <2>2, <2>3 DEF IInv, TailBounds
  <2>5. Released(e, matched).sequence = e.sequence
        /\ Released(e, matched).deadline = Rebuilt(e, matched)
    BY <1>1, ReleaseFacts, Zenon
  <2>6. Released(e, matched) \in heap'
    BY <1>1 DEF ReleaseMatching
  <2> QED BY <2>4, <2>5, <2>6
<1>2. IInv /\ [Next]_vars
        => [\A matched \in SUBSET {e.packet : e \in heap} :
              ReleaseMatching(matched) =>
                \A e \in heap : {x.packet : x \in UpTo(e)} \subseteq matched =>
                  \E x \in heap' : x.sequence = e.sequence /\ x.deadline <= now]_vars
  BY <1>1
<1> QED BY <1>2, Inductive, PTL DEF Spec, ReleaseMakesDue
=============================================================================
