----------------------------- MODULE DelayLine ------------------------------
(***************************************************************************)
(* What a delay queue promises, without quotas, heaps or deadlines that    *)
(* are passed on from one packet to the next: packets wait in line, one    *)
(* line per flow, each with the instant before which it must not leave,    *)
(* and only the first of a line may leave.  README.md: "Only packets       *)
(* needing to wait are queued, with ordering preserved within each         *)
(* directional flow."                                                      *)
(***************************************************************************)
EXTENDS Integers

CONSTANTS
  Flow,       \* the lines
  Ticket,     \* the numbers drawn by those who join, a set of integers
  MaxDelay,   \* the longest delay that can be asked for
  Horizon     \* bound of the clock

VARIABLES
  waiting,    \* the packets in line: their flow, ticket and due instant
  now

vars == <<waiting, now>>

Earlier(a, b) == IF a <= b THEN a ELSE b

Init == waiting = {} /\ now = 0

\* A packet joins its line behind everyone in it.
Join(f, ticket, due) ==
  /\ \A w \in waiting : w.flow = f => w.ticket < ticket
  /\ waiting' = waiting \cup {[flow |-> f, ticket |-> ticket, due |-> due]}
  /\ UNCHANGED now

\* The first of a line leaves once it is due.
Leave(w) ==
  /\ w.due <= now
  /\ \A x \in waiting : x.flow = w.flow => x.ticket >= w.ticket
  /\ waiting' = waiting \ {w}
  /\ UNCHANGED now

\* Some of the waiting packets need not wait any longer.
Hasten(S) ==
  /\ waiting' = {IF w \in S THEN [w EXCEPT !.due = Earlier(@, now)] ELSE w : w \in waiting}
  /\ UNCHANGED now

Abandon == waiting' = {} /\ UNCHANGED now

Tick == now < Horizon /\ now' = now + 1 /\ UNCHANGED waiting

Next ==
  \/ \E f \in Flow, ticket \in Ticket, due \in 0 .. now + MaxDelay : Join(f, ticket, due)
  \/ \E w \in waiting : Leave(w)
  \/ \E S \in SUBSET waiting : Hasten(S)
  \/ Abandon
  \/ Tick

Spec == Init /\ [][Next]_vars
=============================================================================
