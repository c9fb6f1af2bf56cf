------------------------------ MODULE MCEngine ------------------------------
(* Small instances of Engine: the packets and the rules that may be set.   *)
EXTENDS Engine

Traffic(flow, pid, charge, loopback, parsed) ==
  [flow |-> flow, pid |-> pid, bytes |-> 1, charge |-> charge,
   loopback |-> loopback, parsed |-> parsed]

\* A packet of process p1, one that cannot be parsed, and one on the loopback.
Web == Traffic("f1", "p1", 1, FALSE, TRUE)
Icmp == Traffic("none", "none", 0, FALSE, FALSE)
Local == Traffic("f2", "p1", 1, TRUE, TRUE)
OneKind == {Web}
AllKinds == {Web, Icmp, Local}

Block == [NoRule EXCEPT !.block = TRUE]
Slow == [NoRule EXCEPT !.delay = 1]
Slower == [NoRule EXCEPT !.delay = 2]           \* above MaxDelay in every instance
Prompt == [NoRule EXCEPT !.delay = 0]
Leaky == [NoRule EXCEPT !.loss = 1]
Hole == [NoRule EXCEPT !.loss = 2, !.rate = TRUE]
Limit == [NoRule EXCEPT !.rate = TRUE]
Lossless == [NoRule EXCEPT !.loss = 0]

\* Delays that are set, cut and blocked while packets wait.
ChangingRules == {Block, Slow, Prompt}
SlowRules == {Slow}
BlockRules == {Block}
\* Every reason to drop a packet.
FilterRules == {Hole, Limit, Lossless, Prompt}
FilterGlobals == {Leaky, Slower, Block}
=============================================================================
