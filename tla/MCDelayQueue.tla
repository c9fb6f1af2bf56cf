---------------------------- MODULE MCDelayQueue ----------------------------
(* A small instance of DelayQueue: two flows, a process and unattributed   *)
(* traffic, packets of two sizes, and limits that each bind.               *)
EXTENDS DelayQueue

MCPacket ==
  {[flow |-> "f1", pid |-> "p1", bytes |-> 1], [flow |-> "f1", pid |-> "none", bytes |-> 1],
   [flow |-> "f2", pid |-> "p1", bytes |-> 3]}
=============================================================================
