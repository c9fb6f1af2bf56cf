----------------------------- MODULE MCPortTable -----------------------------
(* PortTable with two processes and two ports; packets of every header that the parser tells  *)
(* apart, and some that it refuses; tables of two connections and of none.                     *)
EXTENDS Wire, TLC

CONSTANTS p1, p2

Symmetry == Permutations(Pid)

\* Two ports whose bytes differ, the local one first.
Local == 258
Remote == 772

MCWatched == [protocol |-> Tcp, port |-> Local, ipv6 |-> FALSE]

\* A protocol and the words of its header; TCP with too few, and another protocol.
Transports == {<<Tcp, 5>>, <<Tcp, 6>>, <<Tcp, 4>>, <<Udp, 2>>, <<1, 2>>}
Chains == UNION {[1 .. n -> {[type |-> t, code |-> c] : t \in {0, 43, 51}, c \in {0, 1}}
                            \cup {[type |-> 44, code |-> 0]}] : n \in 0 .. 2}

Made(ipv6, ihl, headers, transport, payload, padding, fill, outbound) ==
  [ipv6 |-> ipv6, ihl |-> ihl, headers |-> headers, protocol |-> transport[1], words |-> transport[2],
   source |-> IF outbound THEN Local ELSE Remote, destination |-> IF outbound THEN Remote ELSE Local,
   payload |-> Filled(payload, fill), padding |-> Filled(padding, fill), fill |-> fill,
   outbound |-> outbound]

MCPackets ==
  {Made(FALSE, ihl, <<>>, t, payload, padding, 255, out) :
     ihl \in {5, 6}, t \in Transports, payload \in {0, 3}, padding \in {0, 2}, out \in BOOLEAN}
  \cup
  {Made(TRUE, 5, chain, t, 3, padding, fill, TRUE) :
     chain \in Chains, t \in Transports, padding \in {0, 2}, fill \in {0, 6}}

\* A listener, connections, one in a state without a name, one that is not owned, and one of
\* another process.
MCAddress(ipv6, last) == IF ipv6 THEN <<32, 1>> \o Filled(13, 0) \o <<last>> ELSE <<10, 0, 0, last>>
Opened(ipv6, state, pid) ==
  [ipv6 |-> ipv6, local |-> MCAddress(ipv6, 1), local_port |-> Local, remote |-> MCAddress(ipv6, pid),
   remote_port |-> Remote, state |-> state, pid |-> pid]
Sockets(ipv6) == {Opened(ipv6, state, 7) : state \in {2, 3, 5, 8, 11, 258}} \cup {Opened(ipv6, 5, 0), Opened(ipv6, 5, 9)}

\* Buffers with the whole table, with more, without a part of the second row, and without any.
MCTables ==
  UNION {{[ipv6 |-> ipv6, sockets |-> pair, junk |-> junk, length |-> length] :
            pair \in [1 .. 2 -> Sockets(ipv6)], junk \in {0, 1},
            length \in {4 + 2 * RowSize(ipv6), 7 + 3 * RowSize(ipv6), 3 + 2 * RowSize(ipv6), 3}} :
          ipv6 \in BOOLEAN}
=============================================================================
