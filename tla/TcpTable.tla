------------------------------ MODULE TcpTable ------------------------------
(***************************************************************************)
(* The list of TCP connections and disconnecting (flowbrake-windows,       *)
(* ip_helper.rs and tcp.rs; flowbrake-core, lib.rs): the system's table is *)
(* parsed, a connection of the list goes to the window as a text and comes *)
(* back from it, and is closed by its addresses and ports.                 *)
(*                                                                         *)
(* A table is a sequence of bytes; the code counts them from 0.  The order *)
(* of the bytes is what is modelled: the machine's in the numbers, and the *)
(* network's in addresses and ports.  A list of connections, which the     *)
(* window sorts, is a set.                                                 *)
(***************************************************************************)
EXTENDS Integers, Sequences

\* u32::from_ne_bytes and its inverse
U32(bytes, i) == bytes[i + 1] + 2^8 * bytes[i + 2] + 2^16 * bytes[i + 3] + 2^24 * bytes[i + 4]
Bytes32(n) == <<n % 2^8, (n \div 2^8) % 2^8, (n \div 2^16) % 2^8, n \div 2^24>>
Part(bytes, i, n) == SubSeq(bytes, i + 1, i + n)

\* u16::from_be and to_be
Swapped(n) == 2^8 * (n % 2^8) + n \div 2^8

\* Mutant: the machine's order.
PortUnswapped(raw) == raw % 2^16
\* parse_mib_port, and mib_port the other way
PortOf(raw) == Swapped(raw % 2^16)
MibPort(port) == Swapped(port)

\* ipv4_from_mib_addr, and mib_ipv4_addr the other way; ipv6_from_mib_addr
IPv4Of(raw) == Bytes32(raw)
MibAddr(octets) == U32(octets, 0)
IPv6Of(bytes) == [s \in 1 .. 8 |-> 2^8 * bytes[2 * s - 1] + bytes[2 * s]]

\* tcp_connection_row_layout
Layout(ipv6) ==
  IF ipv6
    THEN [size |-> 56, state |-> 0, local |-> 4, local_port |-> 20,
          remote |-> 24, remote_port |-> 40, pid |-> 52]
    ELSE [size |-> 24, state |-> 0, local |-> 4, local_port |-> 8,
          remote |-> 12, remote_port |-> 16, pid |-> 20]

\* TcpConnectionState::from_mib_state; of another number than those with a name, the last byte
StateOf(n) == [unknown |-> n \notin 1 .. 12, number |-> n % 2^8]
\* is_list_visible, is_disconnectable
Visible(state) == state.unknown \/ state.number \notin {1, 2, 11, 12}
Disconnectable(state) == ~state.unknown /\ state.number \in {4, 5, 6, 7, 8, 10}

\* A row of the table as a TcpConnection.
Connection(row, ipv6) ==
  LET l == Layout(ipv6)
      addr(i) == IF ipv6 THEN IPv6Of(Part(row, i, 16)) ELSE IPv4Of(U32(row, i))
      endpoint(a, p) == [addr |-> addr(a), port |-> PortOf(U32(row, p))]
  IN  [key |-> [local |-> endpoint(l.local, l.local_port),
                remote |-> endpoint(l.remote, l.remote_port), ipv6 |-> ipv6],
       pid |-> U32(row, l.pid), state |-> StateOf(U32(row, l.state))]

\* parse_tcp_connections: of the rows that the table says it has, those that it has
Connections(bytes, ipv6) ==
  LET size == Layout(ipv6).size
      there == (Len(bytes) - 4) \div size
      rows == IF U32(bytes, 0) <= there THEN U32(bytes, 0) ELSE there
      shown(c) == Visible(c.state) /\ c.pid # 0 /\ c.key.local.port # 0
  IN  IF Len(bytes) < 4 THEN {}
      ELSE {c \in {Connection(Part(bytes, 4 + (i - 1) * size, size), ipv6) : i \in 1 .. rows} : shown(c)}

\* encode_id, five parts with a bar between them, and decode_id
Encoded(id) ==
  <<IF id.ipv6 THEN "6" ELSE "4", id.local.addr, id.local.port, id.remote.addr, id.remote.port>>
Decoded(text) ==
  [local |-> [addr |-> text[2], port |-> text[3]], remote |-> [addr |-> text[4], port |-> text[5]],
   ipv6 |-> text[1] = "6"]

\* close_tcp_connection: the MIB_TCPROW that it gives to SetTcpEntry, 12 for DELETE_TCB
Closing(id) ==
  Bytes32(12) \o Bytes32(MibAddr(id.local.addr)) \o Bytes32(MibPort(id.local.port))
    \o Bytes32(MibAddr(id.remote.addr)) \o Bytes32(MibPort(id.remote.port))

\* refresh_connections and connections_for_pids: the list of a row, of which the window shows
\* the first MAX_VISIBLE_CONNECTIONS
ListedFor(pids, list) == {c \in list : c.pid \in pids}

\* to_ui_connection_row: what has a button, and what the button closes, by the text it has
Offered(c) == Disconnectable(c.state) /\ ~c.key.ipv6
ClosedBy(text) == IF Decoded(text).ipv6 THEN {} ELSE {Closing(Decoded(text))}

\* "Disconnect all" of the processes of a row: close_tcp_connections_for_pids, where an IPv6
\* connection is an error that is left out.
ClosedFor(pids, list) ==
  {Closing(c.key) : c \in {d \in list : d.pid \in pids /\ Disconnectable(d.state) /\ ~d.key.ipv6}}

(***************************************************************************)
(* External: the rows that Windows writes, MIB_TCPROW_OWNER_PID and        *)
(* MIB_TCP6ROW_OWNER_PID, for a connection with addresses in bytes.  Only  *)
(* two of the four bytes of a port mean something.                         *)
(***************************************************************************)
Port32(port, junk) == <<port \div 2^8, port % 2^8, junk, junk>>
SystemRow(c, junk) ==
  LET local_port == Port32(c.local_port, junk)
      remote_port == Port32(c.remote_port, junk)
  IN  IF c.ipv6
        THEN c.local \o Bytes32(0) \o local_port \o c.remote \o Bytes32(0) \o remote_port
               \o Bytes32(c.state) \o Bytes32(c.pid)
        ELSE Bytes32(c.state) \o c.local \o local_port \o c.remote \o remote_port \o Bytes32(c.pid)
=============================================================================
