-------------------------------- MODULE Wire --------------------------------
(***************************************************************************)
(* What comes from outside: packets as they are put together from their    *)
(* headers, and tables of TCP connections as Windows writes them, for any  *)
(* parts; and that IpPacket and TcpTable read them as what they were made  *)
(* of.  Sizes are those of the protocols and of the system's structures,   *)
(* not those that the code computes.                                       *)
(*                                                                         *)
(* Bytes that no reader may depend on are all the same, `fill`, which may  *)
(* be any; those of a fragment's place are 0: packets are whole.           *)
(***************************************************************************)
EXTENDS PortTable, TcpTable

CONSTANTS
  Packets,   \* the packets, by their parts
  Tables     \* the tables of connections, by theirs

Byte == 0 .. 255
MaxWord == 65535
Word == 0 .. MaxWord
Long == {n \in Nat : n \div 2^24 \in Byte}
Octets == Byte \X Byte \X Byte \X Byte

Bytes16(n) == <<n \div 256, n % 256>>
Filled(n, fill) == [i \in 1 .. n |-> fill]

-----------------------------------------------------------------------------
(* Packets. *)

\* A TCP header has a number of words of four bytes; one that says less than five has five.
TransportSize(p) ==
  IF p.protocol = Tcp THEN IF p.words < 5 THEN 20 ELSE 4 * p.words ELSE 8
TransportBytes(p) ==
  Bytes16(p.source) \o Bytes16(p.destination)
    \o (IF p.protocol = Tcp THEN Filled(8, p.fill) \o <<16 * p.words>> \o Filled(TransportSize(p) - 13, p.fill)
        ELSE Filled(4, p.fill))
    \o p.payload

\* IPv4, with options when its header has more than five words.
Whole4(p) == 4 * p.ihl + TransportSize(p) + Len(p.payload)
Bytes4(p) ==
  <<64 + p.ihl, p.fill>> \o Bytes16(Whole4(p)) \o <<p.fill, p.fill, 0, 0, p.fill, p.protocol>>
    \o Filled(4 * p.ihl - 10, p.fill) \o TransportBytes(p)

\* An extension header: a fragment's has one size, that of authentication (51) counts words of
\* four bytes less two, the others count words of eight bytes less one.
HeaderSize(h) ==
  IF h.type = 44 THEN 8 ELSE IF h.type = 51 THEN 4 * (h.code + 2) ELSE 8 * (h.code + 1)
HeaderBytes(h, next, fill) ==
  <<next, h.code>> \o Filled(HeaderSize(h) - 2, IF h.type = 44 THEN 0 ELSE fill)

\* IPv6: what follows n of the extension headers, from the last one back.
NextType(p, n) == IF n < Len(p.headers) THEN p.headers[n + 1].type ELSE p.protocol
Behind(p) ==
  LET last == Len(p.headers)
      rest[n \in 0 .. last] ==
        IF n = 0 THEN TransportBytes(p)
        ELSE HeaderBytes(p.headers[last - n + 1], NextType(p, last - n + 1), p.fill) \o rest[n - 1]
  IN  rest[last]
Bytes6(p) ==
  <<96, p.fill, p.fill, p.fill>> \o Bytes16(Len(Behind(p))) \o <<NextType(p, 0), p.fill>>
    \o Filled(32, p.fill) \o Behind(p)

BytesOf(p) == IF p.ipv6 THEN Bytes6(p) ELSE Bytes4(p)

\* A length has two bytes; a header that can be skipped is none that ends the chain.
ExtensionHeader == {h \in [type : Extensions, code : Byte] : h.type = 44 => h.code = 0}
Packet ==
  {p \in [ipv6 : BOOLEAN, ihl : 5 .. 15, headers : Seq(ExtensionHeader), protocol : Byte,
          words : 0 .. 15, source : Word, destination : Word, payload : Seq(Byte),
          padding : Seq(Byte), fill : Byte, outbound : BOOLEAN] :
     IF p.ipv6 THEN Len(Behind(p)) <= MaxWord /\ p.protocol \notin Extensions
     ELSE Whole4(p) <= MaxWord}

\* What the parser should say of a packet, and what its process should be looked up by.
Told(p) ==
  IF p.protocol \notin {Tcp, Udp} \/ (p.protocol = Tcp /\ p.words < 5) THEN Unparsed
  ELSE [protocol |-> p.protocol, source |-> p.source, destination |-> p.destination,
        payload |-> Len(p.payload)]
TrueKey(p) ==
  [protocol |-> p.protocol, port |-> IF p.outbound THEN p.source ELSE p.destination, ipv6 |-> p.ipv6]

\* A packet is read as what it was made of, with whatever padding behind it, and its key is by
\* its local port; as the other version, or cut short anywhere, it is not read at all.
ReadRight(p) ==
  LET bytes == BytesOf(p)
      captured == bytes \o p.padding
  IN  /\ Parse(captured, p.ipv6) = Told(p)
      /\ Told(p) # Unparsed
           => KeyOf([bytes |-> captured, ipv6 |-> p.ipv6, outbound |-> p.outbound]) = TrueKey(p)
      /\ Parse(captured, ~p.ipv6) = Unparsed
      /\ \A n \in 0 .. Len(bytes) - 1 : Parse(SubSeq(bytes, 1, n), p.ipv6) = Unparsed

-----------------------------------------------------------------------------
(* Tables of TCP connections. *)

RowSize(ipv6) == IF ipv6 THEN 56 ELSE 24
Address(ipv6) == IF ipv6 THEN [1 .. 16 -> Byte] ELSE Octets
Socket(ipv6) ==
  [ipv6 : {ipv6}, local : Address(ipv6), local_port : Word, remote : Address(ipv6),
   remote_port : Word, state : Long, pid : Long]

\* The number of rows and the rows, as many bytes as the buffer has; what is behind them is junk.
RowOf(t, i) ==
  IF i <= Len(t.sockets) THEN SystemRow(t.sockets[i], t.junk) ELSE Filled(RowSize(t.ipv6), t.junk)
TableBytes(t) ==
  LET size == RowSize(t.ipv6)
  IN  [i \in 1 .. t.length |->
         IF i <= 4 THEN Bytes32(Len(t.sockets))[i]
         ELSE RowOf(t, ((i - 5) \div size) + 1)[((i - 5) % size) + 1]]

TableOf(ipv6) ==
  {t \in [ipv6 : {ipv6}, sockets : Seq(Socket(ipv6)), junk : Byte, length : Nat] :
     Len(t.sockets) \in Long}

ASSUME WireAssumption == Packets \subseteq Packet /\ Tables \subseteq TableOf(FALSE) \cup TableOf(TRUE)

\* The sockets that have a whole row in the buffer and belong into a list: of a process, with a
\* port, and a connection that is or was.
ListedSockets(t) ==
  {t.sockets[i] : i \in {i \in 1 .. Len(t.sockets) :
     /\ 4 + i * RowSize(t.ipv6) <= t.length
     /\ Visible(StateOf(t.sockets[i].state)) /\ t.sockets[i].pid # 0 /\ t.sockets[i].local_port # 0}}

\* What the list should say of a socket.
Truth(s) ==
  LET addr(bytes) == IF s.ipv6 THEN IPv6Of(bytes) ELSE bytes
  IN  [key |-> [local |-> [addr |-> addr(s.local), port |-> s.local_port],
                remote |-> [addr |-> addr(s.remote), port |-> s.remote_port], ipv6 |-> s.ipv6],
       pid |-> s.pid, state |-> StateOf(s.state)]

\* The row by which a socket is closed: what the system writes of one in state 12, DELETE_TCB,
\* without its process.
Deleting(s) == SubSeq(SystemRow([s EXCEPT !.state = 12], 0), 1, 20)

ListRight(t) == Connections(TableBytes(t), t.ipv6) = {Truth(s) : s \in ListedSockets(t)}

\* The button of a connection closes that one, by the text that the window has of it; and all of
\* the processes of a row are in its list, of which the window may show only some, and are closed
\* together, and none of another.
CloseRight(t) ==
  LET list == Connections(TableBytes(t), FALSE)
      open == ListedSockets(t)
  IN  /\ \A s \in open : Offered(Truth(s)) => ClosedBy(Encoded(Truth(s).key)) = {Deleting(s)}
      /\ \A pids \in SUBSET {s.pid : s \in open} :
           /\ ListedFor(pids, list) = {Truth(s) : s \in {o \in open : o.pid \in pids}}
           /\ ClosedFor(pids, list) =
                {Deleting(s) : s \in {o \in open : o.pid \in pids /\ Disconnectable(StateOf(o.state))}}

-----------------------------------------------------------------------------
(* Properties. *)

Misparsed == {p \in Packets : ~ReadRight(p)}
Misdirected == {t \in Tables : ~t.ipv6 /\ ~(ListRight(t) /\ CloseRight(t))}
Mislisted6 == {t \in Tables : t.ipv6 /\ ~ListRight(t)}

\* Whatever headers lie between them, the parser finds the ports and the length of the payload
\* that a packet has, and nothing in one that is cut short or of a kind it does not know; the
\* process is looked up by the local port, whenever the receive thread is ready for a packet.
ParsedRight == at = "ready" => Misparsed = {}

\* The list of IPv4 connections says of each what the system says, however many rows are there,
\* and what is disconnected is that connection and no other (parse_tcp_connections, decode_id,
\* close_tcp_connection), whatever the receive thread does meanwhile.
DisconnectRight == at # "start" => Misdirected = {}

\* The list of IPv6 connections says of each what the system says: "IPv6 connections can be
\* listed" (README.md:377; parse_tcp_connections), whatever the receive thread does meanwhile.
ListedRight6 == at # "start" => Mislisted6 = {}
=============================================================================
