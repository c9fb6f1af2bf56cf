------------------------------ MODULE IpPacket ------------------------------
(***************************************************************************)
(* The parser of captured packets (flowbrake-windows, packet.rs): from the *)
(* bytes to the protocol, the ports and the length of the payload.         *)
(*                                                                         *)
(* A packet is a sequence of bytes; the code counts them from 0.  Reading  *)
(* beyond the last one is a panic there and an error of evaluation here.   *)
(* The addresses, which are copied, are left out.                          *)
(***************************************************************************)
EXTENDS Integers, Sequences

U8(bytes, i) == bytes[i + 1]
U16(bytes, i) == 256 * U8(bytes, i) + U8(bytes, i + 1)
HighNibble(b) == b \div 16
LowNibble(b) == b % 16

Tcp == 6
Udp == 17
Unparsed == [protocol |-> 0, source |-> 0, destination |-> 0, payload |-> 0]

\* transport_header_len; 0 for None
TransportHeader(bytes, protocol, offset, total) ==
  LET tcp == 4 * HighNibble(U8(bytes, offset + 12))
  IN  IF protocol = Tcp
        THEN IF offset + 20 > total \/ tcp < 20 \/ offset + tcp > total THEN 0 ELSE tcp
        ELSE IF offset + 8 > total THEN 0 ELSE 8

\* The end that parse_ipv4 and parse_ipv6 share.
Transport(bytes, protocol, offset, total) ==
  LET header == TransportHeader(bytes, protocol, offset, total)
  IN  IF protocol \notin {Tcp, Udp} \/ header = 0 THEN Unparsed
      ELSE [protocol |-> protocol,
            source |-> U16(bytes, offset), destination |-> U16(bytes, offset + 2),
            payload |-> total - (offset + header)]

\* Mutant: the length of the buffer stands for that of the packet.
IPv4Padded(bytes) ==
  LET ihl == 4 * LowNibble(U8(bytes, 0))
  IN  IF \/ Len(bytes) < 24 \/ HighNibble(U8(bytes, 0)) # 4
         \/ ihl + 4 > Len(bytes) \/ U16(bytes, 2) < ihl \/ U16(bytes, 2) > Len(bytes)
        THEN Unparsed
        ELSE Transport(bytes, U8(bytes, 9), ihl, Len(bytes))

\* parse_ipv4
IPv4(bytes) ==
  LET ihl == 4 * LowNibble(U8(bytes, 0))
      total == U16(bytes, 2)
  IN  IF \/ Len(bytes) < 24 \/ HighNibble(U8(bytes, 0)) # 4
         \/ ihl + 4 > Len(bytes) \/ total < ihl \/ total > Len(bytes)
        THEN Unparsed
        ELSE Transport(bytes, U8(bytes, 9), ihl, total)

Extensions == {0, 43, 44, 60, 51}

\* The length of an extension header; 51 counts words of four bytes.
ExtensionLength(next, code) == IF next = 51 THEN 4 * (code + 2) ELSE 8 * (code + 1)

None == <<0, 59>>

\* ipv6_transport_offset: a step over one header, of a place with an offset and a type
Passed(bytes, total, place) ==
  LET offset == place[1]
      next == place[2]
  IN  IF next \in {Tcp, Udp} THEN place
      ELSE IF next \notin Extensions \/ offset + 8 > total THEN None
      ELSE <<offset + ExtensionLength(next, U8(bytes, offset + 1)), U8(bytes, offset)>>

\* The place of the transport header, after as many steps as there may be headers.
Walk(bytes, total) ==
  LET after[n \in 0 .. total \div 8] ==
        IF n = 0 THEN <<40, U8(bytes, 6)>> ELSE Passed(bytes, total, after[n - 1])
  IN  after[total \div 8]

\* parse_ipv6
IPv6(bytes) ==
  LET total == 40 + U16(bytes, 4)
      found == Walk(bytes, total)
  IN  IF Len(bytes) < 40 \/ HighNibble(U8(bytes, 0)) # 6 \/ total > Len(bytes) THEN Unparsed
      ELSE IF found = None \/ found[1] + 4 > total THEN Unparsed
      ELSE Transport(bytes, found[2], found[1], total)

\* IpPacket::parse
Parse(bytes, ipv6) == IF ipv6 THEN IPv6(bytes) ELSE IPv4(bytes)

\* local_port
LocalPort(parsed, outbound) == IF outbound THEN parsed.source ELSE parsed.destination
=============================================================================
