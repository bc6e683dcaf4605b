------------------------------- MODULE Packet -------------------------------
(***************************************************************************)
(* The packets of the obfuscator (obfs.c): how a datagram becomes a TCP    *)
(* segment of the fake connection and is found again in what the packet    *)
(* socket captures, and the filter that is attached to that socket.  Pure  *)
(* functions, over smaller headers, words and addresses than the real ones.*)
(*                                                                         *)
(* A packet is a record of the header fields that the code reads, with the *)
(* length of the whole as captured and the payload as a sequence of bytes. *)
(***************************************************************************)
EXTENDS Integers, Sequences, SequencesExt, FiniteSetsExt

CONSTANTS
  Byte,                  \* a byte is 0..Byte-1 (256), a word Byte * Byte values
  IpHdr,                 \* sizeof(struct iphdr), or ip6_hdr, in units of 4 bytes
  TcpHdr,                \* sizeof(struct tcphdr), likewise
  Hosts,                 \* host addresses, 0 is the unspecified one
  PortNumbers,           \* port numbers, 0 is none
  MaxPayload             \* bound on the bytes of a payload

ASSUME PacketAssumption ==
  /\ {Byte, IpHdr, TcpHdr} \subseteq Nat \ {0}
  /\ 0 \in Hosts /\ 0 \in PortNumbers
  /\ MaxPayload \in Nat

Word == Byte * Byte
LOOPBACK == Max(Hosts)

-----------------------------------------------------------------------------
(* Checksums, RFC 1071 *)

SumOf(words) == FoldLeft(LAMBDA a, b : a + b, 0, words)

\* The bytes as words in memory order; an odd one is followed by a zero byte.
Words(bytes) ==
  [i \in 1..((Len(bytes) + 1) \div 2) |->
     bytes[2 * i - 1] + Byte * (IF 2 * i <= Len(bytes) THEN bytes[2 * i] ELSE 0)]

\* (sum >> 16) + (sum & 0xffff)
Fold16(sum) == (sum \div Word) + (sum % Word)

\* The carries are folded in twice, then the complement is taken.
in_cksum_fin(sum, bytes) ==
  LET folded == Fold16(sum + SumOf(Words(bytes)))
  IN  (Word - 1) - ((folded + (folded \div Word)) % Word)

\* in_cksum of the pseudo header and of the TCP header, its checksum being zero.
in_cksum(p, plen) == SumOf(<<p.src, p.dst, plen, p.sport, p.dport, p.doff, p.psh>>)

-----------------------------------------------------------------------------
(* Opening and sealing *)

NotOurs == [off |-> -1, len |-> -1]

\* A wildcard is a host only: the port is always compared.
sa_matches(bound, p) == bound.port = p.dport /\ bound.host \in {0, p.dst}

\* What both obfs_open functions do once they know where the TCP header is.
OpenTcp(p, bound, ihl, plen) ==
  LET doff == p.doff * 4
  IN  IF /\ doff >= TcpHdr * 4 /\ plen >= doff
         /\ p.src = LOOPBACK \/ in_cksum_fin(in_cksum(p, plen), p.rest) = p.check
         /\ sa_matches(bound, p)
         /\ p.psh = 1
      THEN [off |-> ihl + doff, len |-> plen - doff]
      ELSE NotOurs

\* Bug: the length in the header is taken for what was captured.
obfs_open_ipv4_Trusting(p, bound) ==
  LET ihl == p.ihl * 4
      plen == p.length - ihl
  IN  IF /\ p.version = 4 /\ p.tcp
         /\ ihl >= IpHdr * 4 /\ p.length >= ihl
         /\ plen >= TcpHdr * 4
      THEN OpenTcp(p, bound, ihl, plen)
      ELSE NotOurs

\* The length in an IPv4 header is that of the whole packet.
obfs_open_ipv4(p, bound) ==
  LET ihl == p.ihl * 4
      plen == p.length - ihl
  IN  IF /\ p.version = 4 /\ p.tcp
         /\ ihl >= IpHdr * 4 /\ p.length >= ihl /\ p.len >= p.length
         /\ plen >= TcpHdr * 4
      THEN OpenTcp(p, bound, ihl, plen)
      ELSE NotOurs

\* The length in an IPv6 header is that of what follows it.
obfs_open_ipv6(p, bound) ==
  LET ihl == IpHdr * 4
  IN  IF /\ p.version = 6 /\ p.tcp
         /\ p.length >= TcpHdr * 4 /\ p.len >= ihl + p.length
      THEN OpenTcp(p, bound, ihl, p.length)
      ELSE NotOurs

obfs_open(domain, p, bound) ==
  IF domain = 4 THEN obfs_open_ipv4(p, bound) ELSE obfs_open_ipv6(p, bound)

\* The checksum of a segment that is otherwise complete.
SealTcp(p, plen) == [p EXCEPT !.check = in_cksum_fin(in_cksum(p, plen), p.rest)]

Segment(version, src, dst, payload) ==
  [version |-> version, tcp |-> TRUE, ihl |-> IpHdr, frag |-> 0,
   doff |-> TcpHdr, psh |-> 1, check |-> 0, rest |-> payload,
   src |-> src.host, dst |-> dst.host, sport |-> src.port, dport |-> dst.port,
   length |-> 0, len |-> (IpHdr + TcpHdr) * 4 + Len(payload)]

\* A payload is sent from one address of the fake connection to the other.
obfs_seal_ipv4(src, dst, payload) ==
  LET plen == TcpHdr * 4 + Len(payload)
  IN  SealTcp([Segment(4, src, dst, payload) EXCEPT !.length = IpHdr * 4 + plen], plen)

obfs_seal_ipv6(src, dst, payload) ==
  LET plen == TcpHdr * 4 + Len(payload)
  IN  SealTcp([Segment(6, src, dst, payload) EXCEPT !.length = plen], plen)

obfs_seal(domain, src, dst, payload) ==
  IF domain = 4 THEN obfs_seal_ipv4(src, dst, payload) ELSE obfs_seal_ipv6(src, dst, payload)

-----------------------------------------------------------------------------
(* The filter of the packet socket: a program for the kernel *)

JEQ(field, k, jt, jf) == [op |-> "jeq", field |-> field, k |-> k, jt |-> jt % 256, jf |-> jf % 256]
JSET(field, jt, jf) == [op |-> "jset", field |-> field, k |-> 0, jt |-> jt % 256, jf |-> jf % 256]
RET(k) == [op |-> "ret", field |-> "", k |-> k, jt |-> 0, jf |-> 0]

\* Version, protocol, not a later fragment, then port and host if they are given.
filter_compile_inet(sa) ==
  <<JEQ("version", 4, 0, -1), JEQ("tcp", TRUE, 0, -1), JSET("frag", -1, 0)>>
    \o (IF sa.port # 0 THEN <<JEQ("dport", sa.port, 0, -1)>> ELSE <<>>)
    \o (IF sa.host # 0 THEN <<JEQ("dst", sa.host, 0, -1)>> ELSE <<>>)

filter_compile_inet6(sa) ==
  <<JEQ("version", 6, 0, -1), JEQ("tcp", TRUE, 0, -1)>>
    \o (IF sa.port # 0 THEN <<JEQ("dport", sa.port, 0, -1)>> ELSE <<>>)
    \o (IF sa.host # 0 THEN <<JEQ("dst", sa.host, 0, -1)>> ELSE <<>>)

\* The fragments are linked: a jump by -1 (as a signed byte) becomes one to the
\* last instruction, which drops the packet.
filter_compile(version, sa) ==
  LET code == (IF version = 4 THEN filter_compile_inet(sa) ELSE filter_compile_inet6(sa))
                \o <<RET(TRUE), RET(FALSE)>>
      Link(j, i) == IF j >= 128 THEN (j + Len(code) - i) % 256 ELSE j
  IN  [i \in 1..Len(code) |-> [code[i] EXCEPT !.jt = Link(@, i), !.jf = Link(@, i)]]

\* The kernel: what the program says of a packet.
Accepts(prog, p) ==
  LET run[i \in 1..Len(prog)] ==
        LET c == prog[i]
        IN  IF c.op = "ret" THEN c.k
            ELSE LET holds == IF c.op = "jset" THEN p[c.field] # 0 ELSE p[c.field] = c.k
                 IN  run[i + 1 + (IF holds THEN c.jt ELSE c.jf)]
  IN  run[1]

-----------------------------------------------------------------------------
(* What is to be shown *)

Addresses == [host : Hosts, port : PortNumbers]
Ends == [host : Hosts \ {0}, port : PortNumbers \ {0}]
Payloads == UNION {[1..n -> 0..(Byte - 1)] : n \in 0..MaxPayload}

\* A packet that one end seals is opened by the other one at the payload, for
\* every address that it is bound to and every sum of the words, passes the filter
\* of its socket, and is not opened any more when a byte of the payload was changed
\* on the way (obfs_seal_*, obfs_open_*, in_cksum_fin).
SealedOpens ==
  \A domain \in {4, 6}, src, dst \in Ends, payload \in Payloads :
    LET p == obfs_seal(domain, src, dst, payload)
    IN  /\ \A bound \in {dst, [dst EXCEPT !.host = 0]} :
             /\ obfs_open(domain, p, bound) =
                  [off |-> (IpHdr + TcpHdr) * 4, len |-> Len(payload)]
             /\ Accepts(filter_compile(domain, bound), p)
        /\ src.host # LOOPBACK =>
             \A i \in DOMAIN payload, b \in 0..(Byte - 1) :
               b # payload[i] =>
                 obfs_open(domain, [p EXCEPT !.rest[i] = b], dst) = NotOurs

\* Whatever lengths a captured packet claims, the payload that is found is a part
\* of what was captured and does not overlap the headers (obfs_open_ipv4,
\* obfs_open_ipv6).
LengthsInBounds ==
  \A domain \in {4, 6}, ihl, doff \in 0..(TcpHdr + 1),
     length, len \in 0..((IpHdr + TcpHdr) * 4 + 2) :
    LET p == [Segment(domain, [host |-> LOOPBACK, port |-> 1], [host |-> 0, port |-> 0], <<>>)
                EXCEPT !.ihl = ihl, !.doff = doff, !.length = length, !.len = len]
        r == obfs_open(domain, p, [host |-> 0, port |-> 0])
    IN  \/ r = NotOurs
        \/ r.len >= 0 /\ r.off >= (IpHdr + TcpHdr) * 4 /\ r.off + r.len <= len

\* The compiled and linked filter lets through exactly the packets for the
\* address: TCP, not a later fragment, and the host and port that are given
\* (filter_compile and the jumps it links to the last instruction).
FilterExact ==
  \A version, family \in {4, 6}, bound, dst \in Addresses,
     tcp \in BOOLEAN, frag \in {0, 1} :
    LET p == [version |-> version, tcp |-> tcp, frag |-> frag,
              dst |-> dst.host, dport |-> dst.port]
    IN  Accepts(filter_compile(family, bound), p) <=>
          /\ version = family /\ tcp /\ (family = 4 => frag = 0)
          /\ bound.host \in {0, dst.host} /\ bound.port \in {0, dst.port}

=============================================================================
