------------------------------- MODULE Packet -------------------------------
(***************************************************************************)
(* What Packet.py makes of a captured packet: the parts of it that may     *)
(* change between two clients are cleared or put in a normal form, and     *)
(* what is left is hashed.                                                 *)
(*                                                                         *)
(* A packet is a record with one field per field of the headers, so the    *)
(* offsets of Packet.py are the names of fields here; a field that a       *)
(* protocol does not have is 0.  "payload" is the sequence of bytes after  *)
(* the transport header, "trailer" the number of bytes after the datagram  *)
(* with which the link filled up the frame.  A field takes a few small     *)
(* values, and the digest is the normalised packet itself: two packets     *)
(* have one hash if and only if they are normalised to the same packet.    *)
(***************************************************************************)
EXTENDS Integers, Sequences, SequencesExt

TCP  == "TCP"
UDP  == "UDP"
ICMP == "ICMP"

\* The protocols with two ports in front: TCP, UDP, SCTP and DCCP.
StdPortProtocols == {TCP, UDP, "SCTP", "DCCP"}

\* The shortest payload of an Ethernet frame.
MinPayload == 46

---------------------------------------------------------------------------
(* Lengths *)

\* The bytes of a TCP option: EOL and NOP have one, MSS has four, and SACK
\* eight for every block after its own two.
OptionLength(o) ==
    CASE o.kind \in {"EOL", "NOP"} -> 1
      [] o.kind = "SACK"           -> 2 + 8 * Len(o.blocks)
      [] OTHER                     -> 4

OptionsLength(os) == FoldLeft(LAMBDA n, o : n + OptionLength(o), 0, os)

HeaderLength(p) ==
    CASE p.proto = TCP -> 40 + OptionsLength(p.options)
      [] p.proto = UDP -> 28
      [] OTHER         -> 20

\* len(self.data) before the trailer is looked at.
WireLength(p) == HeaderLength(p) + Len(p.payload) + p.trailer

---------------------------------------------------------------------------
(* Link layer *)

\* Frames that the parser takes.  On Ethernet the two bytes of the type must
\* say IPv4; behind a VLAN tag they are compared the other way round, so that
\* no IPv4 packet passes.  Of the other link layers only the length is known.
Accepted(frame) == frame \notin {"vlan", "not IPv4"}

---------------------------------------------------------------------------
(* Normal form *)

Before(a, b) == a[1] < b[1] \/ (a[1] = b[1] /\ a[2] < b[2])

\* Bug: the whole of the MSS is cleared.
NormalOptionNoMss(o) ==
    CASE o.kind = "MSS"  -> [o EXCEPT !.low = 0, !.high = 0]
      [] o.kind = "SACK" -> [o EXCEPT !.blocks = SortSeq(o.blocks, Before)]
      [] OTHER           -> o

\* The low byte of the MSS and the order of SACK blocks do not count.
NormalOption(o) ==
    CASE o.kind = "MSS"  -> [o EXCEPT !.low = 0]
      [] o.kind = "SACK" -> [o EXCEPT !.blocks = SortSeq(o.blocks, Before)]
      [] OTHER           -> o

\* Options up to the end of the list of options: what follows an EOL is not
\* options and stays as it is.
NormalOptions(os) ==
    [i \in DOMAIN os |->
        IF \E j \in 1..i : os[j].kind = "EOL" THEN os[i] ELSE NormalOption(os[i])]

\* A trailer is recognised by the length of the frame alone.
HasTrailer(p) == p.total < MinPayload /\ WireLength(p) = MinPayload

\* normalize_data: type of service, TTL and header checksum are cleared; the
\* transport checksum of TCP only, and then the options; a trailer is cut.
Normalize(p) ==
    LET q == [p EXCEPT !.tos = 0, !.ttl = 0, !.csum = 0,
                       !.trailer = IF HasTrailer(p) THEN 0 ELSE p.trailer]
    IN  IF p.proto = TCP
        THEN [q EXCEPT !.tsum = 0, !.options = NormalOptions(p.options)]
        ELSE q

---------------------------------------------------------------------------
(* Flows *)

IsFragment(p) == p.mf # 0 \/ p.offset # 0

\* Packets with ports are told apart by them, the others get one port for all.
Port(p, port) == IF p.proto \in StdPortProtocols THEN port ELSE 65535

FlowAddr(p) == [src_ip |-> p.src, src_port |-> Port(p, p.sport),
                dest_ip |-> p.dst, dest_port |-> Port(p, p.dport), proto |-> p.proto]

\* Only the client's own packets are looked at, broadcasts are not.
IsLocalFlow(p, me) == me.private \in {p.src, p.dst}

---------------------------------------------------------------------------
(* Hash *)

\* A client is behind a firewall if the server sees it under another address
\* than it has itself.
Firewalled(host) == host.private # host.public

\* A peer that is not (or no longer) known is taken to be behind one.
PeerFirewalled(peer, known) == known => Firewalled(peer)

Outbound(p, me) == p.src = me.private

ZeroSourcePort(p) == IF p.proto \in StdPortProtocols THEN [p EXCEPT !.sport = 0] ELSE p
ZeroDestPort(p)   == IF p.proto \in StdPortProtocols THEN [p EXCEPT !.dport = 0] ELSE p

\* Our own side as the rest of the network sees it.
OwnSide(p, me) ==
    IF ~Firewalled(me) THEN p
    ELSE IF Outbound(p, me)
         THEN [ZeroSourcePort(p) EXCEPT !.src = me.public, !.id = 0]
         ELSE [ZeroDestPort(p)   EXCEPT !.dst = me.public, !.id = 0]

\* Bug: the side of the peer is mixed up.
PeerSideSwapped(p, outbound, firewalled) ==
    IF ~firewalled THEN p
    ELSE IF outbound THEN [ZeroSourcePort(p) EXCEPT !.id = 0]
         ELSE [ZeroDestPort(p) EXCEPT !.id = 0]

\* The other side as we can know it.
PeerSide(p, outbound, firewalled) ==
    IF ~firewalled THEN p
    ELSE IF outbound THEN [ZeroDestPort(p) EXCEPT !.id = 0]
         ELSE [ZeroSourcePort(p) EXCEPT !.id = 0]

\* The part of the hash that the server compares.  The identification of the
\* packet, which the client appends to it, is cut off before.
GetHash(p, me, firewalled) ==
    PeerSide(OwnSide(Normalize(p), me), Outbound(p, me), firewalled)
=============================================================================
