----------------------------- MODULE PacketPath -----------------------------
(***************************************************************************)
(* The way of one packet from Alice to Bob: out of Alice's stack, past her *)
(* sniffer, through the NAT of her firewall, over routers and perhaps past *)
(* someone who tampers with it, through the NAT of Bob's firewall, into a  *)
(* frame of Bob's link and past his sniffer.  Both clients hash what they  *)
(* saw (module Packet); if the hashes differ Alice is shown a report of    *)
(* the differences (module PacketDiff).                                    *)
(*                                                                         *)
(* The network is not part of the program: it does here what the comments  *)
(* of Packet.py and PacketDiff.py say that networks do.                    *)
(***************************************************************************)
EXTENDS PacketDiff

CONSTANTS
    Datagrams,  \* packets as they leave Alice's stack, checksums not filled in
    Alices,     \* Alice's addresses: the one she has and the one she is known by
    Bobs,       \* Bob's addresses
    Frames,     \* link layers at Bob
    Tampers,    \* what may be done to a packet on its way
    MaxTampers  \* how many such changes one packet suffers at most

VARIABLES
    alice, bob, \* the two hosts
    knows,      \* the clients that know the other as a peer
    frame,      \* the link layer at Bob
    sent,       \* the packet as Alice's client captured it
    net,        \* the packet on its way
    stage,      \* how far it has come
    tampered    \* what was done to it

pathVars == <<alice, bob, knows, frame, sent, net, stage, tampered>>

---------------------------------------------------------------------------
(* Networks *)

\* The checksum of TCP and UDP covers addresses, ports and payload; UDP may go
\* without (the empty one).
Checksum(p) == <<p.src, p.dst, p.sport, p.dport, p.payload>>

Checksummed(p) == IF p.tsum = << >> THEN p ELSE [p EXCEPT !.tsum = Checksum(p)]

\* A NAT gives the sender or receiver behind it another port.
MappedPort(p, f) == IF p.proto \in StdPortProtocols THEN [p EXCEPT ![f] = @ + 2] ELSE p

Flip(x) == 1 - x

Toggle(set, x) == IF x \in set THEN set \ {x} ELSE set \cup {x}

ChangeOption(os, kind, f) ==
    [i \in DOMAIN os |-> IF os[i].kind = kind THEN [os[i] EXCEPT ![f] = Flip(@)] ELSE os[i]]

\* Hops of a router: the TTL goes down, the header checksum with it; the type
\* of service, the low byte of the MSS and the order of SACK blocks may change.
Routed(p, tos, low, order) ==
    [p EXCEPT !.ttl = @ - 1, !.csum = p.ttl, !.tos = tos,
              !.options = [i \in DOMAIN p.options |->
                  LET o == p.options[i]
                  IN  CASE o.kind = "MSS"            -> [o EXCEPT !.low = low]
                        [] o.kind = "SACK" /\ order  -> [o EXCEPT !.blocks = Reverse(@)]
                        [] OTHER                     -> o]]

\* A tampered packet is a whole packet: lengths and checksums are made to fit.
Tampered(p, f) ==
    CASE f \in {"id", "df", "mf", "seq", "ack", "window", "urgent"} -> [p EXCEPT ![f] = Flip(@)]
      [] f \in {"FIN", "ACK", "URG", "CWR"} -> [p EXCEPT !.flags = Toggle(@, f)]
      [] f = "reserved"     -> [p EXCEPT !.reserved = @ + 1]
      [] f = "top reserved" -> [p EXCEPT !.reserved = @ + 4]
      [] f = "mss"          -> [p EXCEPT !.options = ChangeOption(@, "MSS", "high")]
      [] f = "option"       -> [p EXCEPT !.options = ChangeOption(@, "other", "value")]
      [] f = "payload"      -> [p EXCEPT !.payload[1] = Flip(@)]
      [] f = "shorten"      -> [p EXCEPT !.payload = Front(@), !.total = @ - 1]
      [] f = "lengthen"     -> [p EXCEPT !.payload = Append(@, 0), !.total = @ + 1]

\* Ethernet fills up short frames; the trailer is not part of the datagram.
Padding(p, f) ==
    IF f = "ethernet" /\ p.total < MinPayload THEN MinPayload - p.total ELSE 0

---------------------------------------------------------------------------
(* Clients *)

\* A client looks at a packet if its parser takes it, it is no fragment and
\* the client is one end of it, and reports it if it knows the other end.
Reports(p, me, f) == Accepted(f) /\ ~IsFragment(p) /\ IsLocalFlow(p, me)

AliceReports == "alice" \in knows /\ Reports(sent, alice, "ethernet")
BobReports   == "bob" \in knows /\ stage = "captured" /\ Reports(net, bob, frame)

\* What both tell the server.
AliceHash == GetHash(sent, alice, PeerFirewalled(bob, "alice" \in knows))
BobHash   == GetHash(net, bob, PeerFirewalled(alice, "bob" \in knows))

\* What they announce of a flow that this packet opens.
Summary(p, hash) == [f_tuple |-> FlowAddr(p), opening_hash |-> hash]

\* What the server makes of it: it knows on which side of the flow the client
\* is, and puts the address that it sees the client under in its place.  (Both
\* ends are in the circle.)
PonderFlow(host, flow) ==
    LET f       == flow.f_tuple
        link_ip == IF Firewalled(host) THEN host.private ELSE host.public
    IN  IF f.src_ip = link_ip
        THEN <<host.public, f.dest_ip, flow.opening_hash>>
        ELSE <<f.src_ip, host.public, flow.opening_hash>>

AliceMTuple == PonderFlow(alice, Summary(sent, AliceHash))
BobMTuple   == PonderFlow(bob, Summary(net, BobHash))

\* What Alice's user is shown if the server accuses the network.
Shown == DiffReports({sent}, net)

---------------------------------------------------------------------------
(* Specification *)

\* Alice's interface fills in the checksum of TCP after the sniffer has seen it.
PathInit ==
    /\ alice \in Alices /\ bob \in Bobs
    /\ knows \in SUBSET {"alice", "bob"}
    /\ frame \in Frames
    /\ \E d \in Datagrams :
          LET p == [d EXCEPT !.src = alice.private, !.dst = bob.public,
                             !.total = HeaderLength(d) + Len(d.payload)]
          IN  /\ sent = (IF p.proto = TCP THEN p ELSE Checksummed(p))
              /\ net = Checksummed(p)
    /\ stage = "alice"
    /\ tampered = {}

Unchanged == UNCHANGED <<alice, bob, knows, frame, sent>>

\* Alice's firewall, if there is one, gives the packet its own address, a port
\* and perhaps an identification.
NatOut ==
    /\ stage = "alice"
    /\ IF Firewalled(alice)
       THEN \E id \in {0, 1} :
              net' = Checksummed([MappedPort(net, "sport") EXCEPT !.src = alice.public, !.id = id])
       ELSE net' = net
    /\ stage' = "outside"
    /\ Unchanged /\ UNCHANGED tampered

Route ==
    /\ stage = "outside"
    /\ \E tos \in {0, 1}, low \in {0, 1}, order \in BOOLEAN : net' = Routed(net, tos, low, order)
    /\ stage' = "between"
    /\ Unchanged /\ UNCHANGED tampered

Tamper(f) ==
    /\ stage = "between"
    /\ net.proto # TCP => f \in {"id", "df", "mf", "payload", "shorten", "lengthen"}
    /\ f \notin tampered
    /\ Cardinality(tampered) < MaxTampers
    /\ net.payload = << >> => f \notin {"payload", "shorten"}
    /\ {"payload", "shorten", "lengthen"} \cap tampered # {} =>
          f \notin {"payload", "shorten", "lengthen"}
    /\ net' = Checksummed(Tampered(net, f))
    /\ net' # net
    /\ tampered' = tampered \cup {f}
    /\ Unchanged /\ UNCHANGED stage

NatIn ==
    /\ stage = "between"
    /\ IF Firewalled(bob)
       THEN \E id \in {0, 1} :
              net' = Checksummed([MappedPort(net, "dport") EXCEPT !.dst = bob.private, !.id = id])
       ELSE net' = net
    /\ stage' = "inside"
    /\ Unchanged /\ UNCHANGED tampered

Capture ==
    /\ stage = "inside"
    /\ net' = [net EXCEPT !.trailer = Padding(net, frame)]
    /\ stage' = "captured"
    /\ Unchanged /\ UNCHANGED tampered

PathNext == NatOut \/ Route \/ (\E f \in Tampers : Tamper(f)) \/ NatIn \/ Capture

PathSpec == PathInit /\ [][PathNext]_pathVars

---------------------------------------------------------------------------
(* Properties *)

\* A packet nobody tampered with has the same hash at both ends, whatever
\* NATs, routers and links have done to it, so the network is not accused; and
\* the flow that it opens is one flow for the server, whoever announces it.
InnocentPacketsMatch ==
    AliceReports /\ BobReports /\ tampered = {} =>
        AliceHash = BobHash /\ AliceMTuple = BobMTuple

\* The identification of a packet that crosses a firewall is not hashed.
Covered == Tampers \ (IF Firewalled(alice) \/ Firewalled(bob) THEN {"id"} ELSE {})

\* A packet that was tampered with is noticed: its hash is another one, or Bob's
\* client does not take it and the packet that Alice sent is missing.
TamperingShows ==
    AliceReports /\ "bob" \in knows /\ stage = "captured" /\ Accepted(frame)
        /\ tampered \cap Covered # {}
    => ~BobReports \/ AliceHash # BobHash

\* The parts of a TCP packet that differ, but for those that are expected to;
\* under the names that the report should have.  The last four are not, or not
\* rightly, reported.
Differences ==
    LET differs(f) == sent[f] # net[f]
    IN       {f \in {"tos", "total", "id", "seq", "ack", "window", "urgent", "options", "payload"} :
                 differs(f)}
        \cup {"fragment offset" : x \in {f \in {"df", "mf"} : differs(f)}}
        \cup ((sent.flags \cup net.flags) \ (sent.flags \cap net.flags))
        \cup {"header length" : x \in {f \in {"options"} :
                 OptionsLength(sent.options) # OptionsLength(net.options)}}
        \cup {"shortened" : x \in {f \in {"total"} : sent.total > net.total}}

BlindSpots == {"reserved", "top reserved", "URG", "CWR"}

\* If the forged packet has the identification of the one that was sent, the
\* report names exactly the fields that differ: what was tampered with, and
\* what routers did to it besides; and it is never empty for a packet that was
\* tampered with.
ReportsAreExact ==
    AliceReports /\ BobReports /\ AliceHash # BobHash
        /\ sent.proto = TCP /\ tampered \cap BlindSpots = {} =>
      /\ Shown = IF sent.id = net.id THEN {Differences} ELSE {{"injected"}}
      /\ {} \notin Shown
=============================================================================
