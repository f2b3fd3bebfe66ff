----------------------------- MODULE PacketDiff -----------------------------
(***************************************************************************)
(* What a client tells its user about a modified packet: PacketDiffer      *)
(* compares the packet that was sent with the one that was received, field *)
(* by field, and names the fields that differ.  A report is the set of the *)
(* names in it.                                                            *)
(***************************************************************************)
EXTENDS Packet, FiniteSets

\* The flags of TCP from the lowest bit, and the names that the code has for
\* them.  URG is missing from the list, so that what follows is off by one.
FlagBits  == <<"FIN", "SYN", "RST", "PSH", "ACK", "URG", "ECE", "CWR">>
FlagNames == <<"FIN", "SYN", "RST", "PSH", "ACK", "ECE", "CWR">>

\* handle_tcp_flags
FlagReport(a, b) ==
    {FlagNames[i] : i \in {k \in DOMAIN FlagNames : (FlagBits[k] \in a) # (FlagBits[k] \in b)}}

\* handle_total_lengths: the second condition is the first one again, so only
\* a packet that became shorter is reported.
LengthReport(a, b) ==
    IF WireLength(Normalize(a)) > WireLength(Normalize(b)) THEN {"shortened"} ELSE {}

\* Bug: the addresses, which a NAT changes, are compared.
IpReportOfAddresses(a, b) == {f \in {"tos", "total", "id", "proto", "src", "dst"} : a[f] # b[f]}

\* ip_hdr_fields: type of service, total length, identification and protocol.
IpReport(a, b) == {f \in {"tos", "total", "id", "proto"} : a[f] # b[f]}

\* The two bytes of flags and fragment offset are one field.
FragmentReport(a, b) ==
    IF <<a.df, a.mf, a.offset>> # <<b.df, b.mf, b.offset>> THEN {"fragment offset"} ELSE {}

\* The byte with the data offset is shifted right by two, so that the upper
\* two of the four reserved bits count as bytes of the header.
Shift(p) == p.reserved \div 4

TcpHeaderLength(p) == 20 + OptionsLength(p.options) + Shift(p)

\* Options and payload as they are cut out with that length.
TcpOptions(p) == <<p.options, SubSeq(p.payload, 1, Shift(p))>>
TcpPayload(p) == SubSeq(p.payload, Shift(p) + 1, Len(p.payload))

OptionReport(a, b) ==
    IF TcpHeaderLength(a) > 20 \/ TcpHeaderLength(b) > 20
    THEN IF TcpOptions(a) # TcpOptions(b) THEN {"options"} ELSE {}
    ELSE {}

\* handle_tcp_offset_etc: the reserved bits of the sent packet are compared
\* with themselves and never reported.
OffsetReport(a, b) ==
    IF TcpHeaderLength(a) # TcpHeaderLength(b) THEN {"header length"} ELSE {}

\* diff_tcp
TcpReport(a, b) ==
         {f \in {"seq", "ack", "window", "urgent"} : a[f] # b[f]}
    \cup OffsetReport(a, b)
    \cup FlagReport(a.flags, b.flags)
    \cup OptionReport(a, b)
    \cup (IF TcpPayload(a) # TcpPayload(b) THEN {"payload"} ELSE {})

\* diff_other_transport_layer: what is compared is the IP header once more,
\* and not what follows it.
OtherReport(a, b) ==
    IF \E f \in {"tos", "total", "id", "df", "mf", "offset", "ttl", "csum", "proto", "src", "dst"} :
            a[f] # b[f]
    THEN {"transport layer data"} ELSE {}

\* diff
Diff(a, b) ==
         LengthReport(a, b) \cup IpReport(a, b) \cup FragmentReport(a, b)
    \cup IF a.proto = TCP /\ b.proto = TCP THEN TcpReport(a, b) ELSE OtherReport(a, b)

\* get_fo_context_and_diff compares the forged packet with every packet that
\* was sent with its identification; without any it is said to be injected.
DiffReports(sent, forged) ==
    LET same == {p \in sent : p.id = forged.id}
    IN  IF same = {} THEN {{"injected"}} ELSE {Diff(p, forged) : p \in same}
=============================================================================
