---------------------------- MODULE MCPacketPath ----------------------------
EXTENDS PacketPath

\* A packet of the given protocol: n bytes of payload and, for UDP, a checksum
\* or none.
Datagram(proto, options, n, tsum) ==
    [tos |-> 0, total |-> 0, id |-> 0, df |-> 0, mf |-> 0, offset |-> 0, ttl |-> 9, csum |-> 9,
     proto |-> proto, src |-> "", dst |-> "", sport |-> 1, dport |-> 1,
     seq |-> 0, ack |-> 0, reserved |-> 0, flags |-> {"ACK"}, window |-> 0,
     tsum |-> tsum, urgent |-> 0, options |-> options,
     payload |-> [i \in 1..n |-> 0], trailer |-> 0]

Mss   == [kind |-> "MSS", high |-> 1, low |-> 1]
Sack  == [kind |-> "SACK", blocks |-> << <<5, 7>>, <<2, 3>> >>]
Other == [kind |-> "other", value |-> 0]
Nop   == [kind |-> "NOP"]
Eol   == [kind |-> "EOL"]

\* TCP segments of 45, 46 and 47 bytes, one without payload, and options.
MCTcp == {Datagram(TCP, << >>, n, <<"offload">>) : n \in {0, 5, 6, 7}}
    \cup {Datagram(TCP, os, 1, <<"offload">>) : os \in
            {<<Mss>>, <<Nop, Mss, Eol>>, <<Sack, Other>>, <<Other, Nop, Sack>>}}

MCDatagrams == MCTcp
    \cup {Datagram(UDP, << >>, n, << >>) : n \in {1, 18}}
    \cup {Datagram(ICMP, << >>, n, << >>) : n \in {1, 27}}

MCUdp == {Datagram(UDP, << >>, 1, <<"filled in">>)}

MCAlices == {[private |-> "a", public |-> "a"], [private |-> "10.a", public |-> "a"]}
MCBobs   == {[private |-> "b", public |-> "b"], [private |-> "10.b", public |-> "b"]}
MCFrames == {"ethernet", "raw"}
MCTampers == {"id", "df", "mf", "seq", "ack", "window", "urgent", "FIN", "ACK", "URG", "CWR",
              "reserved", "top reserved", "mss", "option", "payload", "shorten", "lengthen"}
=============================================================================
