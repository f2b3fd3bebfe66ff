----------------------------- MODULE MCFormats ------------------------------
(***************************************************************************)
(* What arrives is what was sent: a packet on its way from one client to   *)
(* another (PacketPath), packets on theirs from FastCollector to the       *)
(* listener (CaptureRing), a message (Cerealizer).  The three have no      *)
(* state in common: a behavior is about one of them, and there is nothing  *)
(* of the other two.                                                       *)
(***************************************************************************)
EXTENDS MCPacketPath, CaptureRing, Cerealizer

MCSizes == {100, 1515, 1601, 65636}

(* Messages of two items and at most four other objects: 2 is a list or a   *)
(* dictionary, 3 to 5 are tuples, 5 in 4 and 4 in 3; 3 may hold the list or *)
(* be in it; and each may be in several places.                             *)

Text == Raw("s", 4)
Number == Raw("i", 12)

Pair(set) == {<<v, w>> : v \in set, w \in set}

Lists == [class : {"list"}, items : Pair({Ref(3), Ref(4), Number})]
Dicts == [class : {"dict"}, items : {<<v, k>> : v \in {Ref(3), Ref(4), Number}, k \in {Ref(4), Text}}]

Has(h, o, p) == \E k \in DOMAIN h[o].items : h[o].items[k] = Ref(p)

\* No object is in itself.
MCMessages ==
    {h \in {<<m, d, t, u, [class |-> "tuple", items |-> <<None>>]>> :
            m \in [class : {"list"}, items : Pair({Ref(2), Ref(3), Ref(4)})],
            d \in Lists \cup Dicts,
            t \in [class : {"tuple"}, items : Pair({Ref(2), Ref(4), None})],
            u \in [class : {"tuple"}, items : {<<Text>>, <<Ref(5), Number>>}]} :
        ~(Has(h, 2, 3) /\ Has(h, 3, 2))}

\* The connection has ended before there was a message.
NoMessage ==
    /\ heap = << >> /\ collecting = << >> /\ objs = << >> /\ priorities_objs = << >>
    /\ wire = << >> /\ cut = "all"
    /\ reader = "ended" /\ at = 1 /\ id2obj = << >> /\ result = Raw("EndOfFile", 0)

\* A packet of no client has gone by.
NoPacket ==
    /\ alice = [private |-> "a", public |-> "a"] /\ bob = [private |-> "b", public |-> "b"]
    /\ knows = {} /\ frame = "raw" /\ tampered = {} /\ stage = "captured"
    /\ sent = Datagram(ICMP, << >>, 1, << >>) /\ net = sent

\* A client that captures nothing.
NoCapture ==
    /\ mem = [p \in 0..(PACKETS - 1) |-> Blank]
    /\ pos = 0 /\ count = 0 /\ packet = <<0, 0>> /\ collector = "exited"
    /\ read_pos = 0 /\ entry = Blank /\ listener = "complete" /\ delivered = <<>>

FormatsInit == \/ PathInit /\ NoMessage /\ NoCapture
               \/ MessageInit /\ NoPacket /\ NoCapture
               \/ Init /\ NoPacket /\ NoMessage

FormatsNext == \/ PathNext /\ UNCHANGED <<messageVars, vars>>
               \/ MessageNext /\ UNCHANGED <<pathVars, vars>>
               \/ Next /\ UNCHANGED <<pathVars, messageVars>>

FormatsSpec == FormatsInit /\ [][FormatsNext]_<<pathVars, messageVars, vars>>
=============================================================================
