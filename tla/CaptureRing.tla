---------------------------- MODULE CaptureRing ----------------------------
(***************************************************************************)
(* The capture path of a client.  FastCollector, a process of its own,     *)
(* writes the packets of pcap into a memory-mapped ring of entries; the    *)
(* PacketListener thread of the client polls the ring and takes them out.  *)
(* There is no lock between them: the valid byte of an entry, the last     *)
(* field written and the last one cleared, says whose it is.  Module       *)
(* Session starts and stops the two.                                       *)
(*                                                                         *)
(* An action reads or writes one field.  Stores are seen in program order, *)
(* as on x86; nothing in the code forces that elsewhere.  A packet is its  *)
(* number in the order of capture and its length on the wire.              *)
(***************************************************************************)
EXTENDS Naturals, Sequences, FiniteSets

CONSTANTS
    PACKETS,            \* entries of the ring
    MAX_PACKET_SIZE,    \* 1600, what an entry has room for
    MaxRead,            \* 1514, what read_one_packet accepts
    Captured,           \* BOUND: packets that pcap delivers
    Sizes               \* lengths of packets on the wire, in bytes

ASSUME CaptureConstants ==
    /\ PACKETS \in Nat \ {0} /\ Captured \in Nat
    /\ MaxRead \in Nat /\ MAX_PACKET_SIZE \in Nat
    /\ Sizes \subseteq Nat

VARIABLES
    mem,        \* position -> [valid, length, timestamp, data]
    pos, count, \* collector: its position, packets written
    packet,     \* the packet it is writing: <<number, length>>
    collector,  \* what the collector is about to do, or how it ended
    read_pos, entry,    \* listener: its position, what it has read of it
    listener,   \* what the listener is about to do, or how it ended
    delivered   \* history: what process_packet was called with

collectorVars == <<pos, count, packet, collector>>
listenerVars == <<read_pos, entry, listener, delivered>>
vars   == <<mem, collectorVars, listenerVars>>

Blank == [valid |-> FALSE, length |-> 0, timestamp |-> 0, data |-> <<0, 0>>]

\* handle_packet casts the length to unsigned short int.
Length(p) == p[2] % 65536

NextPos(p) == (p + 1) % PACKETS

-----------------------------------------------------------------------------
Init ==
    /\ mem = [p \in 0..(PACKETS - 1) |-> Blank]
    /\ pos = 0 /\ count = 0 /\ packet = <<0, 0>> /\ collector = "waiting"
    /\ read_pos = 0 /\ entry = Blank /\ listener = "polling"
    /\ delivered = <<>>

(* FastCollector *)

Failures == {"overflowed", "refused", "dropped"}

Running == collector \notin Failures \cup {"exited"}

\* Bug: trusts the listener to keep up.
WritePacketUnchecked ==
    /\ collector = "waiting" /\ count < Captured
    /\ \E n \in Sizes : packet' = <<count + 1, n>>
    /\ collector' = IF Length(packet') > MAX_PACKET_SIZE THEN "refused"
                    ELSE "length"
    /\ UNCHANGED <<mem, pos, count, listenerVars>>

\* write_packet is called: the entry must be free and the packet must fit.
WritePacket ==
    /\ collector = "waiting" /\ count < Captured
    /\ \E n \in Sizes : packet' = <<count + 1, n>>
    /\ collector' = IF mem[pos].valid THEN "overflowed"
                    ELSE IF Length(packet') > MAX_PACKET_SIZE THEN "refused"
                    ELSE "length"
    /\ UNCHANGED <<mem, pos, count, listenerVars>>

WriteLength ==
    /\ collector = "length" /\ collector' = "timestamp"
    /\ mem' = [mem EXCEPT ![pos].length = Length(packet)]
    /\ UNCHANGED <<pos, count, packet, listenerVars>>

WriteTimestamp ==
    /\ collector = "timestamp" /\ collector' = "data"
    /\ mem' = [mem EXCEPT ![pos].timestamp = packet[1]]
    /\ UNCHANGED <<pos, count, packet, listenerVars>>

WriteData ==
    /\ collector = "data" /\ collector' = "valid"
    /\ mem' = [mem EXCEPT ![pos].data = packet]
    /\ UNCHANGED <<pos, count, packet, listenerVars>>

WriteValid ==
    /\ collector = "valid" /\ collector' = "waiting"
    /\ mem' = [mem EXCEPT ![pos].valid = TRUE]
    /\ pos' = NextPos(pos) /\ count' = count + 1
    /\ UNCHANGED <<packet, listenerVars>>

\* pcap_stats says that the operating system dropped packets.
CheckForDrops ==
    /\ collector = "waiting" /\ collector' = "dropped"
    /\ UNCHANGED <<mem, pos, count, packet, listenerVars>>

\* The capture file is finished, or a signal tells the collector to stop,
\* whatever it is doing: "No packets were lost during capture."
HandleControlC ==
    /\ Running /\ collector' = "exited"
    /\ UNCHANGED <<mem, pos, count, packet, listenerVars>>

MainLoop == WritePacket \/ WriteLength \/ WriteTimestamp \/ WriteData
           \/ WriteValid \/ CheckForDrops \/ HandleControlC

-----------------------------------------------------------------------------
(* PacketListener.read_one_packet *)

Poll ==
    /\ listener = "polling"
    /\ listener' = IF mem[read_pos].valid THEN "length" ELSE "checking"
    /\ UNCHANGED <<mem, collectorVars, read_pos, entry, delivered>>

\* check_for_sniffer_error: is there anything on the collector's stderr, or
\* is it closed?  Only looked at when the listener has found no packet.
CheckForSnifferError ==
    /\ listener = "checking"
    /\ listener' = CASE collector = "exited" -> "complete"
                     [] Running -> "polling"
                     [] OTHER -> "error"
    /\ UNCHANGED <<mem, collectorVars, read_pos, entry, delivered>>

ReadLength ==
    /\ listener = "length"
    /\ entry' = [entry EXCEPT !.length = mem[read_pos].length]
    /\ listener' = IF mem[read_pos].length > MaxRead THEN "quit" ELSE "timestamp"
    /\ UNCHANGED <<mem, collectorVars, read_pos, delivered>>

ReadTimestamp ==
    /\ listener = "timestamp" /\ listener' = "data"
    /\ entry' = [entry EXCEPT !.timestamp = mem[read_pos].timestamp]
    /\ UNCHANGED <<mem, collectorVars, read_pos, delivered>>

ReadData ==
    /\ listener = "data" /\ listener' = "clear"
    /\ entry' = [entry EXCEPT !.data = mem[read_pos].data]
    /\ UNCHANGED <<mem, collectorVars, read_pos, delivered>>

\* The entry is the collector's again, and the packet goes to process_packet.
ClearValid ==
    /\ listener = "clear" /\ listener' = "polling"
    /\ mem' = [mem EXCEPT ![read_pos].valid = FALSE]
    /\ read_pos' = NextPos(read_pos)
    /\ delivered' = Append(delivered, entry)
    /\ UNCHANGED <<collectorVars, entry>>

Listen == Poll \/ CheckForSnifferError \/ ReadLength \/ ReadTimestamp
          \/ ReadData \/ ClearValid

-----------------------------------------------------------------------------
\* The two processes, each at its own speed.
Next == MainLoop \/ Listen
Spec == Init /\ [][Next]_vars

-----------------------------------------------------------------------------
(* The queue it implements *)

\* A packet as it was on the wire; and one too long for the field of its
\* length, of which no more than the rest of that length is kept.
Packets      == (1..Captured) \X Sizes
Wide(p)      == p[2] >= 65536
Whole(p)     == [valid |-> FALSE, length |-> p[2], timestamp |-> p[1], data |-> p]
Truncated(p) == [Whole(p) EXCEPT !.length = p[2] % 65536]

\* The k-th entry from the listener's position on; how many are in use.
Slot(k) == (read_pos + k - 1) % PACKETS
InUse   == Cardinality({p \in 0..(PACKETS - 1) : mem[p].valid})

\* What is in an entry, but for the byte that says whose it is.
Content(e) == [e EXCEPT !.valid = FALSE]

\* The ring is a queue of packets, all of them whole but the wide ones.
Queue == INSTANCE CaptureQueue WITH
    Packet   <- {IF Wide(p) THEN Truncated(p) ELSE Whole(p) : p \in Packets},
    Capacity <- PACKETS,
    waiting  <- [k \in 1..InUse |-> Content(mem[Slot(k)])],
    taken    <- delivered

\* Packets come out of the ring once and in order, and whole if they are less
\* than 64K long, however the two processes that share it without a lock take
\* turns.
ImplementsQueue == Queue!Spec
=============================================================================
