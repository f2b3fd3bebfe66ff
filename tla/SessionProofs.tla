---------------------------- MODULE SessionProofs ----------------------------
(***************************************************************************)
(* Proofs about CaptureRing and Session.  The ring between FastCollector   *)
(* and PacketListener is a bounded queue of whole packets, for every size  *)
(* of the ring, every number of packets and all lengths of packets, but    *)
(* for those too long for the field of their length: each process may be   *)
(* between any two of its fields while the other goes on.                  *)
(* It is that queue for as long as the client lives, and what the client   *)
(* leaves behind when it exits is what it should, whichever of its two     *)
(* threads cleans up, or both of them, unless one of the troubles that the *)
(* properties name was met.                                                *)
(***************************************************************************)
EXTENDS Session, FiniteSetTheorems, SequenceTheorems, TLAPS

-----------------------------------------------------------------------------
(* The ring *)

Position == 0..(PACKETS - 1)
Entry    == [valid : BOOLEAN, length : {0} \cup {Length(p) : p \in Nat \X Nat},
             timestamp : Nat, data : Nat \X Nat]

RingTypeOK ==
    /\ mem \in [Position -> Entry]
    /\ pos \in Position /\ count \in 0..Captured /\ packet \in Nat \X Nat
    /\ collector \in {"waiting", "length", "timestamp", "data", "valid", "exited"} \cup Failures
    /\ read_pos \in Position /\ entry \in Entry
    /\ listener \in {"polling", "checking", "length", "timestamp", "data", "clear",
                     "quit", "complete", "error"}

\* The entries in use are those from read_pos on, without a gap, and pos comes
\* after them.
InOrder ==
    /\ \A k \in 1..PACKETS : mem[Slot(k)].valid <=> k <= InUse
    /\ pos = (read_pos + InUse) % PACKETS

\* The collector writes into an entry that is not in use, and what it has
\* written of it is of the packet it is writing.
Writing == {"length", "timestamp", "data", "valid"}

WritesWhole ==
    /\ collector \in Writing => packet \in Packets /\ ~mem[pos].valid /\ count < Captured
    /\ collector \in {"timestamp", "data", "valid"} => mem[pos].length = Length(packet)
    /\ collector \in {"data", "valid"} => mem[pos].timestamp = packet[1]
    /\ collector = "valid" => mem[pos].data = packet

\* The listener reads an entry that is in use, and what it has read is in it.
ReadsWhole ==
    /\ entry.valid = FALSE
    /\ listener \in {"length", "timestamp", "data", "clear"} => mem[read_pos].valid
    /\ listener \in {"timestamp", "data", "clear"} => entry.length = mem[read_pos].length
    /\ listener \in {"data", "clear"} => entry.timestamp = mem[read_pos].timestamp
    /\ listener = "clear" => entry.data = mem[read_pos].data

RingInv == RingTypeOK /\ InOrder /\ WritesWhole /\ ReadsWhole

-----------------------------------------------------------------------------
(* Lemmas about positions *)

\* What is less than twice the size of the ring wraps at most once.
LEMMA WrapsOnce ==
    ASSUME NEW n \in Nat, n < 2 * PACKETS
    PROVE  n % PACKETS = IF n < PACKETS THEN n ELSE n - PACKETS
<1>1. PACKETS \in Nat /\ PACKETS > 0
  BY CaptureConstants
<1>2. CASE n < PACKETS
  BY <1>1, <1>2
<1>3. CASE n >= PACKETS
  <2>1. n = PACKETS * 1 + (n - PACKETS) /\ 0 <= n - PACKETS /\ n - PACKETS < PACKETS
    BY <1>1, <1>3
  <2> QED
    BY <1>1, <1>3, <2>1
<1> QED
  BY <1>1, <1>2, <1>3

\* A position is followed by the next, and the last by the first.
LEMMA NextPosIs ==
    ASSUME NEW p \in Position
    PROVE  NextPos(p) \in Position /\ NextPos(p) = IF p + 1 = PACKETS THEN 0 ELSE p + 1
  BY WrapsOnce, CaptureConstants DEF NextPos, Position

\* The slots go once around the ring.
LEMMA SlotsAre ==
    ASSUME read_pos \in Position
    PROVE  /\ \A k \in 1..PACKETS :
                Slot(k) \in Position
                /\ Slot(k) = IF read_pos + k <= PACKETS THEN read_pos + k - 1
                                                        ELSE read_pos + k - 1 - PACKETS
           /\ \A k, j \in 1..PACKETS : Slot(k) = Slot(j) => k = j
           /\ \A p \in Position : \E k \in 1..PACKETS : Slot(k) = p
<1>0. PACKETS \in Nat /\ PACKETS > 0 /\ read_pos \in Nat /\ read_pos < PACKETS
  BY CaptureConstants DEF Position
<1>1. ASSUME NEW k \in 1..PACKETS
      PROVE  /\ Slot(k) \in Position
             /\ Slot(k) = IF read_pos + k <= PACKETS THEN read_pos + k - 1
                                                     ELSE read_pos + k - 1 - PACKETS
  <2>1. read_pos + k - 1 \in Nat /\ read_pos + k - 1 < 2 * PACKETS
    BY <1>0
  <2> QED
    BY <1>0, <2>1, WrapsOnce DEF Slot, Position
<1>2. ASSUME NEW p \in Position
      PROVE  \E k \in 1..PACKETS : Slot(k) = p
  <2> DEFINE k == IF p >= read_pos THEN p - read_pos + 1 ELSE p - read_pos + 1 + PACKETS
  <2>1. k \in 1..PACKETS
    BY <1>0 DEF Position
  <2>2. Slot(k) = p
    BY <1>0, <1>1, <2>1 DEF Position
  <2> QED
    BY <2>1, <2>2
<1> QED
  BY <1>0, <1>1, <1>2

Valid == {p \in Position : mem[p].valid}

\* As many entries are in use as are valid, at most all of them.
LEMMA InUseCounts ==
    /\ InUse = Cardinality(Valid)
    /\ IsFiniteSet(Valid) /\ InUse \in 0..PACKETS
<1>1. PACKETS \in Nat /\ PACKETS > 0
  BY CaptureConstants
<1>2. IsFiniteSet(Position) /\ Cardinality(Position) = PACKETS
  <2>1. IsFiniteSet(0..(PACKETS - 1))
        /\ Cardinality(0..(PACKETS - 1)) = IF 0 > PACKETS - 1 THEN 0 ELSE (PACKETS - 1) - 0 + 1
    BY <1>1, FS_Interval
  <2> QED
    BY <1>1, <2>1 DEF Position
<1>3. IsFiniteSet(Valid) /\ Cardinality(Valid) \in Nat /\ Cardinality(Valid) <= PACKETS
  BY <1>2, FS_Subset, FS_CardinalityType DEF Valid
<1> QED
  BY <1>1, <1>3 DEF InUse, Valid, Position

-----------------------------------------------------------------------------
(* The invariant *)

\* The ring is empty at first.
LEMMA InitRing == Init => RingInv
<1> SUFFICES ASSUME Init
             PROVE  RingInv
  OBVIOUS
<1>1. PACKETS \in Nat /\ PACKETS > 0 /\ Captured \in Nat
  BY CaptureConstants
<1>2. RingTypeOK
  BY <1>1 DEF Init, RingTypeOK, Position, Entry, Blank
<1>3. InUse = 0
  <2>1. Valid = {}
    BY DEF Init, Valid, Position, Blank
  <2> QED
    BY <2>1, InUseCounts, FS_EmptySet
<1>4. InOrder
  <2>1. \A k \in 1..PACKETS : Slot(k) \in Position
    BY <1>2, SlotsAre DEF RingTypeOK
  <2>2. \A k \in 1..PACKETS : ~mem[Slot(k)].valid
    BY <2>1 DEF Init, Position, Blank
  <2>3. pos = (read_pos + InUse) % PACKETS
    BY <1>1, <1>3, WrapsOnce DEF Init
  <2> QED
    BY <1>1, <1>3, <2>2, <2>3 DEF InOrder
<1>5. WritesWhole /\ ReadsWhole
  BY <1>1 DEF Init, WritesWhole, ReadsWhole, Writing, Blank
<1> QED
  BY <1>2, <1>4, <1>5 DEF RingInv

\* If an entry is written but for its valid byte, the order stays.
LEMMA SameUse ==
    ASSUME RingInv, read_pos' = read_pos, pos' = pos, mem' \in [Position -> Entry],
           \A p \in Position : mem'[p].valid = mem[p].valid
    PROVE  InUse' = InUse /\ InOrder'
<1>1. InUse' = InUse
  BY DEF InUse, Position
<1>2. \A k : Slot(k)' = Slot(k)
  BY DEF Slot
<1> QED
  BY <1>1, <1>2, SlotsAre DEF InOrder, RingInv, RingTypeOK

\* The collector's position is the slot after those in use.
LEMMA PosIsNext ==
    ASSUME RingInv
    PROVE  /\ InUse < PACKETS => pos = Slot(InUse + 1) /\ ~mem[pos].valid
           /\ InUse = PACKETS => mem[pos].valid
<1>1. PACKETS \in Nat /\ PACKETS > 0 /\ read_pos \in Nat /\ read_pos < PACKETS /\ InUse \in 0..PACKETS
  BY CaptureConstants, InUseCounts DEF RingInv, RingTypeOK, Position
<1>2. pos = (read_pos + InUse) % PACKETS
  BY DEF RingInv, InOrder
<1>3. CASE InUse < PACKETS
  <2>1. pos = Slot(InUse + 1)
    BY <1>1, <1>2 DEF Slot
  <2> QED
    BY <1>1, <1>3, <2>1 DEF RingInv, InOrder
<1>4. CASE InUse = PACKETS
  <2>1. pos = read_pos
    BY <1>1, <1>2, <1>4, WrapsOnce
  <2>2. Slot(1) = read_pos
    BY <1>1, SlotsAre DEF RingInv, RingTypeOK
  <2> QED
    BY <1>1, <1>4, <2>1, <2>2 DEF RingInv, InOrder
<1> QED
  BY <1>1, <1>3, <1>4

\* WriteValid puts one more entry in use, after the others.
LEMMA WriteValidUses ==
    ASSUME RingInv, WriteValid
    PROVE  InUse < PACKETS /\ InUse' = InUse + 1 /\ InOrder'
<1>0. PACKETS \in Nat /\ PACKETS > 0 /\ read_pos \in Nat /\ read_pos < PACKETS
      /\ InUse \in 0..PACKETS /\ read_pos' = read_pos /\ pos \in Position
  BY CaptureConstants, InUseCounts DEF RingInv, RingTypeOK, Position, WriteValid, listenerVars
<1>1. ~mem[pos].valid /\ InUse < PACKETS /\ pos = Slot(InUse + 1)
  BY <1>0, PosIsNext DEF RingInv, WritesWhole, Writing, WriteValid
<1>2. \A p \in Position : mem'[p].valid <=> mem[p].valid \/ p = pos
  BY <1>0 DEF WriteValid, RingInv, RingTypeOK, Entry
<1>3. InUse' = InUse + 1
  <2>1. Valid' = Valid \cup {pos} /\ pos \notin Valid
    BY <1>0, <1>1, <1>2 DEF Valid
  <2>2. InUse' = Cardinality(Valid')
    BY DEF InUse, Valid, Position
  <2> QED
    BY <2>1, <2>2, InUseCounts, FS_AddElement
<1>4. \A k : Slot(k)' = Slot(k)
  BY <1>0 DEF Slot
<1>5. ASSUME NEW k \in 1..PACKETS
      PROVE  mem'[Slot(k)].valid <=> k <= InUse'
  <2>1. Slot(k) \in Position /\ (Slot(k) = pos <=> k = InUse + 1)
    BY <1>0, <1>1, SlotsAre DEF RingInv, RingTypeOK
  <2>2. mem[Slot(k)].valid <=> k <= InUse
    BY DEF RingInv, InOrder
  <2> QED
    BY <1>0, <1>2, <1>3, <2>1, <2>2
<1>6. pos' = (read_pos' + InUse') % PACKETS
  <2>1. pos' = IF pos + 1 = PACKETS THEN 0 ELSE pos + 1
    BY <1>0, NextPosIs DEF WriteValid
  <2>2. pos = IF read_pos + InUse < PACKETS THEN read_pos + InUse ELSE read_pos + InUse - PACKETS
    BY <1>0, <1>1, WrapsOnce DEF RingInv, InOrder
  <2>3. read_pos + InUse + 1 \in Nat /\ read_pos + InUse + 1 < 2 * PACKETS
    BY <1>0, <1>1
  <2>4. (read_pos + InUse + 1) % PACKETS =
          IF read_pos + InUse + 1 < PACKETS THEN read_pos + InUse + 1
                                            ELSE read_pos + InUse + 1 - PACKETS
    BY <1>0, <2>3, WrapsOnce
  <2> QED
    BY <1>0, <1>1, <1>3, <2>1, <2>2, <2>4
<1> QED
  BY <1>1, <1>3, <1>4, <1>5, <1>6 DEF InOrder

\* ClearValid takes the first of the entries in use.
LEMMA ClearValidFrees ==
    ASSUME RingInv, ClearValid
    PROVE  /\ InUse > 0 /\ InUse' = InUse - 1 /\ InOrder'
           /\ Slot(1) = read_pos
           /\ \A k \in 1..(PACKETS - 1) : Slot(k)' = Slot(k + 1)
<1>0. PACKETS \in Nat /\ PACKETS > 0 /\ read_pos \in Nat /\ read_pos < PACKETS
      /\ InUse \in 0..PACKETS /\ pos' = pos /\ read_pos \in Position /\ read_pos' = NextPos(read_pos)
  BY CaptureConstants, InUseCounts DEF RingInv, RingTypeOK, Position, ClearValid, collectorVars
<1>1. mem[read_pos].valid
  BY DEF RingInv, ReadsWhole, ClearValid
<1>2. Slot(1) = read_pos /\ InUse > 0
  <2>1. Slot(1) = read_pos
    BY <1>0, SlotsAre
  <2> QED
    BY <1>0, <1>1, <2>1 DEF RingInv, InOrder
<1>3. \A p \in Position : mem'[p].valid <=> mem[p].valid /\ p # read_pos
  BY <1>0 DEF ClearValid, RingInv, RingTypeOK, Entry
<1>4. InUse' = InUse - 1
  <2>1. Valid' = Valid \ {read_pos} /\ read_pos \in Valid
    BY <1>0, <1>1, <1>3 DEF Valid
  <2>2. InUse' = Cardinality(Valid')
    BY DEF InUse, Valid, Position
  <2> QED
    BY <2>1, <2>2, InUseCounts, FS_RemoveElement
<1>5. read_pos' \in Position /\ read_pos' = IF read_pos + 1 = PACKETS THEN 0 ELSE read_pos + 1
  BY <1>0, NextPosIs
<1>6. \A k \in 1..PACKETS :
         /\ Slot(k) \in Position /\ Slot(k)' \in Position
         /\ Slot(k) = IF read_pos + k <= PACKETS THEN read_pos + k - 1 ELSE read_pos + k - 1 - PACKETS
         /\ Slot(k)' = IF read_pos' + k <= PACKETS THEN read_pos' + k - 1 ELSE read_pos' + k - 1 - PACKETS
  <2>1. \A k \in 1..PACKETS :
           Slot(k)' \in Position
           /\ Slot(k)' = IF read_pos' + k <= PACKETS THEN read_pos' + k - 1 ELSE read_pos' + k - 1 - PACKETS
    <3>1. ASSUME NEW k \in 1..PACKETS
          PROVE  /\ (read_pos' + k - 1) % PACKETS \in Position
                 /\ (read_pos' + k - 1) % PACKETS =
                       IF read_pos' + k <= PACKETS THEN read_pos' + k - 1 ELSE read_pos' + k - 1 - PACKETS
      <4>1. read_pos' + k - 1 \in Nat /\ read_pos' + k - 1 < 2 * PACKETS /\ read_pos' \in Nat
            /\ read_pos' < PACKETS
        BY <1>0, <1>5
      <4> QED
        BY <1>0, <4>1, WrapsOnce DEF Position
    <3> QED
      BY <3>1 DEF Slot
  <2> QED
    BY <1>0, <2>1, SlotsAre
<1>7. \A k \in 1..(PACKETS - 1) : Slot(k)' = Slot(k + 1)
  BY <1>0, <1>5, <1>6
<1>8. Slot(PACKETS)' = read_pos
  BY <1>0, <1>5, <1>6
<1>9. ASSUME NEW k \in 1..PACKETS
      PROVE  mem'[Slot(k)'].valid <=> k <= InUse'
  <2>1. CASE k = PACKETS
    BY <1>0, <1>3, <1>4, <1>8, <2>1
  <2>2. CASE k # PACKETS
    <3>1. k + 1 \in 1..PACKETS /\ Slot(k)' = Slot(k + 1) /\ Slot(k + 1) # read_pos
      BY <1>0, <1>2, <1>7, <2>2, SlotsAre
    <3>2. mem[Slot(k + 1)].valid <=> k + 1 <= InUse
      BY <3>1 DEF RingInv, InOrder
    <3> QED
      BY <1>0, <1>3, <1>4, <1>6, <3>1, <3>2
  <2> QED
    BY <2>1, <2>2
<1>10. pos' = (read_pos' + InUse') % PACKETS
  <2>1. pos = IF read_pos + InUse < PACKETS THEN read_pos + InUse ELSE read_pos + InUse - PACKETS
    BY <1>0, WrapsOnce DEF RingInv, InOrder
  <2>2. /\ read_pos' + InUse' \in Nat /\ read_pos' + InUse' < 2 * PACKETS
    BY <1>0, <1>2, <1>4, <1>5
  <2>3. (read_pos' + InUse') % PACKETS =
          IF read_pos' + InUse' < PACKETS THEN read_pos' + InUse' ELSE read_pos' + InUse' - PACKETS
    BY <1>0, <1>4, <1>5, <2>2, WrapsOnce
  <2> QED
    BY <1>0, <1>2, <1>4, <1>5, <2>1, <2>3
<1> QED
  BY <1>2, <1>4, <1>7, <1>9, <1>10 DEF InOrder

\* The steps that leave the ring as it is.
LEMMA RingUntouched ==
    ASSUME RingInv, UNCHANGED <<mem, pos, read_pos>>
    PROVE  InUse' = InUse /\ InOrder'
  BY SameUse DEF RingInv, RingTypeOK

\* The collector's steps keep the invariant.
LEMMA CollectKeeps ==
    ASSUME RingInv, MainLoop
    PROVE  RingInv'
<1> USE DEF RingInv, collectorVars, listenerVars
<1>1. CASE WritePacket
  <2>1. PICK n \in Sizes : packet' = <<count + 1, n>>
    BY <1>1 DEF WritePacket
  <2>2. packet' \in Packets /\ packet' \in Nat \X Nat
    BY <1>1, <2>1, CaptureConstants DEF WritePacket, Packets, RingTypeOK
  <2>3. RingTypeOK'
    BY <1>1, <2>2 DEF WritePacket, RingTypeOK, Failures
  <2>4. count < Captured
    BY <1>1 DEF WritePacket
  <2>5. WritesWhole'
    BY <1>1, <2>2, <2>4 DEF WritePacket, WritesWhole, Writing
  <2>6. ReadsWhole'
    BY <1>1 DEF WritePacket, ReadsWhole
  <2> QED
    BY <1>1, <2>3, <2>5, <2>6, RingUntouched DEF WritePacket
<1>2. CASE WriteLength
  <2>1. RingTypeOK'
    BY <1>2 DEF WriteLength, RingTypeOK, Entry
  <2>2. \A p \in Position : mem'[p].valid = mem[p].valid
    BY <1>2 DEF WriteLength, RingTypeOK, Entry
  <2>3. WritesWhole' /\ ReadsWhole'
    BY <1>2 DEF WriteLength, WritesWhole, ReadsWhole, RingTypeOK, Entry, Writing
  <2> QED
    BY <1>2, <2>1, <2>2, <2>3, SameUse DEF WriteLength, RingTypeOK
<1>3. CASE WriteTimestamp
  <2>1. packet[1] \in Nat
    BY DEF RingTypeOK
  <2>2. RingTypeOK'
    BY <1>3, <2>1 DEF WriteTimestamp, RingTypeOK, Entry
  <2>3. \A p \in Position : mem'[p].valid = mem[p].valid
    BY <1>3 DEF WriteTimestamp, RingTypeOK, Entry
  <2>4. WritesWhole' /\ ReadsWhole'
    BY <1>3 DEF WriteTimestamp, WritesWhole, ReadsWhole, RingTypeOK, Entry, Writing
  <2> QED
    BY <1>3, <2>2, <2>3, <2>4, SameUse DEF WriteTimestamp, RingTypeOK
<1>4. CASE WriteData
  <2>1. RingTypeOK'
    BY <1>4 DEF WriteData, RingTypeOK, Entry
  <2>2. \A p \in Position : mem'[p].valid = mem[p].valid
    BY <1>4 DEF WriteData, RingTypeOK, Entry
  <2>3. WritesWhole' /\ ReadsWhole'
    BY <1>4 DEF WriteData, WritesWhole, ReadsWhole, RingTypeOK, Entry, Writing
  <2> QED
    BY <1>4, <2>1, <2>2, <2>3, SameUse DEF WriteData, RingTypeOK
<1>5. CASE WriteValid
  <2>1. count + 1 \in 0..Captured /\ pos' \in Position
    BY <1>5, NextPosIs, CaptureConstants DEF WriteValid, WritesWhole, Writing, RingTypeOK
  <2>2. RingTypeOK'
    BY <1>5, <2>1 DEF WriteValid, RingTypeOK, Entry
  <2>3. WritesWhole' /\ ReadsWhole'
    BY <1>5 DEF WriteValid, WritesWhole, ReadsWhole, RingTypeOK, Entry, Writing
  <2> QED
    BY <1>5, <2>2, <2>3, WriteValidUses
<1>6. CASE CheckForDrops \/ HandleControlC
  <2>1. RingTypeOK'
    BY <1>6 DEF CheckForDrops, HandleControlC, RingTypeOK, Failures
  <2>2. WritesWhole' /\ ReadsWhole'
    BY <1>6 DEF CheckForDrops, HandleControlC, WritesWhole, ReadsWhole, Writing
  <2> QED
    BY <1>6, <2>1, <2>2, RingUntouched DEF CheckForDrops, HandleControlC
<1> QED
  BY <1>1, <1>2, <1>3, <1>4, <1>5, <1>6 DEF MainLoop

\* So do the listener's.
LEMMA ListenKeeps ==
    ASSUME RingInv, Listen
    PROVE  RingInv'
<1> USE DEF RingInv, collectorVars, listenerVars
<1>1. CASE Poll
  <2>1. RingTypeOK' /\ WritesWhole' /\ ReadsWhole'
    BY <1>1 DEF Poll, RingTypeOK, WritesWhole, ReadsWhole
  <2> QED
    BY <1>1, <2>1, RingUntouched DEF Poll
<1>2. CASE CheckForSnifferError
  <2>1. listener' \in {"complete", "polling", "error"}
    BY <1>2 DEF CheckForSnifferError
  <2>2. RingTypeOK' /\ WritesWhole' /\ ReadsWhole'
    BY <1>2, <2>1 DEF CheckForSnifferError, RingTypeOK, WritesWhole, ReadsWhole
  <2> QED
    BY <1>2, <2>2, RingUntouched DEF CheckForSnifferError
<1>3. CASE ReadLength
  <2>1. listener' \in {"quit", "timestamp"}
    BY <1>3 DEF ReadLength
  <2>2. RingTypeOK' /\ WritesWhole' /\ ReadsWhole'
    BY <1>3, <2>1 DEF ReadLength, RingTypeOK, WritesWhole, ReadsWhole, Entry
  <2> QED
    BY <1>3, <2>2, RingUntouched DEF ReadLength
<1>4. CASE ReadTimestamp
  <2>1. RingTypeOK' /\ WritesWhole' /\ ReadsWhole'
    BY <1>4 DEF ReadTimestamp, RingTypeOK, WritesWhole, ReadsWhole, Entry
  <2> QED
    BY <1>4, <2>1, RingUntouched DEF ReadTimestamp
<1>5. CASE ReadData
  <2>1. RingTypeOK' /\ WritesWhole' /\ ReadsWhole'
    BY <1>5 DEF ReadData, RingTypeOK, WritesWhole, ReadsWhole, Entry
  <2> QED
    BY <1>5, <2>1, RingUntouched DEF ReadData
<1>6. CASE ClearValid
  <2>1. read_pos' \in Position
    BY <1>6, NextPosIs DEF ClearValid, RingTypeOK
  <2>2. RingTypeOK' /\ WritesWhole' /\ ReadsWhole'
    BY <1>6, <2>1 DEF ClearValid, RingTypeOK, WritesWhole, ReadsWhole, Entry, Writing
  <2> QED
    BY <1>6, <2>2, ClearValidFrees
<1> QED
  BY <1>1, <1>2, <1>3, <1>4, <1>5, <1>6 DEF Listen

\* The invariant speaks of the ring's variables only.
LEMMA RingStuttering ==
    ASSUME RingInv, UNCHANGED vars
    PROVE  RingInv'
  BY RingUntouched, ZenonT(40) DEF RingInv, RingTypeOK, WritesWhole, ReadsWhole, vars, collectorVars, listenerVars

-----------------------------------------------------------------------------
(* The queue that it implements *)

\* The content of an entry is an entry that is not marked as valid.
LEMMA ContentIs ==
    ASSUME NEW e \in Entry
    PROVE  /\ Content(e) \in Entry /\ Content(e).valid = FALSE
           /\ Content(e).length = e.length /\ Content(e).timestamp = e.timestamp
           /\ Content(e).data = e.data
  BY DEF Content, Entry

\* Entries that agree in all of their fields are the same.
LEMMA EntriesEqual ==
    ASSUME NEW e \in Entry, NEW f \in Entry, e.valid = f.valid, e.length = f.length,
           e.timestamp = f.timestamp, e.data = f.data
    PROVE  e = f
  BY DEF Entry

\* What is written field by field is content as a whole.
LEMMA ContentIsOf ==
    ASSUME NEW e \in Entry, NEW f \in Entry, f.valid = FALSE, e.length = f.length,
           e.timestamp = f.timestamp, e.data = f.data
    PROVE  Content(e) = f
<1>1. /\ Content(e) \in Entry /\ Content(e).valid = f.valid
      /\ Content(e).length = f.length /\ Content(e).timestamp = f.timestamp
      /\ Content(e).data = f.data
  BY ContentIs
<1> HIDE DEF Content
<1> QED
  BY <1>1, EntriesEqual

Waiting == [k \in 1..InUse |-> Content(mem[Slot(k)])]

\* What waits is in the entries in use; a step that changes none of these, nor
\* the listener's position, leaves the queue as it is.
LEMMA WaitingStays ==
    ASSUME RingInv, InUse' = InUse, read_pos' = read_pos,
           \A p \in Position : mem[p].valid => mem'[p] = mem[p]
    PROVE  Waiting' = Waiting
<1>1. InUse \in 0..PACKETS /\ PACKETS \in Nat
  BY InUseCounts, CaptureConstants
<1>2. \A k : Slot(k)' = Slot(k)
  BY DEF Slot
<1>3. \A k \in 1..InUse : mem'[Slot(k)] = mem[Slot(k)]
  <2>1. \A k \in 1..InUse : k \in 1..PACKETS
    BY <1>1
  <2>2. \A k \in 1..InUse : Slot(k) \in Position /\ mem[Slot(k)].valid
    BY <2>1, SlotsAre DEF RingInv, InOrder, RingTypeOK
  <2> QED
    BY <2>2
<1> QED
  BY <1>2, <1>3 DEF Waiting

\* What waits is a sequence of entries, one for each that is in use.
LEMMA WaitingIs ==
    ASSUME RingInv
    PROVE  Waiting \in Seq(Entry) /\ Len(Waiting) = InUse
<1>1. InUse \in 0..PACKETS /\ PACKETS \in Nat
  BY InUseCounts, CaptureConstants
<1>2. \A k \in 1..InUse : k \in 1..PACKETS
  BY <1>1
<1>3. \A k \in 1..InUse : Content(mem[Slot(k)]) \in Entry
  BY <1>2, SlotsAre, ContentIs DEF RingInv, RingTypeOK
<1> QED
  BY <1>1, <1>3 DEF Waiting

\* What the queue is given: a packet, whole unless it is too long.
AsPut(p) == IF Wide(p) THEN Truncated(p) ELSE Whole(p)

LEMMA AsPutIs ==
    ASSUME NEW p \in Nat \X Nat
    PROVE  /\ AsPut(p) \in Entry /\ AsPut(p).valid = FALSE
           /\ AsPut(p).length = Length(p) /\ AsPut(p).timestamp = p[1] /\ AsPut(p).data = p
<1>1. p[1] \in Nat /\ p[2] \in Nat
  OBVIOUS
<1>2. ~Wide(p) => Length(p) = p[2]
  BY <1>1 DEF Wide, Length
<1>3. Length(p) \in {0} \cup {Length(q) : q \in Nat \X Nat}
  OBVIOUS
<1>4. CASE Wide(p)
  <2> DEFINE R == [valid : BOOLEAN, length : Nat, timestamp : Nat, data : Nat \X Nat]
             n == p[2] % 65536
  <2>1. ASSUME NEW w \in R, NEW x \in Nat
        PROVE  /\ [w EXCEPT !.length = x] \in R /\ [w EXCEPT !.length = x].valid = w.valid
               /\ [w EXCEPT !.length = x].length = x
               /\ [w EXCEPT !.length = x].timestamp = w.timestamp
               /\ [w EXCEPT !.length = x].data = w.data
    OBVIOUS
  <2>2. Whole(p) \in R /\ Whole(p).valid = FALSE /\ Whole(p).timestamp = p[1] /\ Whole(p).data = p
    BY <1>1 DEF Whole
  <2>3. n \in Nat /\ Length(p) = n
    BY <1>1 DEF Length
  <2>4. AsPut(p) = [Whole(p) EXCEPT !.length = n]
    BY <1>4 DEF AsPut, Truncated
  <2> HIDE DEF n
  <2>5. AsPut(p) \in R /\ AsPut(p).valid = FALSE /\ AsPut(p).length = n
        /\ AsPut(p).timestamp = p[1] /\ AsPut(p).data = p
    BY <2>1, <2>2, <2>3, <2>4
  <2>6. n \in {0} \cup {Length(q) : q \in Nat \X Nat}
    BY <1>3, <2>3
  <2> QED
    BY <2>3, <2>5, <2>6 DEF Entry
<1>5. CASE ~Wide(p)
  BY <1>1, <1>2, <1>3, <1>5 DEF AsPut, Whole, Entry
<1> QED
  BY <1>4, <1>5

\* WriteValid puts the packet, whole, into the queue.
LEMMA WriteValidPuts ==
    ASSUME RingInv, WriteValid
    PROVE  packet \in Packets /\ Len(Waiting) < PACKETS /\ Waiting' = Append(Waiting, AsPut(packet))
<1>1. InUse \in 0..PACKETS /\ PACKETS \in Nat /\ InUse < PACKETS /\ InUse' = InUse + 1
  BY InUseCounts, CaptureConstants, WriteValidUses
<1>2. /\ packet \in Packets /\ pos \in Position /\ pos = Slot(InUse + 1) /\ ~mem[pos].valid
      /\ \A k : Slot(k)' = Slot(k)
  BY <1>1, PosIsNext DEF RingInv, RingTypeOK, WritesWhole, Writing, WriteValid, Slot, listenerVars
<1>3. \A p \in Position : p # pos => mem'[p] = mem[p]
  BY <1>2 DEF WriteValid, RingInv, RingTypeOK
<1>4. Content(mem'[pos]) = AsPut(packet) /\ AsPut(packet) \in Entry
  <2>1. /\ mem[pos] \in Entry /\ mem[pos].length = Length(packet)
        /\ mem[pos].timestamp = packet[1] /\ mem[pos].data = packet
    BY <1>2 DEF RingInv, RingTypeOK, WritesWhole, WriteValid
  <2>2. mem'[pos] = [mem[pos] EXCEPT !.valid = TRUE]
    BY <1>2 DEF WriteValid, RingInv, RingTypeOK
  <2>3. /\ mem'[pos] \in Entry /\ mem'[pos].length = mem[pos].length
        /\ mem'[pos].timestamp = mem[pos].timestamp /\ mem'[pos].data = mem[pos].data
    BY <2>1, <2>2 DEF Entry
  <2>4. /\ AsPut(packet) \in Entry /\ AsPut(packet).valid = FALSE
        /\ AsPut(packet).length = Length(packet) /\ AsPut(packet).timestamp = packet[1]
        /\ AsPut(packet).data = packet
    BY AsPutIs DEF RingInv, RingTypeOK
  <2> QED
    <3> DEFINE e == mem'[pos]
               w == AsPut(packet)
    <3>1. /\ e \in Entry /\ w \in Entry /\ w.valid = FALSE /\ w.length = e.length
          /\ w.timestamp = e.timestamp /\ w.data = e.data
      BY <2>1, <2>3, <2>4
    <3> HIDE DEF e, w
    <3>2. Content(e) = w
      BY <3>1, ContentIsOf
    <3> QED
      BY <2>4, <3>2 DEF e, w
<1>5. \A k \in 1..InUse : mem'[Slot(k)] = mem[Slot(k)]
  <2>1. \A k \in 1..InUse : k \in 1..PACKETS
    BY <1>1
  <2>2. \A k \in 1..InUse : Slot(k) \in Position /\ mem[Slot(k)].valid
    BY <2>1, SlotsAre DEF RingInv, InOrder, RingTypeOK
  <2> QED
    BY <1>2, <1>3, <2>2
<1>6. /\ \A k \in 1..InUse : Waiting'[k] = Waiting[k]
      /\ Waiting'[InUse + 1] = AsPut(packet) /\ Len(Waiting') = InUse + 1
  BY <1>1, <1>2, <1>4, <1>5 DEF Waiting
<1>7. Waiting \in Seq(Entry) /\ Len(Waiting) = InUse
  BY WaitingIs
<1>8. Waiting' \in Seq(Entry)
  <2>1. Waiting' = [k \in 1..(InUse + 1) |-> Content(mem'[Slot(k)])]
    BY <1>1, <1>2 DEF Waiting
  <2>2. \A k \in 1..(InUse + 1) : Content(mem'[Slot(k)]) \in Entry
    <3>1. \A k \in 1..(InUse + 1) : k \in 1..InUse \/ k = InUse + 1
      BY <1>1
    <3>2. \A k \in 1..InUse : Content(mem'[Slot(k)]) = Waiting[k] /\ Waiting[k] \in Entry
      BY <1>5, <1>7, ElementOfSeq DEF Waiting
    <3> QED
      BY <1>2, <1>4, <3>1, <3>2
  <2> QED
    BY <1>1, <2>1, <2>2
<1>9. /\ Append(Waiting, AsPut(packet)) \in Seq(Entry) /\ Len(Append(Waiting, AsPut(packet))) = InUse + 1
      /\ \A k \in 1..InUse : Append(Waiting, AsPut(packet))[k] = Waiting[k]
      /\ Append(Waiting, AsPut(packet))[InUse + 1] = AsPut(packet)
  BY <1>4, <1>7, AppendProperties
<1>10. \A k \in 1..(InUse + 1) : k \in 1..InUse \/ k = InUse + 1
  BY <1>1
<1>11. Waiting' = Append(Waiting, AsPut(packet))
  BY <1>6, <1>8, <1>9, <1>10, SeqEqual
<1> QED
  BY <1>1, <1>2, <1>7, <1>11

\* ClearValid takes the head of the queue, which the listener has read whole.
LEMMA ClearValidTakes ==
    ASSUME RingInv, ClearValid
    PROVE  /\ Waiting # <<>> /\ delivered' = Append(delivered, Head(Waiting))
           /\ Waiting' = Tail(Waiting)
<1>1. /\ InUse \in 0..PACKETS /\ PACKETS \in Nat /\ InUse > 0 /\ InUse' = InUse - 1
      /\ Slot(1) = read_pos /\ \A k \in 1..(PACKETS - 1) : Slot(k)' = Slot(k + 1)
  BY InUseCounts, CaptureConstants, ClearValidFrees
<1>2. Waiting # <<>> /\ Len(Waiting) = InUse /\ Waiting \in Seq(Entry)
  BY <1>1, WaitingIs
<1>3. Head(Waiting) = entry
  <2>1. Head(Waiting) = Content(mem[read_pos])
    <3>1. Head(Waiting) = Waiting[1]
      BY <1>2
    <3> QED
      BY <1>1, <3>1 DEF Waiting
  <2>2. mem[read_pos] \in Entry /\ entry \in Entry
    BY DEF RingInv, RingTypeOK
  <2>3. /\ entry.valid = FALSE /\ entry.length = mem[read_pos].length
        /\ entry.timestamp = mem[read_pos].timestamp /\ entry.data = mem[read_pos].data
    BY DEF RingInv, ReadsWhole, ClearValid
  <2> QED
    BY <2>1, <2>2, <2>3, ContentIsOf
<1>4. Waiting' = [k \in 1..(InUse - 1) |-> Waiting[k + 1]]
  <2>1. \A k \in 1..(InUse - 1) : k \in 1..(PACKETS - 1) /\ k + 1 \in 1..InUse /\ k + 1 \in 1..PACKETS
    BY <1>1
  <2>2. \A k \in 1..(InUse - 1) : Slot(k)' = Slot(k + 1) /\ Slot(k + 1) \in Position /\ Slot(k + 1) # read_pos
    <3>1. \A k \in 1..(InUse - 1) : 1 \in 1..PACKETS /\ k + 1 # 1
      BY <1>1
    <3> QED
      BY <1>1, <2>1, <3>1, SlotsAre DEF RingInv, RingTypeOK
  <2>3. \A p \in Position : p # read_pos => mem'[p] = mem[p]
    BY DEF ClearValid, RingInv, RingTypeOK
  <2> QED
    BY <1>1, <2>1, <2>2, <2>3 DEF Waiting
<1>5. /\ Tail(Waiting) \in Seq(Entry) /\ Len(Tail(Waiting)) = InUse - 1
      /\ \A k \in 1..(InUse - 1) : Tail(Waiting)[k] = Waiting[k + 1]
  BY <1>1, <1>2, HeadTailProperties
<1>6. Waiting' \in Seq(Entry) /\ Len(Waiting') = InUse - 1
  <2>1. \A k \in 1..(InUse - 1) : k + 1 \in 1..InUse /\ Waiting[k + 1] \in Entry
    BY <1>1, <1>2, ElementOfSeq
  <2> QED
    BY <1>1, <1>4, <2>1
<1>7. Waiting' = Tail(Waiting)
  BY <1>4, <1>5, <1>6, SeqEqual
<1> QED
  BY <1>2, <1>3, <1>7 DEF ClearValid

\* Every other step leaves the queue and what was taken out of it alone.
LEMMA OthersStutter ==
    ASSUME RingInv, Next, ~WriteValid, ~ClearValid
    PROVE  Waiting' = Waiting /\ delivered' = delivered
<1> USE DEF RingInv, collectorVars, listenerVars
<1>1. CASE WritePacket \/ CheckForDrops \/ HandleControlC
  <2>1. UNCHANGED <<mem, pos, read_pos, delivered>>
    BY <1>1 DEF WritePacket, CheckForDrops, HandleControlC
  <2> QED
    BY <2>1, RingUntouched, WaitingStays
<1>2. CASE WriteLength \/ WriteTimestamp \/ WriteData
  <2>1. /\ \A p \in Position : p # pos => mem'[p] = mem[p]
        /\ mem'[pos].valid = mem[pos].valid /\ mem' \in [Position -> Entry]
        /\ UNCHANGED <<pos, read_pos, delivered>>
    <3>1. CASE WriteLength
      BY <3>1 DEF WriteLength, RingTypeOK, Entry
    <3>2. CASE WriteTimestamp
      <4>1. packet[1] \in Nat
        BY DEF RingTypeOK
      <4> QED
        BY <3>2, <4>1 DEF WriteTimestamp, RingTypeOK, Entry
    <3>3. CASE WriteData
      BY <3>3 DEF WriteData, RingTypeOK, Entry
    <3> QED
      BY <1>2, <3>1, <3>2, <3>3
  <2>2. ~mem[pos].valid
    BY <1>2 DEF WriteLength, WriteTimestamp, WriteData, WritesWhole, Writing
  <2>3. InUse' = InUse
    BY <2>1, SameUse
  <2> QED
    BY <2>1, <2>2, <2>3, WaitingStays
<1>3. CASE Poll \/ CheckForSnifferError \/ ReadLength \/ ReadTimestamp \/ ReadData
  <2>1. UNCHANGED <<mem, pos, read_pos, delivered>>
    BY <1>3 DEF Poll, CheckForSnifferError, ReadLength, ReadTimestamp, ReadData
  <2> QED
    BY <2>1, RingUntouched, WaitingStays
<1> QED
  BY <1>1, <1>2, <1>3 DEF Next, MainLoop, Listen

-----------------------------------------------------------------------------
(* The theorems *)

\* The two processes keep the entries in order and each its hands off the
\* entries of the other.
THEOREM RingHolds == Spec => []RingInv
<1>1. RingInv /\ [Next]_vars => RingInv'
  BY CollectKeeps, ListenKeeps, RingStuttering DEF Next
<1> QED
  BY <1>1, InitRing, PTL DEF Spec

\* Packets come out of the ring once and in order, and whole if they are less
\* than 64K long.
THEOREM RingImplementsQueue == Spec => ImplementsQueue
<1>1. Init => Queue!Init
  <2> SUFFICES ASSUME Init
               PROVE  Queue!Init
    OBVIOUS
  <2>1. Waiting \in Seq(Entry) /\ Len(Waiting) = InUse
    BY InitRing, WaitingIs
  <2>2. InUse = 0
    <3>1. Valid = {}
      BY DEF Init, Valid, Position, Blank
    <3> QED
      BY <3>1, InUseCounts, FS_EmptySet
  <2>3. Waiting = <<>>
    BY <2>1, <2>2, EmptySeq
  <2> QED
    BY <2>3 DEF Queue!Init, Init, Waiting
<1>2. RingInv /\ [Next]_vars => [Queue!Next]_<<Waiting, delivered>>
  <2> SUFFICES ASSUME RingInv, [Next]_vars
               PROVE  [Queue!Next]_<<Waiting, delivered>>
    OBVIOUS
  <2>1. CASE WriteValid
    <3>1. delivered' = delivered
      BY <2>1 DEF WriteValid, listenerVars
    <3>2. Queue!Put(AsPut(packet))
      BY <2>1, <3>1, WriteValidPuts DEF Queue!Put, Waiting
    <3> QED
      BY <2>1, <3>2, WriteValidPuts DEF Queue!Next, AsPut
  <2>2. CASE ClearValid
    <3>1. Queue!Take
      BY <2>2, ClearValidTakes DEF Queue!Take, Waiting
    <3> QED
      BY <3>1 DEF Queue!Next
  <2>3. CASE Next /\ ~WriteValid /\ ~ClearValid
    BY <2>3, OthersStutter
  <2>4. CASE UNCHANGED vars
    <3>1. UNCHANGED <<mem, pos, read_pos, delivered>>
      BY <2>4 DEF vars, collectorVars, listenerVars
    <3> QED
      BY <3>1, RingUntouched, WaitingStays
  <2> QED
    BY <2>1, <2>2, <2>3, <2>4
<1>3. RingInv /\ [Next]_vars => [Queue!Next]_<<[k \in 1..InUse |-> Content(mem[Slot(k)])], delivered>>
  BY <1>2 DEF Waiting
<1> QED
  BY <1>1, <1>3, RingHolds, PTL DEF Spec, ImplementsQueue, Queue!Spec

-----------------------------------------------------------------------------
(* The client *)

Cleaners == {"main", "listener"}
Past     == {"close", "shred", "overwrite", "unlink", "release", "forget", "done"}
Swept    == {"release", "forget", "done"}
Locked   == {"restore", "check", "close", "shred", "overwrite", "unlink", "release"}
Steps    == {"no", "lock", "restore", "check"} \cup Past

SessionTypeOK ==
    /\ main \in {"starting", "linking", "waiting", "cleaning", "handling", "exited"}
    /\ thread \in Launching \cup {"new", "reading", "in ring", "failing", "finishing", "dead"}
    /\ cleaning \in [Cleaners -> Steps]
    /\ kernel \in {"original", "partly tweaked", "tweaked"}
    /\ process \in {"none", "started", "named", "capturing", "dead"}
    /\ disk \in {"none", "blank", "packets", "shredded", "zeros", "gone"}

\* Nothing is met that may leave the tempfile, or the settings, as they are.
FileSafe ==
    /\ "early" \notin troubles /\ "interrupted" \notin troubles /\ "killed" \notin troubles
    /\ "unmapped" \notin troubles /\ "unreniced" \notin troubles

KernelSafe ==
    /\ "early" \notin troubles /\ "interrupted" \notin troubles /\ "killed" \notin troubles
    /\ "partly" \notin troubles /\ "unrestored" \notin troubles /\ mode # "bsd"

\* Nothing has begun before the link is ready, and a client that exits has
\* cleaned up or had nothing to clean up.
Beginning == thread = "new" /\ kernel = "original" /\ process = "none" /\ disk = "none"

Order ==
    /\ main \in {"starting", "linking"} =>
          Beginning /\ \A t \in Cleaners : cleaning[t] = "no"
    /\ main \in {"waiting", "cleaning", "handling"} => thread # "new"
    /\ main = "exited" =>
          \/ Beginning \/ cleaning["main"] = "done"
          \/ "interrupted" \in troubles \/ "killed" \in troubles
    /\ cleaning["main"] # "no" => main \in {"cleaning", "handling", "exited"}
    /\ cleaning["listener"] # "no" => thread \in {"failing", "finishing", "dead"}
    /\ thread \in {"new", "launching", "tweaking", "popen"} => process = "none"

\* A tempfile that the listener does not know yet has not been cleaned up; and
\* main, once past the settings or the tempfile, was not too early for them.
Unnamed == {"new", "launching", "tweaking", "popen", "naming"}

InTime ==
    /\ thread \in Unnamed => ~tmpfile /\ disk \in {"none", "blank", "packets"}
    /\ "early" \notin troubles /\ "interrupted" \notin troubles =>
          /\ cleaning["main"] \in {"check"} \cup Past => thread \notin {"new", "launching", "tweaking"}
          /\ cleaning["main"] \in Past => thread \notin Unnamed

\* One thread at a time is between the locking and the release.
LockHeld ==
    /\ cleaning["main"] \in Locked => lock \in {"main", "main twice"}
    /\ cleaning["listener"] \in Locked => lock = "listener"
    /\ thread = "in ring" => lock = "listener"

\* Settings that are not as they were are remembered, or are being changed; and
\* they are restored by a main thread that is past that.
KernelKnown ==
    KernelSafe =>
        /\ kernel # "original" => kernel_tweaked \/ thread = "tweaking"
        /\ cleaning["main"] \in {"check"} \cup Past => kernel = "original"

\* There is a file wherever a thread works on one.
OnDisk ==
    /\ tmpfile => disk # "none"
    /\ \A t \in Cleaners : cleaning[t] \in {"close", "shred", "overwrite", "unlink"} => disk # "none"
    /\ process \in {"none", "started"} => disk = "none"

\* No packet is on the disk, and none can get there any more.
Settled == disk \in {"gone", "zeros"} \/ (disk = "none" /\ process \in {"none", "dead"})

\* Who is through with the tempfile has settled it, and so has who forgot it;
\* and one that is overwritten is not shredded again: it is deleted first, or
\* forgotten.
Settling ==
    FileSafe =>
        /\ \A t \in Cleaners : cleaning[t] \in Swept => Settled
        /\ ~tmpfile /\ thread \notin Unnamed => Settled
        /\ disk = "zeros" => ~tmpfile \/ \E t \in Cleaners : cleaning[t] = "unlink"

SessionInv ==
    SessionTypeOK /\ Order /\ InTime /\ LockHeld /\ KernelKnown /\ OnDisk /\ Settling

-----------------------------------------------------------------------------
(* The steps *)

\* The main thread's steps keep the invariant, and so does the quit event.
LEMMA MainKeeps ==
    ASSUME SessionInv, Main \/ QuitElsewhere
    PROVE  SessionInv'
<1> USE DEF SessionInv, mains, threads, system, tempfile, processes, cleanups
<1>1. CASE MainStarts
  <2>1. SessionTypeOK'
    BY <1>1 DEF MainStarts, SessionTypeOK, Cleaners, Steps, Past, Launching
  <2>2. Order'
    BY <1>1 DEF MainStarts, Order, SessionTypeOK, Beginning, Cleaners, Steps, Launching
  <2>3. InTime'
    BY <1>1 DEF MainStarts, InTime, SessionTypeOK, Order, Cleaners, Steps, Past, Launching, Unnamed,
           OnDisk
  <2>4. LockHeld'
    BY <1>1 DEF MainStarts, LockHeld, SessionTypeOK, Order, Cleaners, Steps, Locked
  <2>5. KernelKnown'
    BY <1>1 DEF MainStarts, KernelKnown, SessionTypeOK, Order, Beginning, InTime, KernelSafe,
           Cleaners, Steps, Past, Launching
  <2>6. OnDisk'
    BY <1>1 DEF MainStarts, OnDisk, SessionTypeOK, Order, Beginning, Cleaners, Steps
  <2>7. Settling'
    BY <1>1 DEF MainStarts, Settling, SessionTypeOK, Order, Beginning, InTime, OnDisk, LockHeld,
           FileSafe, Settled, Cleaners, Steps, Locked, Swept, Past, Launching, Unnamed
  <2> QED
    BY <2>1, <2>2, <2>3, <2>4, <2>5, <2>6, <2>7
<1>2. CASE MainFails
  <2>1. SessionTypeOK'
    BY <1>2 DEF MainFails, SessionTypeOK, Cleaners, Steps, Past, Launching
  <2>2. Order'
    BY <1>2 DEF MainFails, Order, SessionTypeOK, Beginning, Cleaners, Steps, Launching
  <2>3. InTime'
    BY <1>2 DEF MainFails, InTime, SessionTypeOK, Order, Cleaners, Steps, Past, Launching, Unnamed,
           OnDisk
  <2>4. LockHeld'
    BY <1>2 DEF MainFails, LockHeld, SessionTypeOK, Order, Cleaners, Steps, Locked
  <2>5. KernelKnown'
    BY <1>2 DEF MainFails, KernelKnown, SessionTypeOK, Order, Beginning, InTime, KernelSafe,
           Cleaners, Steps, Past, Launching
  <2>6. OnDisk'
    BY <1>2 DEF MainFails, OnDisk, SessionTypeOK, Order, Beginning, Cleaners, Steps
  <2>7. Settling'
    BY <1>2 DEF MainFails, Settling, SessionTypeOK, Order, Beginning, InTime, OnDisk, LockHeld,
           FileSafe, Settled, Cleaners, Steps, Locked, Swept, Past, Launching, Unnamed
  <2> QED
    BY <2>1, <2>2, <2>3, <2>4, <2>5, <2>6, <2>7
<1>3. CASE MainReady
  <2>1. SessionTypeOK'
    BY <1>3 DEF MainReady, SessionTypeOK, Cleaners, Steps, Past, Launching
  <2>2. Order'
    BY <1>3 DEF MainReady, Order, SessionTypeOK, Beginning, Cleaners, Steps, Launching
  <2>3. InTime'
<3>1. cleaning["main"] = "no" /\ thread = "new" /\ UNCHANGED <<cleaning, tmpfile, disk>>
BY <1>3 DEF MainReady, Order, Beginning, Cleaners
<3> QED
BY <1>3, <3>1 DEF MainReady, InTime, Past, Unnamed
  <2>4. LockHeld'
    BY <1>3 DEF MainReady, LockHeld, SessionTypeOK, Order, Cleaners, Steps, Locked
  <2>5. KernelKnown'
    BY <1>3 DEF MainReady, KernelKnown, SessionTypeOK, Order, Beginning, InTime, KernelSafe,
           Cleaners, Steps, Past, Launching
  <2>6. OnDisk'
    BY <1>3 DEF MainReady, OnDisk, SessionTypeOK, Order, Beginning, Cleaners, Steps
  <2>7. Settling'
    BY <1>3 DEF MainReady, Settling, SessionTypeOK, Order, Beginning, InTime, OnDisk, LockHeld,
           FileSafe, Settled, Cleaners, Steps, Locked, Swept, Past, Launching, Unnamed
  <2> QED
    BY <2>1, <2>2, <2>3, <2>4, <2>5, <2>6, <2>7
<1>4. CASE MainWakes
  <2>1. SessionTypeOK'
    BY <1>4 DEF MainWakes, Goto, SessionTypeOK, Cleaners, Steps, Past, Launching
  <2>2. Order'
    BY <1>4 DEF MainWakes, Goto, Order, SessionTypeOK, Beginning, Cleaners, Steps, Launching
  <2>3. InTime'
    BY <1>4 DEF MainWakes, Goto, InTime, SessionTypeOK, Order, Cleaners, Steps, Past, Launching,
           Unnamed, OnDisk
  <2>4. LockHeld'
    BY <1>4 DEF MainWakes, Goto, LockHeld, SessionTypeOK, Order, Cleaners, Steps, Locked
  <2>5. KernelKnown'
    BY <1>4 DEF MainWakes, Goto, KernelKnown, SessionTypeOK, Order, Beginning, InTime, KernelSafe,
           Cleaners, Steps, Past, Launching
  <2>6. OnDisk'
    BY <1>4 DEF MainWakes, Goto, OnDisk, SessionTypeOK, Order, Beginning, Cleaners, Steps
  <2>7. Settling'
    BY <1>4 DEF MainWakes, Goto, Settling, SessionTypeOK, Order, Beginning, InTime, OnDisk,
           LockHeld, FileSafe, Settled, Cleaners, Steps, Locked, Swept, Past, Launching, Unnamed
  <2> QED
    BY <2>1, <2>2, <2>3, <2>4, <2>5, <2>6, <2>7
<1>5. CASE MainInterrupted
  <2>1. SessionTypeOK'
    BY <1>5 DEF MainInterrupted, Goto, SessionTypeOK, Cleaners, Steps, Past, Launching
  <2>2. Order'
    BY <1>5 DEF MainInterrupted, Goto, Order, SessionTypeOK, Beginning, Cleaners, Steps, Launching
  <2>3. InTime'
    BY <1>5 DEF MainInterrupted, Goto, InTime, SessionTypeOK, Order, Cleaners, Steps, Past,
           Launching, Unnamed, OnDisk
  <2>4. LockHeld'
    BY <1>5 DEF MainInterrupted, Goto, LockHeld, SessionTypeOK, Order, Cleaners, Steps, Locked
  <2>5. KernelKnown'
    BY <1>5 DEF MainInterrupted, Goto, KernelKnown, SessionTypeOK, Order, Beginning, InTime,
           KernelSafe, Cleaners, Steps, Past, Launching
  <2>6. OnDisk'
    BY <1>5 DEF MainInterrupted, Goto, OnDisk, SessionTypeOK, Order, Beginning, Cleaners, Steps
  <2>7. Settling'
    BY <1>5 DEF MainInterrupted, Goto, Settling, SessionTypeOK, Order, Beginning, InTime, OnDisk,
           LockHeld, FileSafe, Settled, Cleaners, Steps, Locked, Swept, Past, Launching, Unnamed
  <2> QED
    BY <2>1, <2>2, <2>3, <2>4, <2>5, <2>6, <2>7
<1>6. CASE MainInterruptedAgain
  <2>1. SessionTypeOK'
<3>1. cleaning' \in [Cleaners -> Steps]
BY <1>6 DEF MainInterruptedAgain, LeaveAtOnce, LeaveByFinally, NotLeave, Goto, SessionTypeOK,
             Cleaners, Steps, Past
<3> QED
BY <1>6, <3>1, ZenonT(40) DEF MainInterruptedAgain, LeaveAtOnce, LeaveByFinally, NotLeave,
             Goto, SessionTypeOK, Launching
  <2>2. Order'
    BY <1>6 DEF MainInterruptedAgain, LeaveAtOnce, LeaveByFinally, NotLeave, Goto, Order,
           SessionTypeOK, Beginning, Cleaners, Steps, Launching
  <2>3. InTime'
    BY <1>6 DEF MainInterruptedAgain, LeaveAtOnce, LeaveByFinally, NotLeave, Goto, InTime,
           SessionTypeOK, Order, Cleaners, Steps, Past, Launching, Unnamed, OnDisk
  <2>4. LockHeld'
    BY <1>6 DEF MainInterruptedAgain, LeaveAtOnce, LeaveByFinally, NotLeave, Goto, LockHeld,
           SessionTypeOK, Order, Cleaners, Steps, Locked
  <2>5. KernelKnown'
    BY <1>6 DEF MainInterruptedAgain, LeaveAtOnce, LeaveByFinally, NotLeave, Goto, KernelKnown,
           SessionTypeOK, Order, Beginning, InTime, KernelSafe, Cleaners, Steps, Past, Launching
  <2>6. OnDisk'
    BY <1>6 DEF MainInterruptedAgain, LeaveAtOnce, LeaveByFinally, NotLeave, Goto, OnDisk,
           SessionTypeOK, Order, Beginning, Cleaners, Steps
  <2>7. Settling'
    BY <1>6 DEF MainInterruptedAgain, LeaveAtOnce, LeaveByFinally, NotLeave, Goto, Settling,
           SessionTypeOK, Order, Beginning, InTime, OnDisk, LockHeld, FileSafe, Settled, Cleaners, Steps,
           Locked, Swept, Past, Launching, Unnamed
  <2> QED
    BY <2>1, <2>2, <2>3, <2>4, <2>5, <2>6, <2>7
<1>7. CASE MainKilled
  <2>1. SessionTypeOK'
    BY <1>7 DEF MainKilled, SessionTypeOK, Cleaners, Steps, Past, Launching
  <2>2. Order'
    BY <1>7 DEF MainKilled, Order, SessionTypeOK, Beginning, Cleaners, Steps, Launching
  <2>3. InTime'
    BY <1>7 DEF MainKilled, InTime, SessionTypeOK, Order, Cleaners, Steps, Past, Launching, Unnamed,
           OnDisk
  <2>4. LockHeld'
    BY <1>7 DEF MainKilled, LockHeld, SessionTypeOK, Order, Cleaners, Steps, Locked
  <2>5. KernelKnown'
    BY <1>7 DEF MainKilled, KernelKnown, SessionTypeOK, Order, Beginning, InTime, KernelSafe,
           Cleaners, Steps, Past, Launching
  <2>6. OnDisk'
    BY <1>7 DEF MainKilled, OnDisk, SessionTypeOK, Order, Beginning, Cleaners, Steps
  <2>7. Settling'
    BY <1>7 DEF MainKilled, Settling, SessionTypeOK, Order, Beginning, InTime, OnDisk, LockHeld,
           FileSafe, Settled, Cleaners, Steps, Locked, Swept, Past, Launching, Unnamed
  <2> QED
    BY <2>1, <2>2, <2>3, <2>4, <2>5, <2>6, <2>7
<1>8. CASE MainExits
  <2>1. SessionTypeOK'
    BY <1>8 DEF MainExits, SessionTypeOK, Cleaners, Steps, Past, Launching
  <2>2. Order'
    BY <1>8 DEF MainExits, Order, SessionTypeOK, Beginning, Cleaners, Steps, Launching
  <2>3. InTime'
    BY <1>8 DEF MainExits, InTime, SessionTypeOK, Order, Cleaners, Steps, Past, Launching, Unnamed,
           OnDisk
  <2>4. LockHeld'
    BY <1>8 DEF MainExits, LockHeld, SessionTypeOK, Order, Cleaners, Steps, Locked
  <2>5. KernelKnown'
    BY <1>8 DEF MainExits, KernelKnown, SessionTypeOK, Order, Beginning, InTime, KernelSafe,
           Cleaners, Steps, Past, Launching
  <2>6. OnDisk'
    BY <1>8 DEF MainExits, OnDisk, SessionTypeOK, Order, Beginning, Cleaners, Steps
  <2>7. Settling'
    BY <1>8 DEF MainExits, Settling, SessionTypeOK, Order, Beginning, InTime, OnDisk, LockHeld,
           FileSafe, Settled, Cleaners, Steps, Locked, Swept, Past, Launching, Unnamed
  <2> QED
    BY <2>1, <2>2, <2>3, <2>4, <2>5, <2>6, <2>7
<1>9. CASE QuitElsewhere
  <2>1. SessionTypeOK'
    BY <1>9 DEF QuitElsewhere, SessionTypeOK, Cleaners, Steps, Past, Launching
  <2>2. Order'
    BY <1>9 DEF QuitElsewhere, Order, SessionTypeOK, Beginning, Cleaners, Steps, Launching
  <2>3. InTime'
    BY <1>9 DEF QuitElsewhere, InTime, SessionTypeOK, Order, Cleaners, Steps, Past, Launching,
           Unnamed, OnDisk
  <2>4. LockHeld'
    BY <1>9 DEF QuitElsewhere, LockHeld, SessionTypeOK, Order, Cleaners, Steps, Locked
  <2>5. KernelKnown'
    BY <1>9 DEF QuitElsewhere, KernelKnown, SessionTypeOK, Order, Beginning, InTime, KernelSafe,
           Cleaners, Steps, Past, Launching
  <2>6. OnDisk'
    BY <1>9 DEF QuitElsewhere, OnDisk, SessionTypeOK, Order, Beginning, Cleaners, Steps
  <2>7. Settling'
    BY <1>9 DEF QuitElsewhere, Settling, SessionTypeOK, Order, Beginning, InTime, OnDisk, LockHeld,
           FileSafe, Settled, Cleaners, Steps, Locked, Swept, Past, Launching, Unnamed
  <2> QED
    BY <2>1, <2>2, <2>3, <2>4, <2>5, <2>6, <2>7
<1> QED
  BY <1>1, <1>2, <1>3, <1>4, <1>5, <1>6, <1>7, <1>8, <1>9 DEF Main

\* FastCollector's steps keep it.
LEMMA CollectingKeeps ==
    ASSUME SessionInv, Collecting
    PROVE  SessionInv'
<1> USE DEF SessionInv, mains, threads, system, tempfile, processes, cleanups
<1>1. CASE OpenBuffer
  <2>1. SessionTypeOK'
    BY <1>1 DEF OpenBuffer, SessionTypeOK, Cleaners, Steps, Past, Launching
  <2>2. Order'
    BY <1>1 DEF OpenBuffer, Order, SessionTypeOK, Beginning, Cleaners, Steps, Launching
  <2>3. InTime'
    BY <1>1 DEF OpenBuffer, InTime, SessionTypeOK, Order, Cleaners, Steps, Past, Launching, Unnamed,
           OnDisk
  <2>4. LockHeld'
    BY <1>1 DEF OpenBuffer, LockHeld, SessionTypeOK, Order, Cleaners, Steps, Locked
  <2>5. KernelKnown'
    BY <1>1 DEF OpenBuffer, KernelKnown, SessionTypeOK, Order, Beginning, InTime, KernelSafe,
           Cleaners, Steps, Past, Launching
  <2>6. OnDisk'
    BY <1>1 DEF OpenBuffer, OnDisk, SessionTypeOK, Order, Beginning, Cleaners, Steps
  <2>7. Settling'
    BY <1>1 DEF OpenBuffer, Settling, SessionTypeOK, Order, Beginning, InTime, OnDisk, LockHeld,
           FileSafe, Settled, Cleaners, Steps, Locked, Swept, Past, Launching, Unnamed
  <2> QED
    BY <2>1, <2>2, <2>3, <2>4, <2>5, <2>6, <2>7
<1>2. CASE StartCapture
  <2>1. SessionTypeOK'
    BY <1>2 DEF StartCapture, SessionTypeOK, Cleaners, Steps, Past, Launching
  <2>2. Order'
    BY <1>2 DEF StartCapture, Order, SessionTypeOK, Beginning, Cleaners, Steps, Launching
  <2>3. InTime'
    BY <1>2 DEF StartCapture, InTime, SessionTypeOK, Order, Cleaners, Steps, Past, Launching,
           Unnamed, OnDisk
  <2>4. LockHeld'
    BY <1>2 DEF StartCapture, LockHeld, SessionTypeOK, Order, Cleaners, Steps, Locked
  <2>5. KernelKnown'
    BY <1>2 DEF StartCapture, KernelKnown, SessionTypeOK, Order, Beginning, InTime, KernelSafe,
           Cleaners, Steps, Past, Launching
  <2>6. OnDisk'
    BY <1>2 DEF StartCapture, OnDisk, SessionTypeOK, Order, Beginning, Cleaners, Steps
  <2>7. Settling'
    BY <1>2 DEF StartCapture, Settling, SessionTypeOK, Order, Beginning, InTime, OnDisk, LockHeld,
           FileSafe, Settled, Cleaners, Steps, Locked, Swept, Past, Launching, Unnamed
  <2> QED
    BY <2>1, <2>2, <2>3, <2>4, <2>5, <2>6, <2>7
<1>3. CASE StartFails
  <2>1. SessionTypeOK'
    BY <1>3 DEF StartFails, SessionTypeOK, Cleaners, Steps, Past, Launching
  <2>2. Order'
    BY <1>3 DEF StartFails, Order, SessionTypeOK, Beginning, Cleaners, Steps, Launching
  <2>3. InTime'
    BY <1>3 DEF StartFails, InTime, SessionTypeOK, Order, Cleaners, Steps, Past, Launching, Unnamed,
           OnDisk
  <2>4. LockHeld'
    BY <1>3 DEF StartFails, LockHeld, SessionTypeOK, Order, Cleaners, Steps, Locked
  <2>5. KernelKnown'
    BY <1>3 DEF StartFails, KernelKnown, SessionTypeOK, Order, Beginning, InTime, KernelSafe,
           Cleaners, Steps, Past, Launching
  <2>6. OnDisk'
    BY <1>3 DEF StartFails, OnDisk, SessionTypeOK, Order, Beginning, Cleaners, Steps
  <2>7. Settling'
    BY <1>3 DEF StartFails, Settling, SessionTypeOK, Order, Beginning, InTime, OnDisk, LockHeld,
           FileSafe, Settled, Cleaners, Steps, Locked, Swept, Past, Launching, Unnamed
  <2> QED
    BY <2>1, <2>2, <2>3, <2>4, <2>5, <2>6, <2>7
<1>4. CASE Capture
  <2>1. SessionTypeOK'
    BY <1>4 DEF Capture, SessionTypeOK, Cleaners, Steps, Past, Launching
  <2>2. Order'
    BY <1>4 DEF Capture, Order, SessionTypeOK, Beginning, Cleaners, Steps, Launching
  <2>3. InTime'
    BY <1>4 DEF Capture, InTime, SessionTypeOK, Order, Cleaners, Steps, Past, Launching, Unnamed,
           OnDisk
  <2>4. LockHeld'
    BY <1>4 DEF Capture, LockHeld, SessionTypeOK, Order, Cleaners, Steps, Locked
  <2>5. KernelKnown'
    BY <1>4 DEF Capture, KernelKnown, SessionTypeOK, Order, Beginning, InTime, KernelSafe, Cleaners,
           Steps, Past, Launching
  <2>6. OnDisk'
    BY <1>4 DEF Capture, OnDisk, SessionTypeOK, Order, Beginning, Cleaners, Steps
  <2>7. Settling'
    BY <1>4 DEF Capture, Settling, SessionTypeOK, Order, Beginning, InTime, OnDisk, LockHeld,
           FileSafe, Settled, Cleaners, Steps, Locked, Swept, Past, Launching, Unnamed
  <2> QED
    BY <2>1, <2>2, <2>3, <2>4, <2>5, <2>6, <2>7
<1> QED
  BY <1>1, <1>2, <1>3, <1>4 DEF Collecting

\* The listener's steps while it launches the collector keep it.
LEMMA LaunchKeeps ==
    ASSUME SessionInv, Launch
    PROVE  SessionInv'
<1> USE DEF SessionInv, mains, threads, system, tempfile, processes, cleanups
<1>1. CASE StartTweaking
  <2>1. SessionTypeOK'
    BY <1>1 DEF StartTweaking, Step, Live, SessionTypeOK, Cleaners, Steps, Past, Launching
  <2>2. Order'
    BY <1>1 DEF StartTweaking, Step, Live, Order, SessionTypeOK, Beginning, Cleaners, Steps,
           Launching
  <2>3. InTime'
    BY <1>1 DEF StartTweaking, Step, Live, InTime, SessionTypeOK, Order, Cleaners, Steps, Past,
           Launching, Unnamed, OnDisk
  <2>4. LockHeld'
    BY <1>1 DEF StartTweaking, Step, Live, LockHeld, SessionTypeOK, Order, Cleaners, Steps, Locked
  <2>5. KernelKnown'
    BY <1>1 DEF StartTweaking, Step, Live, KernelKnown, SessionTypeOK, Order, Beginning, InTime,
           KernelSafe, Cleaners, Steps, Past, Launching
  <2>6. OnDisk'
    BY <1>1 DEF StartTweaking, Step, Live, OnDisk, SessionTypeOK, Order, Beginning, Cleaners, Steps
  <2>7. Settling'
    BY <1>1 DEF StartTweaking, Step, Live, Settling, SessionTypeOK, Order, Beginning, InTime,
           OnDisk, LockHeld, FileSafe, Settled, Cleaners, Steps, Locked, Swept, Past, Launching, Unnamed
  <2> QED
    BY <2>1, <2>2, <2>3, <2>4, <2>5, <2>6, <2>7
<1>2. CASE Tweak
  <2>1. SessionTypeOK'
    BY <1>2 DEF Tweak, Step, SessionTypeOK, Cleaners, Steps, Past, Launching
  <2>2. Order'
    BY <1>2 DEF Tweak, Step, Order, SessionTypeOK, Beginning, Cleaners, Steps, Launching
  <2>3. InTime'
    BY <1>2 DEF Tweak, Step, InTime, SessionTypeOK, Order, Cleaners, Steps, Past, Launching,
           Unnamed, OnDisk
  <2>4. LockHeld'
    BY <1>2 DEF Tweak, Step, LockHeld, SessionTypeOK, Order, Cleaners, Steps, Locked
  <2>5. KernelKnown'
    BY <1>2 DEF Tweak, Step, KernelKnown, SessionTypeOK, Order, Beginning, InTime, KernelSafe,
           Cleaners, Steps, Past, Launching
  <2>6. OnDisk'
    BY <1>2 DEF Tweak, Step, OnDisk, SessionTypeOK, Order, Beginning, Cleaners, Steps
  <2>7. Settling'
    BY <1>2 DEF Tweak, Step, Settling, SessionTypeOK, Order, Beginning, InTime, OnDisk, LockHeld,
           FileSafe, Settled, Cleaners, Steps, Locked, Swept, Past, Launching, Unnamed
  <2> QED
    BY <2>1, <2>2, <2>3, <2>4, <2>5, <2>6, <2>7
<1>3. CASE LaunchCollector
  <2>1. SessionTypeOK'
    BY <1>3 DEF LaunchCollector, Step, Live, SessionTypeOK, Cleaners, Steps, Past, Launching
  <2>2. Order'
    BY <1>3 DEF LaunchCollector, Step, Live, Order, SessionTypeOK, Beginning, Cleaners, Steps,
           Launching
  <2>3. InTime'
    BY <1>3 DEF LaunchCollector, Step, Live, InTime, SessionTypeOK, Order, Cleaners, Steps, Past,
           Launching, Unnamed, OnDisk
  <2>4. LockHeld'
    BY <1>3 DEF LaunchCollector, Step, Live, LockHeld, SessionTypeOK, Order, Cleaners, Steps, Locked
  <2>5. KernelKnown'
    BY <1>3 DEF LaunchCollector, Step, Live, KernelKnown, SessionTypeOK, Order, Beginning, InTime,
           KernelSafe, Cleaners, Steps, Past, Launching
  <2>6. OnDisk'
    BY <1>3 DEF LaunchCollector, Step, Live, OnDisk, SessionTypeOK, Order, Beginning, Cleaners,
           Steps
  <2>7. Settling'
    BY <1>3 DEF LaunchCollector, Step, Live, Settling, SessionTypeOK, Order, Beginning, InTime,
           OnDisk, LockHeld, FileSafe, Settled, Cleaners, Steps, Locked, Swept, Past, Launching, Unnamed
  <2> QED
    BY <2>1, <2>2, <2>3, <2>4, <2>5, <2>6, <2>7
<1>4. CASE LaunchFails
  <2>1. SessionTypeOK'
    BY <1>4 DEF LaunchFails, Step, SessionTypeOK, Cleaners, Steps, Past, Launching
  <2>2. Order'
    BY <1>4 DEF LaunchFails, Step, Order, SessionTypeOK, Beginning, Cleaners, Steps, Launching
  <2>3. InTime'
    BY <1>4 DEF LaunchFails, Step, InTime, SessionTypeOK, Order, Cleaners, Steps, Past, Launching,
           Unnamed, OnDisk
  <2>4. LockHeld'
    BY <1>4 DEF LaunchFails, Step, LockHeld, SessionTypeOK, Order, Cleaners, Steps, Locked
  <2>5. KernelKnown'
    BY <1>4 DEF LaunchFails, Step, KernelKnown, SessionTypeOK, Order, Beginning, InTime, KernelSafe,
           Cleaners, Steps, Past, Launching
  <2>6. OnDisk'
    BY <1>4 DEF LaunchFails, Step, OnDisk, SessionTypeOK, Order, Beginning, Cleaners, Steps
  <2>7. Settling'
    BY <1>4 DEF LaunchFails, Step, Settling, SessionTypeOK, Order, Beginning, InTime, OnDisk,
           LockHeld, FileSafe, Settled, Cleaners, Steps, Locked, Swept, Past, Launching, Unnamed
  <2> QED
    BY <2>1, <2>2, <2>3, <2>4, <2>5, <2>6, <2>7
<1>5. CASE GetTempfileName
  <2>1. SessionTypeOK'
    BY <1>5 DEF GetTempfileName, Step, SessionTypeOK, Cleaners, Steps, Past, Launching
  <2>2. Order'
    BY <1>5 DEF GetTempfileName, Step, Order, SessionTypeOK, Beginning, Cleaners, Steps, Launching
  <2>3. InTime'
    BY <1>5 DEF GetTempfileName, Step, InTime, SessionTypeOK, Order, Cleaners, Steps, Past,
           Launching, Unnamed, OnDisk
  <2>4. LockHeld'
    BY <1>5 DEF GetTempfileName, Step, LockHeld, SessionTypeOK, Order, Cleaners, Steps, Locked
  <2>5. KernelKnown'
    BY <1>5 DEF GetTempfileName, Step, KernelKnown, SessionTypeOK, Order, Beginning, InTime,
           KernelSafe, Cleaners, Steps, Past, Launching
  <2>6. OnDisk'
<3>1. tmpfile' => disk # "none"
BY <1>5 DEF GetTempfileName, OnDisk
<3>2. UNCHANGED <<disk, process, cleaning>>
BY <1>5 DEF GetTempfileName
<3> QED
BY <3>1, <3>2 DEF OnDisk
  <2>7. Settling'
    BY <1>5 DEF GetTempfileName, Step, Settling, SessionTypeOK, Order, Beginning, InTime, OnDisk,
           LockHeld, FileSafe, Settled, Cleaners, Steps, Locked, Swept, Past, Launching, Unnamed
  <2> QED
    BY <2>1, <2>2, <2>3, <2>4, <2>5, <2>6, <2>7
<1>6. CASE MapTempfile
  <2>1. SessionTypeOK'
    BY <1>6 DEF MapTempfile, Step, SessionTypeOK, Cleaners, Steps, Past, Launching
  <2>2. Order'
    BY <1>6 DEF MapTempfile, Step, Order, SessionTypeOK, Beginning, Cleaners, Steps, Launching
  <2>3. InTime'
    BY <1>6 DEF MapTempfile, Step, InTime, SessionTypeOK, Order, Cleaners, Steps, Past, Launching,
           Unnamed, OnDisk
  <2>4. LockHeld'
    BY <1>6 DEF MapTempfile, Step, LockHeld, SessionTypeOK, Order, Cleaners, Steps, Locked
  <2>5. KernelKnown'
    BY <1>6 DEF MapTempfile, Step, KernelKnown, SessionTypeOK, Order, Beginning, InTime, KernelSafe,
           Cleaners, Steps, Past, Launching
  <2>6. OnDisk'
    BY <1>6 DEF MapTempfile, Step, OnDisk, SessionTypeOK, Order, Beginning, Cleaners, Steps
  <2>7. Settling'
    BY <1>6 DEF MapTempfile, Step, Settling, SessionTypeOK, Order, Beginning, InTime, OnDisk,
           LockHeld, FileSafe, Settled, Cleaners, Steps, Locked, Swept, Past, Launching, Unnamed
  <2> QED
    BY <2>1, <2>2, <2>3, <2>4, <2>5, <2>6, <2>7
<1>7. CASE GetPcapDatalink
  <2>1. SessionTypeOK'
    BY <1>7 DEF GetPcapDatalink, Step, SessionTypeOK, Cleaners, Steps, Past, Launching
  <2>2. Order'
    BY <1>7 DEF GetPcapDatalink, Step, Order, SessionTypeOK, Beginning, Cleaners, Steps, Launching
  <2>3. InTime'
    BY <1>7 DEF GetPcapDatalink, Step, InTime, SessionTypeOK, Order, Cleaners, Steps, Past,
           Launching, Unnamed, OnDisk
  <2>4. LockHeld'
    BY <1>7 DEF GetPcapDatalink, Step, LockHeld, SessionTypeOK, Order, Cleaners, Steps, Locked
  <2>5. KernelKnown'
    BY <1>7 DEF GetPcapDatalink, Step, KernelKnown, SessionTypeOK, Order, Beginning, InTime,
           KernelSafe, Cleaners, Steps, Past, Launching
  <2>6. OnDisk'
    BY <1>7 DEF GetPcapDatalink, Step, OnDisk, SessionTypeOK, Order, Beginning, Cleaners, Steps
  <2>7. Settling'
    BY <1>7 DEF GetPcapDatalink, Step, Settling, SessionTypeOK, Order, Beginning, InTime, OnDisk,
           LockHeld, FileSafe, Settled, Cleaners, Steps, Locked, Swept, Past, Launching, Unnamed
  <2> QED
    BY <2>1, <2>2, <2>3, <2>4, <2>5, <2>6, <2>7
<1> QED
  BY <1>1, <1>2, <1>3, <1>4, <1>5, <1>6, <1>7 DEF Launch

\* Its steps while it reads packets, and ends, keep it.
LEMMA ReadingKeeps ==
    ASSUME SessionInv, StartReading \/ ReadOnePacket \/ ListenerCleans \/ ListenerEnds
    PROVE  SessionInv'
<1> USE DEF SessionInv, mains, threads, system, tempfile, processes, cleanups
<1>1. CASE StartReading
  <2>1. SessionTypeOK'
    BY <1>1, ZenonT(40) DEF StartReading, Step, SessionTypeOK, Cleaners, Steps, Past, Launching
  <2>2. Order'
    BY <1>1 DEF StartReading, Step, Order, SessionTypeOK, Beginning, Cleaners, Steps, Launching
  <2>3. InTime'
    BY <1>1 DEF StartReading, Step, InTime, SessionTypeOK, Order, Cleaners, Steps, Past, Launching,
           Unnamed, OnDisk
  <2>4. LockHeld'
    BY <1>1 DEF StartReading, Step, LockHeld, SessionTypeOK, Order, Cleaners, Steps, Locked
  <2>5. KernelKnown'
    BY <1>1 DEF StartReading, Step, KernelKnown, SessionTypeOK, Order, Beginning, InTime,
           KernelSafe, Cleaners, Steps, Past, Launching
  <2>6. OnDisk'
    BY <1>1 DEF StartReading, Step, OnDisk, SessionTypeOK, Order, Beginning, Cleaners, Steps
  <2>7. Settling'
    BY <1>1 DEF StartReading, Step, Settling, SessionTypeOK, Order, Beginning, InTime, OnDisk,
           LockHeld, FileSafe, Settled, Cleaners, Steps, Locked, Swept, Past, Launching, Unnamed
  <2> QED
    BY <2>1, <2>2, <2>3, <2>4, <2>5, <2>6, <2>7
<1>2. CASE ReadOnePacket
  <2>1. SessionTypeOK'
    BY <1>2 DEF ReadOnePacket, SessionTypeOK, Cleaners, Steps, Past, Launching
  <2>2. Order'
    BY <1>2 DEF ReadOnePacket, Order, SessionTypeOK, Beginning, Cleaners, Steps, Launching
  <2>3. InTime'
    BY <1>2 DEF ReadOnePacket, InTime, SessionTypeOK, Order, Cleaners, Steps, Past, Launching,
           Unnamed, OnDisk
  <2>4. LockHeld'
    BY <1>2 DEF ReadOnePacket, LockHeld, SessionTypeOK, Order, Cleaners, Steps, Locked
  <2>5. KernelKnown'
    BY <1>2 DEF ReadOnePacket, KernelKnown, SessionTypeOK, Order, Beginning, InTime, KernelSafe,
           Cleaners, Steps, Past, Launching
  <2>6. OnDisk'
    BY <1>2 DEF ReadOnePacket, OnDisk, SessionTypeOK, Order, Beginning, Cleaners, Steps
  <2>7. Settling'
    BY <1>2 DEF ReadOnePacket, Settling, SessionTypeOK, Order, Beginning, InTime, OnDisk, LockHeld,
           FileSafe, Settled, Cleaners, Steps, Locked, Swept, Past, Launching, Unnamed
  <2> QED
    BY <2>1, <2>2, <2>3, <2>4, <2>5, <2>6, <2>7
<1>3. CASE ListenerCleans
  <2>1. SessionTypeOK'
    BY <1>3 DEF ListenerCleans, Goto, SessionTypeOK, Cleaners, Steps, Past, Launching
  <2>2. Order'
    BY <1>3 DEF ListenerCleans, Goto, Order, SessionTypeOK, Beginning, Cleaners, Steps, Launching
  <2>3. InTime'
    BY <1>3 DEF ListenerCleans, Goto, InTime, SessionTypeOK, Order, Cleaners, Steps, Past,
           Launching, Unnamed, OnDisk
  <2>4. LockHeld'
    BY <1>3 DEF ListenerCleans, Goto, LockHeld, SessionTypeOK, Order, Cleaners, Steps, Locked
  <2>5. KernelKnown'
    BY <1>3 DEF ListenerCleans, Goto, KernelKnown, SessionTypeOK, Order, Beginning, InTime,
           KernelSafe, Cleaners, Steps, Past, Launching
  <2>6. OnDisk'
    BY <1>3 DEF ListenerCleans, Goto, OnDisk, SessionTypeOK, Order, Beginning, Cleaners, Steps
  <2>7. Settling'
    BY <1>3 DEF ListenerCleans, Goto, Settling, SessionTypeOK, Order, Beginning, InTime, OnDisk,
           LockHeld, FileSafe, Settled, Cleaners, Steps, Locked, Swept, Past, Launching, Unnamed
  <2> QED
    BY <2>1, <2>2, <2>3, <2>4, <2>5, <2>6, <2>7
<1>4. CASE ListenerEnds
  <2>1. SessionTypeOK'
    BY <1>4 DEF ListenerEnds, SessionTypeOK, Cleaners, Steps, Past, Launching
  <2>2. Order'
    BY <1>4 DEF ListenerEnds, Order, SessionTypeOK, Beginning, Cleaners, Steps, Launching
  <2>3. InTime'
    BY <1>4 DEF ListenerEnds, InTime, SessionTypeOK, Order, Cleaners, Steps, Past, Launching,
           Unnamed, OnDisk
  <2>4. LockHeld'
    BY <1>4 DEF ListenerEnds, LockHeld, SessionTypeOK, Order, Cleaners, Steps, Locked
  <2>5. KernelKnown'
    BY <1>4 DEF ListenerEnds, KernelKnown, SessionTypeOK, Order, Beginning, InTime, KernelSafe,
           Cleaners, Steps, Past, Launching
  <2>6. OnDisk'
    BY <1>4 DEF ListenerEnds, OnDisk, SessionTypeOK, Order, Beginning, Cleaners, Steps
  <2>7. Settling'
    BY <1>4 DEF ListenerEnds, Settling, SessionTypeOK, Order, Beginning, InTime, OnDisk, LockHeld,
           FileSafe, Settled, Cleaners, Steps, Locked, Swept, Past, Launching, Unnamed
  <2> QED
    BY <2>1, <2>2, <2>3, <2>4, <2>5, <2>6, <2>7
<1> QED
  BY <1>1, <1>2, <1>3, <1>4

\* Each step of cleanup keeps it, whichever thread takes the step.
LEMMA CleanupKeeps ==
    ASSUME SessionInv, NEW t \in Cleaners, Cleanup(t)
    PROVE  SessionInv'
<1> USE DEF SessionInv, mains, threads, system, tempfile, processes, cleanups
<1>1. CASE CleanupLocks(t)
  <2>1. SessionTypeOK'
    BY <1>1, ZenonT(40) DEF CleanupLocks, At, Alive, Goto, SessionTypeOK, Cleaners, Steps, Past,
           Launching
  <2>2. Order'
    BY <1>1 DEF CleanupLocks, At, Alive, Goto, Order, SessionTypeOK, Beginning, Cleaners, Steps,
           Launching
  <2>3. InTime'
    BY <1>1 DEF CleanupLocks, At, Alive, Goto, InTime, SessionTypeOK, Order, Cleaners, Steps, Past,
           Launching, Unnamed, OnDisk
  <2>4. LockHeld'
    BY <1>1 DEF CleanupLocks, At, Alive, Goto, LockHeld, SessionTypeOK, Order, Cleaners, Steps,
           Locked
  <2>5. KernelKnown'
    BY <1>1 DEF CleanupLocks, At, Alive, Goto, KernelKnown, SessionTypeOK, Order, Beginning, InTime,
           KernelSafe, Cleaners, Steps, Past, Launching
  <2>6. OnDisk'
    BY <1>1 DEF CleanupLocks, At, Alive, Goto, OnDisk, SessionTypeOK, Order, Beginning, Cleaners,
           Steps
  <2>7. Settling'
    BY <1>1 DEF CleanupLocks, At, Alive, Goto, Settling, SessionTypeOK, Order, Beginning, InTime,
           OnDisk, LockHeld, FileSafe, Settled, Cleaners, Steps, Locked, Swept, Past, Launching, Unnamed
  <2> QED
    BY <2>1, <2>2, <2>3, <2>4, <2>5, <2>6, <2>7
<1>2. CASE CleanupRestores(t)
  <2>1. SessionTypeOK'
<3>1. cleaning' \in [Cleaners -> Steps]
BY <1>2 DEF CleanupRestores, Goto, SessionTypeOK, Cleaners, Steps, Past
<3> QED
BY <1>2, <3>1, ZenonT(40) DEF CleanupRestores, Goto, SessionTypeOK, Launching
  <2>2. Order'
    BY <1>2 DEF CleanupRestores, At, Alive, Goto, Order, SessionTypeOK, Beginning, Cleaners, Steps,
           Launching
  <2>3. InTime'
    BY <1>2 DEF CleanupRestores, At, Alive, Goto, InTime, SessionTypeOK, Order, Cleaners, Steps,
           Past, Launching, Unnamed, OnDisk
  <2>4. LockHeld'
    BY <1>2 DEF CleanupRestores, At, Alive, Goto, LockHeld, SessionTypeOK, Order, Cleaners, Steps,
           Locked
  <2>5. KernelKnown'
    BY <1>2 DEF CleanupRestores, At, Alive, Goto, KernelKnown, SessionTypeOK, Order, Beginning,
           InTime, KernelSafe, Cleaners, Steps, Past, Launching
  <2>6. OnDisk'
    BY <1>2 DEF CleanupRestores, At, Alive, Goto, OnDisk, SessionTypeOK, Order, Beginning, Cleaners,
           Steps
  <2>7. Settling'
    BY <1>2 DEF CleanupRestores, At, Alive, Goto, Settling, SessionTypeOK, Order, Beginning, InTime,
           OnDisk, LockHeld, FileSafe, Settled, Cleaners, Steps, Locked, Swept, Past, Launching, Unnamed
  <2> QED
    BY <2>1, <2>2, <2>3, <2>4, <2>5, <2>6, <2>7
<1>3. CASE CleanupChecks(t)
  <2>1. SessionTypeOK'
    BY <1>3, ZenonT(40) DEF CleanupChecks, At, Alive, Goto, SessionTypeOK, Cleaners, Steps, Past,
           Launching
  <2>2. Order'
    BY <1>3 DEF CleanupChecks, At, Alive, Goto, Order, SessionTypeOK, Beginning, Cleaners, Steps,
           Launching
  <2>3. InTime'
    BY <1>3 DEF CleanupChecks, At, Alive, Goto, InTime, SessionTypeOK, Order, Cleaners, Steps, Past,
           Launching, Unnamed, OnDisk
  <2>4. LockHeld'
    BY <1>3 DEF CleanupChecks, At, Alive, Goto, LockHeld, SessionTypeOK, Order, Cleaners, Steps,
           Locked
  <2>5. KernelKnown'
    BY <1>3 DEF CleanupChecks, At, Alive, Goto, KernelKnown, SessionTypeOK, Order, Beginning,
           InTime, KernelSafe, Cleaners, Steps, Past, Launching
  <2>6. OnDisk'
    BY <1>3 DEF CleanupChecks, At, Alive, Goto, OnDisk, SessionTypeOK, Order, Beginning, Cleaners,
           Steps
  <2>7. Settling'
    BY <1>3 DEF CleanupChecks, At, Alive, Goto, Settling, SessionTypeOK, Order, Beginning, InTime,
           OnDisk, LockHeld, FileSafe, Settled, Cleaners, Steps, Locked, Swept, Past, Launching, Unnamed
  <2> QED
    BY <2>1, <2>2, <2>3, <2>4, <2>5, <2>6, <2>7
<1>4. CASE CleanupCloses(t)
  <2>1. SessionTypeOK'
<3>1. cleaning' \in [Cleaners -> Steps]
BY <1>4 DEF CleanupCloses, Goto, Raise, SessionTypeOK, Cleaners, Steps, Past
<3> QED
BY <1>4, <3>1, ZenonT(40) DEF CleanupCloses, Goto, Raise, SessionTypeOK, Launching
  <2>2. Order'
    BY <1>4 DEF CleanupCloses, At, Alive, Goto, Raise, Order, SessionTypeOK, Beginning, Cleaners,
           Steps, Launching
  <2>3. InTime'
    BY <1>4 DEF CleanupCloses, At, Alive, Goto, Raise, InTime, SessionTypeOK, Order, Cleaners,
           Steps, Past, Launching, Unnamed, OnDisk
  <2>4. LockHeld'
    BY <1>4 DEF CleanupCloses, At, Alive, Goto, Raise, LockHeld, SessionTypeOK, Order, Cleaners,
           Steps, Locked
  <2>5. KernelKnown'
    BY <1>4 DEF CleanupCloses, At, Alive, Goto, Raise, KernelKnown, SessionTypeOK, Order, Beginning,
           InTime, KernelSafe, Cleaners, Steps, Past, Launching
  <2>6. OnDisk'
    BY <1>4 DEF CleanupCloses, At, Alive, Goto, Raise, OnDisk, SessionTypeOK, Order, Beginning,
           Cleaners, Steps
  <2>7. Settling'
    BY <1>4 DEF CleanupCloses, At, Alive, Goto, Raise, Settling, SessionTypeOK, Order, Beginning,
           InTime, OnDisk, LockHeld, FileSafe, Settled, Cleaners, Steps, Locked, Swept, Past, Launching,
           Unnamed
  <2> QED
    BY <2>1, <2>2, <2>3, <2>4, <2>5, <2>6, <2>7
<1>5. CASE CleanupShreds(t)
  <2>1. SessionTypeOK'
<3>1. cleaning' \in [Cleaners -> Steps]
BY <1>5 DEF CleanupShreds, Goto, SessionTypeOK, Cleaners, Steps, Past
<3> QED
BY <1>5, <3>1, ZenonT(40) DEF CleanupShreds, Goto, SessionTypeOK, Launching
  <2>2. Order'
    BY <1>5 DEF CleanupShreds, At, Alive, Goto, Order, SessionTypeOK, Beginning, Cleaners, Steps,
           Launching
  <2>3. InTime'
    BY <1>5 DEF CleanupShreds, At, Alive, Goto, InTime, SessionTypeOK, Order, Cleaners, Steps, Past,
           Launching, Unnamed, OnDisk
  <2>4. LockHeld'
    BY <1>5 DEF CleanupShreds, At, Alive, Goto, LockHeld, SessionTypeOK, Order, Cleaners, Steps,
           Locked
  <2>5. KernelKnown'
    BY <1>5 DEF CleanupShreds, At, Alive, Goto, KernelKnown, SessionTypeOK, Order, Beginning,
           InTime, KernelSafe, Cleaners, Steps, Past, Launching
  <2>6. OnDisk'
    BY <1>5 DEF CleanupShreds, At, Alive, Goto, OnDisk, SessionTypeOK, Order, Beginning, Cleaners,
           Steps
  <2>7. Settling'
    BY <1>5 DEF CleanupShreds, At, Alive, Goto, Settling, SessionTypeOK, Order, Beginning, InTime,
           OnDisk, LockHeld, FileSafe, Settled, Cleaners, Steps, Locked, Swept, Past, Launching, Unnamed
  <2> QED
    BY <2>1, <2>2, <2>3, <2>4, <2>5, <2>6, <2>7
<1>6. CASE CleanupOverwrites(t)
  <2>1. SessionTypeOK'
<3>1. cleaning' \in [Cleaners -> Steps]
BY <1>6 DEF CleanupOverwrites, Goto, Raise, SessionTypeOK, Cleaners, Steps, Past
<3> QED
BY <1>6, <3>1, ZenonT(40) DEF CleanupOverwrites, Goto, Raise, SessionTypeOK, Launching
  <2>2. Order'
    BY <1>6 DEF CleanupOverwrites, At, Alive, Goto, Raise, Order, SessionTypeOK, Beginning,
           Cleaners, Steps, Launching
  <2>3. InTime'
    BY <1>6 DEF CleanupOverwrites, At, Alive, Goto, Raise, InTime, SessionTypeOK, Order, Cleaners,
           Steps, Past, Launching, Unnamed, OnDisk
  <2>4. LockHeld'
    BY <1>6 DEF CleanupOverwrites, At, Alive, Goto, Raise, LockHeld, SessionTypeOK, Order, Cleaners,
           Steps, Locked
  <2>5. KernelKnown'
    BY <1>6 DEF CleanupOverwrites, At, Alive, Goto, Raise, KernelKnown, SessionTypeOK, Order,
           Beginning, InTime, KernelSafe, Cleaners, Steps, Past, Launching
  <2>6. OnDisk'
    BY <1>6 DEF CleanupOverwrites, At, Alive, Goto, Raise, OnDisk, SessionTypeOK, Order, Beginning,
           Cleaners, Steps
  <2>7. Settling'
    BY <1>6 DEF CleanupOverwrites, At, Alive, Goto, Raise, Settling, SessionTypeOK, Order,
           Beginning, InTime, OnDisk, LockHeld, FileSafe, Settled, Cleaners, Steps, Locked, Swept, Past,
           Launching, Unnamed
  <2> QED
    BY <2>1, <2>2, <2>3, <2>4, <2>5, <2>6, <2>7
<1>7. CASE CleanupUnlinks(t)
  <2>1. SessionTypeOK'
<3>1. cleaning' \in [Cleaners -> Steps]
BY <1>7 DEF CleanupUnlinks, Goto, Raise, SessionTypeOK, Cleaners, Steps, Past
<3> QED
BY <1>7, <3>1, ZenonT(40) DEF CleanupUnlinks, Goto, Raise, SessionTypeOK, Launching
  <2>2. Order'
    BY <1>7 DEF CleanupUnlinks, At, Alive, Goto, Raise, Order, SessionTypeOK, Beginning, Cleaners,
           Steps, Launching
  <2>3. InTime'
    BY <1>7 DEF CleanupUnlinks, At, Alive, Goto, Raise, InTime, SessionTypeOK, Order, Cleaners,
           Steps, Past, Launching, Unnamed, OnDisk
  <2>4. LockHeld'
    BY <1>7 DEF CleanupUnlinks, At, Alive, Goto, Raise, LockHeld, SessionTypeOK, Order, Cleaners,
           Steps, Locked
  <2>5. KernelKnown'
    BY <1>7 DEF CleanupUnlinks, At, Alive, Goto, Raise, KernelKnown, SessionTypeOK, Order,
           Beginning, InTime, KernelSafe, Cleaners, Steps, Past, Launching
  <2>6. OnDisk'
    BY <1>7 DEF CleanupUnlinks, At, Alive, Goto, Raise, OnDisk, SessionTypeOK, Order, Beginning,
           Cleaners, Steps
  <2>7. Settling'
    BY <1>7 DEF CleanupUnlinks, At, Alive, Goto, Raise, Settling, SessionTypeOK, Order, Beginning,
           InTime, OnDisk, LockHeld, FileSafe, Settled, Cleaners, Steps, Locked, Swept, Past, Launching,
           Unnamed
  <2> QED
    BY <2>1, <2>2, <2>3, <2>4, <2>5, <2>6, <2>7
<1>8. CASE CleanupReleases(t)
  <2>1. SessionTypeOK'
    BY <1>8, ZenonT(40) DEF CleanupReleases, At, Alive, Goto, SessionTypeOK, Cleaners, Steps, Past,
           Launching
  <2>2. Order'
    BY <1>8 DEF CleanupReleases, At, Alive, Goto, Order, SessionTypeOK, Beginning, Cleaners, Steps,
           Launching
  <2>3. InTime'
    BY <1>8 DEF CleanupReleases, At, Alive, Goto, InTime, SessionTypeOK, Order, Cleaners, Steps,
           Past, Launching, Unnamed, OnDisk
  <2>4. LockHeld'
    BY <1>8 DEF CleanupReleases, At, Alive, Goto, LockHeld, SessionTypeOK, Order, Cleaners, Steps,
           Locked
  <2>5. KernelKnown'
    BY <1>8 DEF CleanupReleases, At, Alive, Goto, KernelKnown, SessionTypeOK, Order, Beginning,
           InTime, KernelSafe, Cleaners, Steps, Past, Launching
  <2>6. OnDisk'
    BY <1>8 DEF CleanupReleases, At, Alive, Goto, OnDisk, SessionTypeOK, Order, Beginning, Cleaners,
           Steps
  <2>7. Settling'
    BY <1>8 DEF CleanupReleases, At, Alive, Goto, Settling, SessionTypeOK, Order, Beginning, InTime,
           OnDisk, LockHeld, FileSafe, Settled, Cleaners, Steps, Locked, Swept, Past, Launching, Unnamed
  <2> QED
    BY <2>1, <2>2, <2>3, <2>4, <2>5, <2>6, <2>7
<1>9. CASE CleanupForgets(t)
  <2>1. SessionTypeOK'
    BY <1>9, ZenonT(40) DEF CleanupForgets, At, Alive, Goto, SessionTypeOK, Cleaners, Steps, Past,
           Launching
  <2>2. Order'
    BY <1>9 DEF CleanupForgets, At, Alive, Goto, Order, SessionTypeOK, Beginning, Cleaners, Steps,
           Launching
  <2>3. InTime'
    BY <1>9 DEF CleanupForgets, At, Alive, Goto, InTime, SessionTypeOK, Order, Cleaners, Steps,
           Past, Launching, Unnamed, OnDisk
  <2>4. LockHeld'
    BY <1>9 DEF CleanupForgets, At, Alive, Goto, LockHeld, SessionTypeOK, Order, Cleaners, Steps,
           Locked
  <2>5. KernelKnown'
    BY <1>9 DEF CleanupForgets, At, Alive, Goto, KernelKnown, SessionTypeOK, Order, Beginning,
           InTime, KernelSafe, Cleaners, Steps, Past, Launching
  <2>6. OnDisk'
    BY <1>9 DEF CleanupForgets, At, Alive, Goto, OnDisk, SessionTypeOK, Order, Beginning, Cleaners,
           Steps
  <2>7. Settling'
    BY <1>9 DEF CleanupForgets, At, Alive, Goto, Settling, SessionTypeOK, Order, Beginning, InTime,
           OnDisk, LockHeld, FileSafe, Settled, Cleaners, Steps, Locked, Swept, Past, Launching, Unnamed
  <2> QED
    BY <2>1, <2>2, <2>3, <2>4, <2>5, <2>6, <2>7
<1> QED
  BY <1>1, <1>2, <1>3, <1>4, <1>5, <1>6, <1>7, <1>8, <1>9 DEF Cleanup

\* A client that has not started has nothing to clean up.
LEMMA InitSession == SessionInit => SessionInv
  BY DEF SessionInit, SessionInv, SessionTypeOK, Order, InTime, LockHeld, KernelKnown, OnDisk,
         Settling, Beginning, Cleaners, Steps, Past, Swept, Locked, Launching, Unnamed

\* The invariant speaks of the variables only.
LEMMA StutteringKeepsSession ==
    ASSUME SessionInv, UNCHANGED sessionVars
    PROVE  SessionInv'
<1> USE DEF sessionVars, mains, threads, system, tempfile, processes, cleanups, SessionInv
<1>1. SessionTypeOK'
  BY ZenonT(40) DEF SessionTypeOK
<1>5. LockHeld' /\ OnDisk'
  BY ZenonT(40) DEF LockHeld, OnDisk
<1>2. Order' /\ InTime'
  BY DEF Order, InTime, Beginning
<1>3. KernelKnown'
  BY DEF KernelKnown, KernelSafe
<1>4. Settling'
  BY DEF Settling, Settled, FileSafe
<1> QED
  BY <1>1, <1>2, <1>3, <1>4, <1>5

\* The invariant is inductive.
LEMMA SessionInvHolds == SessionSpec => []SessionInv
<1>1. SessionInv /\ [SessionNext]_sessionVars => SessionInv'
  BY MainKeeps, CollectingKeeps, LaunchKeeps, ReadingKeeps, CleanupKeeps, StutteringKeepsSession
     DEF SessionNext, Listening, Cleaners
<1> QED
  BY <1>1, InitSession, PTL DEF SessionSpec

-----------------------------------------------------------------------------
(* The theorems *)

\* The two threads that may clean up never both do what is done under the
\* lock: restore, unmap, shred and delete; not even when main is interrupted,
\* which may leave the lock with it, or with nobody.
THEOREM CleanupsExclude ==
    SessionSpec => [](~(cleaning["main"] \in Locked /\ cleaning["listener"] \in Locked))
<1>1. SessionInv => ~(cleaning["main"] \in Locked /\ cleaning["listener"] \in Locked)
  BY DEF SessionInv, LockHeld
<1> QED
  BY <1>1, SessionInvHolds, PTL

\* No tempfile with packets is left by a client that exits, unless main was too
\* early, interrupted in its cleanup or killed, or the listener could not map
\* the tempfile or renice the collector.
THEOREM NothingLeft == SessionSpec => []NoPacketsLeft
<1>1. SessionInv => NoPacketsLeft
  BY DEF SessionInv, NoPacketsLeft, CutShort, FileSafe, Order, Beginning, Settling, Settled, Cleaners, Swept
<1> QED
  BY <1>1, SessionInvHolds, PTL

\* Nor, on Linux, are changed settings of the kernel, unless main was too early,
\* interrupted in its cleanup or killed, or not all settings could be changed,
\* or restored.
THEOREM KernelRestored == SessionSpec => []KernelIsRestored
<1>1. SessionInv => KernelIsRestored
  BY DEF SessionInv, KernelIsRestored, CutShort, KernelSafe, KernelKnown, Order, Beginning, Past
<1> QED
  BY <1>1, SessionInvHolds, PTL

-----------------------------------------------------------------------------
(* The ring, as it is used by a client *)

\* Every step of a client's session is one of the ring's, or leaves it alone:
\* so, whenever it starts, stops or fails, the ring is the queue it should be.
THEOREM SessionImplementsQueue == SessionSpec => ImplementsQueue
<1>1. SessionInit => Init
  BY DEF SessionInit
<1>2. SessionNext => Next \/ UNCHANGED vars
  BY DEF SessionNext, Main, MainStarts, MainFails, MainReady, MainWakes, MainInterrupted,
       MainInterruptedAgain, MainKilled, MainExits, QuitElsewhere, Collecting, OpenBuffer,
       StartCapture, StartFails, Capture, Listening, Launch, StartTweaking, Tweak, LaunchCollector,
       LaunchFails, GetTempfileName, MapTempfile, GetPcapDatalink, StartReading, ReadOnePacket,
       ListenerCleans, ListenerEnds, Cleanup, CleanupLocks, CleanupRestores, CleanupChecks,
       CleanupCloses, CleanupShreds, CleanupOverwrites, CleanupUnlinks, CleanupReleases,
       CleanupForgets, ring, vars, Next
<1>3. UNCHANGED sessionVars => UNCHANGED vars
  BY DEF sessionVars, ring, vars
<1>4. SessionSpec => Spec
  BY <1>1, <1>2, <1>3, PTL DEF SessionSpec, Spec
<1> QED
  BY <1>4, RingImplementsQueue
=============================================================================
