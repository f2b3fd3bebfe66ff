------------------------------- MODULE Context ------------------------------
(***************************************************************************)
(* The context of a forgery.  When the server has found packets that nobody *)
(* sent, it asks the receiver for them and their neighbours (fi-context),   *)
(* and then the sender for what may have become of them (fo-context).  Both *)
(* are looked for in the queue of a flow, which is a sequence of batches.   *)
(*                                                                         *)
(* A packet is its number n within the flow and the time at of its capture. *)
(***************************************************************************)
EXTENDS Integers, Sequences, FiniteSets, SequencesExt

CONSTANTS
    hash_of,                \* number of a packet -> its hash, without IP id
    fi_context_before,      \* Protocol
    fi_context_after,
    fi_context_cutoff_time,
    fo_context_max

ASSUME ContextConstants ==
    /\ fi_context_before \in Nat /\ fi_context_after \in Nat
    /\ fi_context_cutoff_time \in Nat /\ fo_context_max \in Nat

Oldest(batch) == Head(batch).at
Newest(batch) == Last(batch).at

AllPackets(queue) == FlattenSeq(queue)

-----------------------------------------------------------------------------
(* fi-context: get_fi_context.  A position in a queue is <<batch, packet>>. *)

Nowhere == <<0, 0>>

\* Where the first packet of the batch with this hash is, or 0.
FindHash(batch, hash) == SelectInSeq(batch, LAMBDA p : hash_of[p.n] = hash)

\* The first batch with this timestamp and hash; the search ends at a batch
\* that is past the point of interest.
FindBatch(queue, ts, hash) ==
    LET found(i) == Newest(queue[i]) = ts /\ FindHash(queue[i], hash) # 0
        past(i)  == Newest(queue[i]) > ts + fi_context_cutoff_time
        here     == {i \in DOMAIN queue :
                        found(i) /\ \A j \in 1..(i - 1) : ~found(j) /\ ~past(j)}
    IN  IF here = {} THEN 0 ELSE CHOOSE i \in here : TRUE

PacketAt(queue, pos) == queue[pos[1]][pos[2]]

StepBack(queue, pos) ==
    IF pos[2] > 1 THEN <<pos[1], pos[2] - 1>>
    ELSE IF pos[1] > 1 THEN <<pos[1] - 1, Len(queue[pos[1] - 1])>>
    ELSE Nowhere

StepOn(queue, pos) ==
    IF pos[2] < Len(queue[pos[1]]) THEN <<pos[1], pos[2] + 1>>
    ELSE IF pos[1] < Len(queue) THEN <<pos[1] + 1, 1>>
    ELSE Nowhere

\* The packets met in so many steps from start, as long as they are wanted.
Walk(queue, start, num, Step(_, _), Wanted(_)) ==
    LET pos[k \in 0..num] ==
            IF k = 0 THEN start
            ELSE IF pos[k - 1] = Nowhere THEN Nowhere
            ELSE LET next == Step(queue, pos[k - 1])
                 IN  IF next # Nowhere /\ Wanted(PacketAt(queue, next))
                     THEN next ELSE Nowhere
        met == SelectSeq([k \in 1..num |-> pos[k]], LAMBDA p : p # Nowhere)
    IN  [k \in DOMAIN met |-> PacketAt(queue, met[k])]

BeforeContext(queue, start, oldest_wanted) ==
    Walk(queue, start, fi_context_before, StepBack,
         LAMBDA p : p.at >= oldest_wanted)

AfterContext(queue, start, newest_wanted) ==
    Walk(queue, start, fi_context_after, StepOn,
         LAMBDA p : p.at <= newest_wanted)

\* get_fi_context, given the packets shown so far (Packet.reported): the
\* packet with the hash and those of its neighbours that are not yet shown,
\* or nothing.
FiContext(queue, ts, hash, shown) ==
    LET b        == FindBatch(queue, ts, hash)
        start    == <<b, FindHash(queue[b], hash)>>
        unshown(p) == p \notin shown
    IN  IF b = 0 THEN <<>>
        ELSE <<PacketAt(queue, start)>>
             \o SelectSeq(BeforeContext(queue, start, ts - fi_context_cutoff_time),
                          unshown)
             \o SelectSeq(AfterContext(queue, start, ts + fi_context_cutoff_time),
                          unshown)

-----------------------------------------------------------------------------
(* fo-context: get_fo_context_and_diff.  A packet matches if it has the IP  *)
(* id or TCP sequence number of the forgery, or a hash of its context; here *)
(* matching is just a set of packets.                                       *)

NoScan == [matches |-> <<>>, begun |-> FALSE, num |-> 0, after_max |-> 0]

\* Bug: does not count anew after a match.
ScanPacketOnwards(scan, p, matching) ==
    IF p \in matching
      THEN [scan EXCEPT !.matches = Append(@, p), !.begun = TRUE]
    ELSE IF scan.begun /\ scan.num < fo_context_max
      THEN [scan EXCEPT !.matches = Append(@, p), !.num = @ + 1,
                        !.after_max = @ + 1]
    ELSE scan

\* Takes a packet that matches, and others once one has been found.
ScanPacket(scan, p, matching) ==
    IF p \in matching
      THEN [scan EXCEPT !.matches = Append(@, p), !.begun = TRUE,
                        !.after_max = 0]
    ELSE IF scan.begun /\ scan.num < fo_context_max
      THEN [scan EXCEPT !.matches = Append(@, p), !.num = @ + 1,
                        !.after_max = @ + 1]
    ELSE scan

\* Those that came after the last match are taken off again.
FoContext(queue, matching) ==
    LET scan == FoldLeft(LAMBDA s, p : ScanPacket(s, p, matching), NoScan,
                         AllPackets(queue))
    IN  SubSeq(scan.matches, 1, Len(scan.matches) - scan.after_max)

-----------------------------------------------------------------------------
(* What the contexts should be, in terms of one sequence of packets. *)

\* The packets of seq from position first to last.
Stretch(seq, first, last) ==
    SubSeq(seq, IF first < 1 THEN 1 ELSE first,
                IF last > Len(seq) THEN Len(seq) ELSE last)

\* The packet at position k and its neighbours on both sides that are not too
\* far from ts in time.
Neighbourhood(seq, k, ts) ==
    LET near == SelectSeq(Stretch(seq, k - fi_context_before, k + fi_context_after),
                          LAMBDA p : p.at + fi_context_cutoff_time >= ts
                                     /\ p.at <= ts + fi_context_cutoff_time)
    IN  {near[i] : i \in DOMAIN near} \cup {seq[k]}

\* All that match, and the first fo_context_max others between two of them.
Span(seq, matching) ==
    LET between(k) == /\ \E i \in 1..(k - 1) : seq[i] \in matching
                      /\ \E i \in (k + 1)..Len(seq) : seq[i] \in matching
        others     == {k \in DOMAIN seq : seq[k] \notin matching /\ between(k)}
        first      == {k \in others : Cardinality({j \in others : j < k}) < fo_context_max}
    IN  SelectSeq(seq, LAMBDA p : p \in matching \/ \E k \in first : seq[k] = p)
=============================================================================
