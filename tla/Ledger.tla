------------------------------- MODULE Ledger -------------------------------
(***************************************************************************)
(* What one Reconciliator promises, without its data structures.           *)
(*                                                                         *)
(* A Switzerland server keeps, for each one-way flow between two clients,  *)
(* an account of the packets that the sender (Alice) says she sent and of  *)
(* those the receiver (Bob) says he received.  Packets are known by their  *)
(* hash only and come in batches that carry one timestamp.  A hash that    *)
(* both sides have reported is cancelled ("okay").  What Bob has and Alice *)
(* does not, once Alice's own reports have passed it by more than the      *)
(* clock skew, is a forgery; what Alice has and Bob does not, once Bob's   *)
(* reports have passed it by more than drop_timeout, was dropped.          *)
(*                                                                         *)
(* Per hash, the account is a queue of the timestamps still pending on     *)
(* each side, oldest first.  The module Reconciliator holds the code's     *)
(* lists of batches and its dictionaries, and is checked to implement      *)
(* this one.  The scalar counters okay_packets, forged_packets and         *)
(* dropped_packets of the code are the sums over Hash of the functions     *)
(* here; total_sent and total_recd are history variables.                  *)
(***************************************************************************)
EXTENDS Naturals, Sequences, FiniteSets

CONSTANTS
    Hash,           \* packet hashes
    Skews,          \* values max_clock_skew may take
    drop_timeout,   \* a packet unseen for longer than this was dropped
    Horizon,        \* BOUND: the last timestamp a client reports
    Infinity,       \* the 1e308 of final_judgement, later than any deadline
    MaxPackets      \* BOUND: packets of one hash that one side reports

ASSUME LedgerConstants ==
    /\ Skews \subseteq Nat
    /\ drop_timeout \in Nat
    /\ Horizon \in Nat
    /\ MaxPackets \in Nat
    /\ Infinity \in Nat
    /\ Infinity > Horizon + drop_timeout
    /\ \A s \in Skews : Infinity > Horizon + s

VARIABLES
    sent,           \* per hash, timestamps of packets only Alice reported
    recd,           \* per hash, timestamps of packets only Bob reported
    newest_a,       \* newest_information_from_a
    newest_b,       \* newest_information_from_b
    ready,          \* both sides of the flow are known
    skew,           \* max_clock_skew, meaningful once ready
    finalized,      \* final_judgement has been passed
    okay, forged, dropped,      \* verdicts, per hash
    total_sent, total_recd      \* history: packets reported, per hash

pending  == <<sent, recd>>
clocks   == <<newest_a, newest_b>>
verdicts == <<okay, forged, dropped>>
totals   == <<total_sent, total_recd>>
vars     == <<pending, clocks, ready, skew, finalized, verdicts, totals>>

-----------------------------------------------------------------------------
(* Queues and counters, hash by hash. *)

Count == [Hash -> Nat]
Queue == [Hash -> Seq(Nat)]

\* The batches a client may report: at least one packet.
Batch == {b \in [Hash -> 0..MaxPackets] : \E h \in Hash : b[h] > 0}

Nothing == [h \in Hash |-> 0]

Plus(f, g) == [h \in Hash |-> f[h] + g[h]]

\* How many packets of a new batch the other side has already reported.
Matched(b, other) ==
    [h \in Hash |-> IF b[h] <= Len(other[h]) THEN b[h] ELSE Len(other[h])]

\* Bug: forgets the youngest entries.
DiscardYoungest(q, n) == [h \in Hash |-> SubSeq(q[h], 1, Len(q[h]) - n[h])]

\* Forget the n[h] oldest entries of each queue.
Discard(q, n) == [h \in Hash |-> SubSeq(q[h], n[h] + 1, Len(q[h]))]

\* Bug: puts new packets before older ones.
EnqueueFirst(q, n, t) == [h \in Hash |-> [i \in 1..n[h] |-> t] \o q[h]]

\* Add n[h] packets with timestamp t to each queue.
Enqueue(q, n, t) == [h \in Hash |-> q[h] \o [i \in 1..n[h] |-> t]]

\* Bug: what was cancelled stays in the new batch.
LeftWhole(b, m) == b

\* Packets not cancelled by the other side.
Left(b, m) == [h \in Hash |-> b[h] - m[h]]

\* Bug: the grace period is not granted.
OverdueNoGrace(q, grace, newest) ==
    [h \in Hash |-> Cardinality({i \in DOMAIN q[h] : q[h][i] < newest})]

\* Bug: looks at the oldest entry only.
OverdueFirst(q, grace, newest) ==
    [h \in Hash |->
        IF q[h] # <<>> /\ Head(q[h]) + grace < newest THEN 1 ELSE 0]

\* How many entries of each queue are older than newest by more than grace:
\* scan_batches goes through them from the oldest.
Overdue(q, grace, newest) ==
    [h \in Hash |->
        Cardinality({i \in DOMAIN q[h] : q[h][i] + grace < newest})]

\* __check_for_forgeries and check_for_drops judge nothing before both
\* sides of the flow are known.
Judged(q, grace, newest) ==
    IF ready THEN Overdue(q, grace, newest) ELSE Nothing

-----------------------------------------------------------------------------
Init ==
    /\ sent = [h \in Hash |-> <<>>]
    /\ recd = [h \in Hash |-> <<>>]
    /\ newest_a = 0 /\ newest_b = 0
    /\ ready = FALSE /\ skew = 0
    /\ finalized = FALSE
    /\ okay = Nothing /\ forged = Nothing /\ dropped = Nothing
    /\ total_sent = Nothing /\ total_recd = Nothing

\* Both sides are known, or one of them has another link: the skew allowed
\* for is the largest any of the links has admitted to.
Pair(s) ==
    /\ ready => s >= skew
    /\ ready' = TRUE
    /\ skew' = s
    /\ UNCHANGED <<pending, clocks, finalized, verdicts, totals>>

\* A "sent" message from Alice: cancel, remember what is left, then look for
\* forgeries and for drops.
ReportSent(t, b) ==
    LET m    == Matched(b, recd)
        rest == Discard(recd, m)
        all  == Enqueue(sent, Left(b, m), t)
        f    == Judged(rest, skew, t)
        d    == Judged(all, drop_timeout, newest_b)
    IN  /\ ~finalized
        /\ t >= newest_a
        /\ newest_a' = t
        /\ recd' = Discard(rest, f)
        /\ sent' = Discard(all, d)
        /\ okay' = Plus(okay, m)
        /\ forged' = Plus(forged, f)
        /\ dropped' = Plus(dropped, d)
        /\ total_sent' = Plus(total_sent, b)
        /\ UNCHANGED <<newest_b, ready, skew, finalized, total_recd>>

\* Bug: "recd" does not cancel what Alice has reported.
ReportRecdUnmatched(t, b) ==
    LET all == Enqueue(recd, b, t)
        f   == Judged(all, skew, newest_a)
    IN  /\ ~finalized
        /\ t >= newest_b
        /\ newest_b' = t
        /\ recd' = Discard(all, f)
        /\ forged' = Plus(forged, f)
        /\ total_recd' = Plus(total_recd, b)
        /\ UNCHANGED <<newest_a, sent, ready, skew, finalized, okay, dropped,
                       total_sent>>

\* A "recd" message from Bob: cancel, remember what is left, then look for
\* forgeries.  Drops wait for Alice's next message.
ReportRecd(t, b) ==
    LET m   == Matched(b, sent)
        all == Enqueue(recd, Left(b, m), t)
        f   == Judged(all, skew, newest_a)
    IN  /\ ~finalized
        /\ t >= newest_b
        /\ newest_b' = t
        /\ sent' = Discard(sent, m)
        /\ recd' = Discard(all, f)
        /\ okay' = Plus(okay, m)
        /\ forged' = Plus(forged, f)
        /\ total_recd' = Plus(total_recd, b)
        /\ UNCHANGED <<newest_a, ready, skew, finalized, dropped, total_sent>>

\* A client says that it was idle up to t (alice_sent_flow_status and
\* bob_sent_flow_status): only the clock advances, and with it the deadlines.
StatusA(t) ==
    LET f == Judged(recd, skew, t)
    IN  /\ ~finalized
        /\ t >= newest_a
        /\ newest_a' = t
        /\ recd' = Discard(recd, f)
        /\ forged' = Plus(forged, f)
        /\ UNCHANGED <<sent, newest_b, ready, skew, finalized, okay, dropped,
                       totals>>

StatusB(t) ==
    LET d == Judged(sent, drop_timeout, t)
    IN  /\ ~finalized
        /\ t >= newest_b
        /\ newest_b' = t
        /\ sent' = Discard(sent, d)
        /\ dropped' = Plus(dropped, d)
        /\ UNCHANGED <<recd, newest_a, ready, skew, finalized, okay, forged,
                       totals>>

\* Both clocks are taken to be at infinity, so that everything pending is
\* judged, and the account is closed.
FinalJudgement ==
    LET f == Judged(recd, skew, Infinity)
        d == Judged(sent, drop_timeout, Infinity)
    IN  /\ ~finalized
        /\ finalized' = TRUE
        /\ newest_a' = Infinity
        /\ newest_b' = Infinity
        /\ recd' = Discard(recd, f)
        /\ sent' = Discard(sent, d)
        /\ forged' = Plus(forged, f)
        /\ dropped' = Plus(dropped, d)
        /\ UNCHANGED <<ready, skew, okay, totals>>

\* BOUNDS: timestamps up to Horizon, MaxPackets of a hash from one side.
Next ==
    \/ \E s \in Skews : Pair(s)
    \/ \E t \in 0..Horizon, b \in Batch :
          /\ \A h \in Hash : total_sent[h] + b[h] <= MaxPackets
          /\ ReportSent(t, b)
    \/ \E t \in 0..Horizon, b \in Batch :
          /\ \A h \in Hash : total_recd[h] + b[h] <= MaxPackets
          /\ ReportRecd(t, b)
    \/ \E t \in 0..Horizon : StatusA(t) \/ StatusB(t)
    \/ FinalJudgement

Spec == Init /\ [][Next]_vars

-----------------------------------------------------------------------------
(* Properties *)

TypeOK ==
    /\ sent \in Queue /\ recd \in Queue
    /\ newest_a \in Nat /\ newest_b \in Nat
    /\ ready \in BOOLEAN /\ finalized \in BOOLEAN
    /\ skew \in Skews \cup {0}
    /\ okay \in Count /\ forged \in Count /\ dropped \in Count
    /\ total_sent \in Count /\ total_recd \in Count

\* Every packet a client has reported is accounted for exactly once: it was
\* cancelled, it is pending, or it was judged.  No batch is lost or counted
\* twice on its way through discarding and scanning.
Conservation ==
    \A h \in Hash :
        /\ total_sent[h] = okay[h] + Len(sent[h]) + dropped[h]
        /\ total_recd[h] = okay[h] + Len(recd[h]) + forged[h]

\* No hash is pending on both sides.  scan_batches asserts it ("hash not in
\* other_dict") before each verdict; it depends on both report handlers
\* cancelling all they can, whatever the order of the reports.
NeverBothPending == \A h \in Hash : sent[h] = <<>> \/ recd[h] = <<>>

\* Oldest first, and nothing newer than the clock of the reporting side.
Sorted(q, top) ==
    \A h \in Hash :
        /\ \A i, j \in DOMAIN q[h] : i <= j => q[h][i] <= q[h][j]
        /\ \A i \in DOMAIN q[h] : q[h][i] <= top

\* Both queues are in chronological order.  scan_batches stops at the first
\* batch that is not overdue and relies on it; so does the choice of the
\* oldest packet to cancel.
Chronological == Sorted(sent, newest_a) /\ Sorted(recd, newest_b)

\* No packet is judged while only one side of the flow is known.
NoVerdictUnpaired == ready \/ (forged = Nothing /\ dropped = Nothing)

\* After any report on a paired flow nothing of Bob's is left unjudged that
\* Alice's reports have passed by more than the skew.
PromptForgeries ==
    [][ready /\ (totals' # totals \/ newest_a' # newest_a) =>
         \A h \in Hash : \A i \in DOMAIN recd'[h] :
             recd'[h][i] + skew >= newest_a']_vars

\* Final judgement on a paired flow judges everything that is pending, and
\* from then on the clients' reports change nothing.
JudgementIsFinal ==
    [][/\ finalized' /\ ~finalized /\ ready =>
             \A h \in Hash : sent'[h] = <<>> /\ recd'[h] = <<>>
       /\ finalized => UNCHANGED <<pending, clocks, verdicts>>]_vars
=============================================================================
