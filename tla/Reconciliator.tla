---------------------------- MODULE Reconciliator ----------------------------
(***************************************************************************)
(* One Reconciliator with the data structures of the code: per side a list *)
(* of batches (a_to_b, b_from_a) and a dictionary from each hash to the    *)
(* batches that hold it (sent_packets, recd_packets).  The two structures  *)
(* share their batches by reference and must be kept in step by hand:      *)
(* discarding walks the dictionary, judging walks the list.                *)
(*                                                                         *)
(* Each action is one call made with rec.lock held.  handle_sent_or_recd   *)
(* keeps the lock from sent_by_alice through check_for_drops, so both are  *)
(* one action here.  A reference to a batch is an id that no other live    *)
(* batch has; an absent dictionary key is an empty list.                   *)
(***************************************************************************)
EXTENDS Naturals, Sequences, FiniteSets, SequencesExt, FiniteSetsExt

CONSTANTS
    Hash,                   \* packet hashes
    Dispersion,             \* clock dispersions that clients declare
    clock_safety_margin, drop_timeout, dangling_timeout,
    Horizon,                \* BOUND: the last timestamp a client reports
    Infinity,               \* the 1e308 of final_judgement
    MaxPackets,             \* BOUND: packets that one side reports
    MaxSrcLinks, MaxDestLinks   \* BOUNDS: links of the two sides

VARIABLES
    src_links, dest_links,  \* the dispersion of each link of that side
    max_clock_skew, ready, finalized,
    newest_information_from_a, newest_information_from_b,
    a_to_b, b_from_a,       \* batches [id, ts, count], oldest first
    sent_packets, recd_packets,     \* hash -> ids of batches holding it
    okay_packets, forged_packets, dropped_packets,      \* per hash
    age,                    \* time since birthday, as far as it matters
    ignored,                \* <<side, link>> that was told the flow is dangling
    total_sent, total_recd  \* history: packets reported, per hash

links    == <<src_links, dest_links, max_clock_skew, ready>>
newest   == <<newest_information_from_a, newest_information_from_b>>
alice    == <<a_to_b, sent_packets>>
bob      == <<b_from_a, recd_packets>>
verdicts == <<okay_packets, forged_packets, dropped_packets>>
totals   == <<total_sent, total_recd>>
birth    == <<age, ignored>>
vars     == <<links, newest, finalized, alice, bob, verdicts, totals, birth>>

Nothing == [h \in Hash |-> 0]
Plus(f, g) == [h \in Hash |-> f[h] + g[h]]
Batch == {b \in [Hash -> 0..MaxPackets] : b # Nothing}
Size(f) == FoldFunction(+, 0, f)

\* A side of the account as one value.
Side(list, dict) == [list |-> list, dict |-> dict]

-----------------------------------------------------------------------------
(* __discard_from_new_batch *)

\* Bug: the reference goes although the batch holds more of this hash.
CancelOldestRef(side, h) ==
    LET ref == Head(side.dict[h])
        pos == CHOOSE p \in DOMAIN side.list : side.list[p].id = ref
    IN  [list |-> [side.list EXCEPT ![pos].count[h] = @ - 1],
         dict |-> [side.dict EXCEPT ![h] = Tail(@)]]

\* Cancel one packet with hash h, in the oldest batch that holds one.
CancelOldest(side, h) ==
    LET ref == Head(side.dict[h])
        pos == CHOOSE p \in DOMAIN side.list : side.list[p].id = ref
        num == side.list[pos].count[h]
    IN  [list |-> [side.list EXCEPT ![pos].count[h] = num - 1],
         dict |-> IF num = 1 THEN [side.dict EXCEPT ![h] = Tail(@)]
                             ELSE side.dict]

\* Cancel all that the new batch and the other side have in common.  The
\* result holds what is left of both, and the packets cancelled.
DiscardFromNewBatch(batch, other) ==
    LET CancelIfBoth(acc, h) ==
            IF acc.left[h] = 0 \/ acc.other.dict[h] = <<>> THEN acc
            ELSE [other |-> CancelOldest(acc.other, h),
                  left  |-> [acc.left EXCEPT ![h] = @ - 1],
                  okay  |-> [acc.okay EXCEPT ![h] = @ + 1]]
        CancelHash(h, acc) ==
            FoldLeft(LAMBDA a, n : CancelIfBoth(a, h), acc,
                     [n \in 1..batch[h] |-> n])
    IN  FoldSet(CancelHash, [other |-> other, left |-> batch, okay |-> Nothing],
                Hash)

\* An id for a new batch: the batch is an object of its own.
Fresh(side) ==
    LET live == {b.id : b \in Range(side.list)}
                  \cup UNION {Range(side.dict[h]) : h \in Hash}
    IN  Min((1..(Cardinality(live) + 1)) \ live)

\* Append what is left of a new batch to its own side.
Remember(side, left, t) ==
    IF left = Nothing THEN side
    ELSE Side(Append(side.list,
                     [id |-> Fresh(side), ts |-> t, count |-> left]),
              [h \in Hash |-> IF left[h] = 0 THEN side.dict[h]
                             ELSE Append(side.dict[h], Fresh(side))])

-----------------------------------------------------------------------------
(* scan_batches *)

\* Bug: forgets to clear the batches from the list ("del batches[0:pos]").
ScanKeepingBatches(side, wait, newest_info) ==
    LET n == Max({k \in 0..Len(side.list) :
                     \A i \in 1..k : side.list[i].ts + wait < newest_info})
        scanned == SubSeq(side.list, 1, n)
        refs(h) == Cardinality({i \in 1..n : scanned[i].count[h] > 0})
    IN  [left |-> Side(side.list,
                       [h \in Hash |-> SubSeq(side.dict[h], refs(h) + 1,
                                              Len(side.dict[h]))]),
         found |-> FoldLeft(LAMBDA acc, b : Plus(acc, b.count), Nothing, scanned)]

\* Take the leading batches that newest_info has passed by more than wait off
\* the list, and for each of their hashes the first reference off the
\* dictionary.
ScanBatches(side, wait, newest_info) ==
    LET n == Max({k \in 0..Len(side.list) :
                     \A i \in 1..k : side.list[i].ts + wait < newest_info})
        scanned == SubSeq(side.list, 1, n)
        refs(h) == Cardinality({i \in 1..n : scanned[i].count[h] > 0})
    IN  [left |-> Side(SubSeq(side.list, n + 1, Len(side.list)),
                       [h \in Hash |-> SubSeq(side.dict[h], refs(h) + 1,
                                              Len(side.dict[h]))]),
         found |-> FoldLeft(LAMBDA acc, b : Plus(acc, b.count), Nothing, scanned)]

\* Nothing is judged before both sides of the flow have a link.
Unjudged(side) == [left |-> side, found |-> Nothing]

CheckForForgeries(side, newest_a) ==
    IF ready THEN ScanBatches(side, max_clock_skew, newest_a)
             ELSE Unjudged(side)

CheckForDrops(side, newest_b) ==
    IF ready THEN ScanBatches(side, drop_timeout, newest_b)
             ELSE Unjudged(side)

-----------------------------------------------------------------------------
Init ==
    /\ src_links = <<>> /\ dest_links = <<>>
    /\ max_clock_skew = 0 /\ ready = FALSE /\ finalized = FALSE
    /\ newest_information_from_a = 0 /\ newest_information_from_b = 0
    /\ a_to_b = <<>> /\ b_from_a = <<>>
    /\ sent_packets = [h \in Hash |-> <<>>]
    /\ recd_packets = [h \in Hash |-> <<>>]
    /\ okay_packets = Nothing /\ forged_packets = Nothing
    /\ dropped_packets = Nothing
    /\ age = 0 /\ ignored = {}
    /\ total_sent = Nothing /\ total_recd = Nothing

\* add_link: with a link on both sides the flow is ready, and the skew to
\* allow for is recomputed over all links ever added.
AddLink(src, dest) ==
    LET worst(s) == Max(Range(s))
    IN  /\ src_links' = src /\ dest_links' = dest
        /\ IF src # <<>> /\ dest # <<>>
             THEN /\ ready' = TRUE
                  /\ max_clock_skew' = worst(src) + worst(dest)
                                         + clock_safety_margin
             ELSE UNCHANGED <<ready, max_clock_skew>>
        /\ UNCHANGED <<newest, finalized, alice, bob, verdicts, totals, birth>>

\* BOUNDS: MaxSrcLinks, MaxDestLinks
AddSrcLink(d) ==
    Len(src_links) < MaxSrcLinks /\ AddLink(Append(src_links, d), dest_links)
AddDestLink(d) ==
    Len(dest_links) < MaxDestLinks /\ AddLink(src_links, Append(dest_links, d))

\* check_dangling refuses reports on a flow that is one-sided for too long.
Dangling == ~ready /\ age > dangling_timeout

\* sent_by_alice and check_for_drops, as called by handle_sent_or_recd.
SentByAlice(t, hashes) ==
    LET d     == DiscardFromNewBatch(hashes, Side(b_from_a, recd_packets))
        mine  == Remember(Side(a_to_b, sent_packets), d.left, t)
        f     == CheckForForgeries(d.other, t)
        drops == CheckForDrops(mine, newest_information_from_b)
    IN  /\ \E i \in DOMAIN src_links : <<"src", i>> \notin ignored
        /\ ~Dangling /\ ~finalized
        /\ t >= newest_information_from_a
        /\ newest_information_from_a' = t
        /\ a_to_b' = drops.left.list /\ sent_packets' = drops.left.dict
        /\ b_from_a' = f.left.list /\ recd_packets' = f.left.dict
        /\ okay_packets' = Plus(okay_packets, d.okay)
        /\ forged_packets' = Plus(forged_packets, f.found)
        /\ dropped_packets' = Plus(dropped_packets, drops.found)
        /\ total_sent' = Plus(total_sent, hashes)
        /\ UNCHANGED <<links, newest_information_from_b, finalized, total_recd,
                       birth>>

\* recd_by_bob; drops are not looked for.
RecdByBob(t, hashes) ==
    LET d    == DiscardFromNewBatch(hashes, Side(a_to_b, sent_packets))
        mine == Remember(Side(b_from_a, recd_packets), d.left, t)
        f    == CheckForForgeries(mine, newest_information_from_a)
    IN  /\ \E i \in DOMAIN dest_links : <<"dest", i>> \notin ignored
        /\ ~Dangling /\ ~finalized
        /\ t >= newest_information_from_b
        /\ newest_information_from_b' = t
        /\ a_to_b' = d.other.list /\ sent_packets' = d.other.dict
        /\ b_from_a' = f.left.list /\ recd_packets' = f.left.dict
        /\ okay_packets' = Plus(okay_packets, d.okay)
        /\ forged_packets' = Plus(forged_packets, f.found)
        /\ total_recd' = Plus(total_recd, hashes)
        /\ UNCHANGED <<links, newest_information_from_a, finalized,
                       dropped_packets, total_sent, birth>>

\* A report on a dangling flow: nothing changes but that handle_sent_or_recd
\* tells the client and takes the flow out of that link's flow_table.  The
\* link stays ignored even if the other side turns up later.
ReportDangling(side, i) ==
    /\ Dangling /\ ~finalized
    /\ <<side, i>> \notin ignored
    /\ ignored' = ignored \cup {<<side, i>>}
    /\ UNCHANGED <<links, newest, finalized, alice, bob, verdicts, totals, age>>

\* BOUND: age counts to the first instant after dangling_timeout.
Tick ==
    /\ age <= dangling_timeout
    /\ age' = age + 1
    /\ UNCHANGED <<links, newest, finalized, alice, bob, verdicts, totals,
                   ignored>>

AliceSentFlowStatus(t) ==
    LET f == CheckForForgeries(Side(b_from_a, recd_packets), t)
    IN  /\ ~finalized /\ t >= newest_information_from_a
        /\ newest_information_from_a' = t
        /\ b_from_a' = f.left.list /\ recd_packets' = f.left.dict
        /\ forged_packets' = Plus(forged_packets, f.found)
        /\ UNCHANGED <<links, newest_information_from_b, finalized, alice,
                       okay_packets, dropped_packets, totals, birth>>

BobSentFlowStatus(t) ==
    LET d == CheckForDrops(Side(a_to_b, sent_packets), t)
    IN  /\ ~finalized /\ t >= newest_information_from_b
        /\ newest_information_from_b' = t
        /\ a_to_b' = d.left.list /\ sent_packets' = d.left.dict
        /\ dropped_packets' = Plus(dropped_packets, d.found)
        /\ UNCHANGED <<links, newest_information_from_a, finalized, bob,
                       okay_packets, forged_packets, totals, birth>>

\* alice_sent_flow_status(1e308), bob_sent_flow_status(1e308), finalized.
FinalJudgement ==
    LET f == CheckForForgeries(Side(b_from_a, recd_packets), Infinity)
        d == CheckForDrops(Side(a_to_b, sent_packets), Infinity)
    IN  /\ ~finalized
        /\ finalized' = TRUE
        /\ newest_information_from_a' = Infinity
        /\ newest_information_from_b' = Infinity
        /\ a_to_b' = d.left.list /\ sent_packets' = d.left.dict
        /\ b_from_a' = f.left.list /\ recd_packets' = f.left.dict
        /\ forged_packets' = Plus(forged_packets, f.found)
        /\ dropped_packets' = Plus(dropped_packets, d.found)
        /\ UNCHANGED <<links, okay_packets, totals, birth>>

\* BOUNDS: timestamps up to Horizon, MaxPackets from one side.
Next ==
    \/ \E d \in Dispersion : AddSrcLink(d) \/ AddDestLink(d)
    \/ \E t \in 0..Horizon, b \in Batch :
          \/ /\ Size(total_sent) + Size(b) <= MaxPackets
             /\ SentByAlice(t, b)
          \/ /\ Size(total_recd) + Size(b) <= MaxPackets
             /\ RecdByBob(t, b)
    \/ \E i \in DOMAIN src_links : ReportDangling("src", i)
    \/ \E i \in DOMAIN dest_links : ReportDangling("dest", i)
    \/ \E t \in 0..Horizon : AliceSentFlowStatus(t) \/ BobSentFlowStatus(t)
    \/ Tick
    \/ FinalJudgement

Spec == Init /\ [][Next]_vars

-----------------------------------------------------------------------------
(* Properties *)

Queues == {Side(a_to_b, sent_packets), Side(b_from_a, recd_packets)}

\* Types; ids are unique within a list, so that a reference means one batch.
TypeOK ==
    /\ src_links \in Seq(Dispersion) /\ dest_links \in Seq(Dispersion)
    /\ max_clock_skew \in Nat /\ ready \in BOOLEAN /\ finalized \in BOOLEAN
    /\ newest_information_from_a \in Nat /\ newest_information_from_b \in Nat
    /\ age \in 0..(dangling_timeout + 1)
    /\ ignored \subseteq {"src"} \X DOMAIN src_links \cup {"dest"} \X DOMAIN dest_links
    /\ \A q \in Queues :
          /\ q.list \in Seq([id : Nat, ts : Nat, count : [Hash -> Nat]])
          /\ \A i, j \in DOMAIN q.list : q.list[i].id = q.list[j].id => i = j
          /\ q.dict \in [Hash -> Seq(Nat)]
    /\ \A n \in {okay_packets, forged_packets, dropped_packets,
                 total_sent, total_recd} : n \in [Hash -> Nat]

\* For every hash the dictionary lists exactly the batches that still hold
\* it, oldest first.  This is what the comments "invariant 1" and "invariant
\* 2" of scan_batches assert piecemeal: the hash is in the dictionary, and
\* the reference popped for it is the batch being scanned.
IndexMatchesBatches ==
    \A q \in Queues : \A h \in Hash :
        q.dict[h] = LET held == SelectSeq(q.list, LAMBDA b : b.count[h] > 0)
                    IN  [i \in DOMAIN held |-> held[i].id]

\* The timestamps of the packets with hash h, oldest first.
Pending(list) ==
    [h \in Hash |->
        FoldLeft(LAMBDA acc, b : acc \o [i \in 1..b.count[h] |-> b.ts], <<>>, list)]

\* The data structures implement the account of module Ledger: every call is
\* one of its reports, judgements or pairings, or changes nothing it tells.
Account == INSTANCE Ledger WITH
    Skews     <- {d + e + clock_safety_margin : d, e \in Dispersion},
    sent      <- Pending(a_to_b),
    recd      <- Pending(b_from_a),
    newest_a  <- newest_information_from_a,
    newest_b  <- newest_information_from_b,
    skew      <- max_clock_skew,
    okay      <- okay_packets,
    forged    <- forged_packets,
    dropped   <- dropped_packets

ImplementsLedger == Account!Spec
=============================================================================
