----------------------------- MODULE LedgerProofs -----------------------------
(***************************************************************************)
(* Proofs about module Ledger, for every set of hashes and every value of  *)
(* the bounds.  The lemmas say what the queue operators return; IndInv is  *)
(* inductive and implies each invariant the runs check.                    *)
(***************************************************************************)
EXTENDS Ledger, FiniteSetTheorems, SequenceTheorems, TLAPS

-----------------------------------------------------------------------------
(* Lemmas about the operators on queues and counters. *)

\* Matched is the smaller of what is offered and what is there.
LEMMA MatchedBounds ==
    ASSUME NEW b \in Count, NEW q \in Queue
    PROVE  /\ Matched(b, q) \in Count
           /\ \A h \in Hash : /\ Matched(b, q)[h] <= b[h]
                              /\ Matched(b, q)[h] <= Len(q[h])
                              /\ \/ Matched(b, q)[h] = b[h]
                                 \/ Matched(b, q)[h] = Len(q[h])
<1>1. \A h \in Hash : b[h] \in Nat /\ Len(q[h]) \in Nat
  BY DEF Count, Queue
<1> QED
  BY <1>1 DEF Matched, Count

\* What is left of a sequence without its first k elements.
LEMMA SuffixProperties ==
    ASSUME NEW s \in Seq(Nat), NEW k \in Nat, k <= Len(s)
    PROVE  /\ SubSeq(s, k + 1, Len(s)) \in Seq(Nat)
           /\ Len(SubSeq(s, k + 1, Len(s))) = Len(s) - k
           /\ \A i \in 1..(Len(s) - k) : SubSeq(s, k + 1, Len(s))[i] = s[k + i]
<1>1. Len(s) \in Int /\ k + 1 \in Int
  OBVIOUS
<1>2. \A i \in (k + 1)..Len(s) : s[i] \in Nat
  BY <1>1, ElementOfSeq
<1>3. SubSeq(s, k + 1, Len(s)) \in Seq(Nat)
  BY <1>1, <1>2, SubSeqProperties
<1>4. Len(SubSeq(s, k + 1, Len(s))) = Len(s) - k
  BY <1>1
<1>5. \A i \in 1..(Len(s) - k) : SubSeq(s, k + 1, Len(s))[i] = s[k + i]
  BY <1>1
<1> QED
  BY <1>3, <1>4, <1>5

\* Discard keeps all but the n[h] oldest entries, in their order.
LEMMA DiscardKeeps ==
    ASSUME NEW q \in Queue, NEW n \in Count,
           \A h \in Hash : n[h] <= Len(q[h])
    PROVE  /\ Discard(q, n) \in Queue
           /\ \A h \in Hash :
                 /\ Len(Discard(q, n)[h]) = Len(q[h]) - n[h]
                 /\ \A i \in 1..(Len(q[h]) - n[h]) :
                       Discard(q, n)[h][i] = q[h][n[h] + i]
<1>1. \A h \in Hash : q[h] \in Seq(Nat) /\ n[h] \in Nat /\ n[h] <= Len(q[h])
  BY DEF Queue, Count
<1> QED
  BY <1>1, SuffixProperties DEF Discard, Queue

\* Enqueue appends n[h] times the timestamp t.
LEMMA EnqueueAppends ==
    ASSUME NEW q \in Queue, NEW n \in Count, NEW t \in Nat
    PROVE  /\ Enqueue(q, n, t) \in Queue
           /\ \A h \in Hash :
                 /\ Len(Enqueue(q, n, t)[h]) = Len(q[h]) + n[h]
                 /\ \A i \in 1..Len(q[h]) : Enqueue(q, n, t)[h][i] = q[h][i]
                 /\ \A i \in (Len(q[h]) + 1)..(Len(q[h]) + n[h]) :
                       Enqueue(q, n, t)[h][i] = t
<1> SUFFICES ASSUME NEW h \in Hash
             PROVE  LET e == q[h] \o [i \in 1..n[h] |-> t]
                    IN  /\ e \in Seq(Nat)
                        /\ Len(e) = Len(q[h]) + n[h]
                        /\ \A i \in 1..Len(q[h]) : e[i] = q[h][i]
                        /\ \A i \in (Len(q[h]) + 1)..(Len(q[h]) + n[h]) : e[i] = t
  BY DEF Enqueue, Queue
<1> DEFINE c == [i \in 1..n[h] |-> t]
<1>1. q[h] \in Seq(Nat) /\ n[h] \in Nat
  BY DEF Queue, Count
<1>2. c \in Seq(Nat) /\ Len(c) = n[h]
  BY <1>1
<1>3. \A i \in 1..n[h] : c[i] = t
  OBVIOUS
<1> HIDE DEF c
<1>4. /\ q[h] \o c \in Seq(Nat)
      /\ Len(q[h] \o c) = Len(q[h]) + Len(c)
      /\ \A i \in 1..(Len(q[h]) + Len(c)) :
           (q[h] \o c)[i] = IF i <= Len(q[h]) THEN q[h][i] ELSE c[i - Len(q[h])]
  BY <1>1, <1>2, ConcatProperties
<1> QED
  BY <1>1, <1>2, <1>3, <1>4 DEF c

\* No queue has more overdue entries than entries.
LEMMA OverdueBounds ==
    ASSUME NEW q \in Queue, NEW g \in Nat, NEW new \in Nat
    PROVE  /\ Overdue(q, g, new) \in Count
           /\ \A h \in Hash : Overdue(q, g, new)[h] <= Len(q[h])
<1> SUFFICES ASSUME NEW h \in Hash
             PROVE  LET s == {i \in DOMAIN q[h] : q[h][i] + g < new}
                    IN  Cardinality(s) \in Nat /\ Cardinality(s) <= Len(q[h])
  BY DEF Overdue, Count
<1>1. q[h] \in Seq(Nat) /\ DOMAIN q[h] = 1..Len(q[h]) /\ Len(q[h]) \in Nat
  BY DEF Queue
<1>2. IsFiniteSet(1..Len(q[h])) /\ Cardinality(1..Len(q[h])) = Len(q[h])
  BY <1>1, FS_Interval
<1> QED
  BY <1>1, <1>2, FS_Subset, FS_CardinalityType

\* The same of what is judged; an unpaired flow judges nothing.
LEMMA JudgedBounds ==
    ASSUME NEW q \in Queue, NEW g \in Nat, NEW new \in Nat
    PROVE  /\ Judged(q, g, new) \in Count
           /\ \A h \in Hash : Judged(q, g, new)[h] <= Len(q[h])
           /\ ~ready => Judged(q, g, new) = Nothing
<1>1. Nothing \in Count /\ \A h \in Hash : Nothing[h] = 0 /\ Len(q[h]) \in Nat
  BY DEF Nothing, Count, Queue
<1> QED
  BY <1>1, OverdueBounds DEF Judged

\* Sums of counts are counts, hash by hash.
LEMMA PlusAdds ==
    ASSUME NEW f \in Count, NEW g \in Count
    PROVE  /\ Plus(f, g) \in Count
           /\ \A h \in Hash : Plus(f, g)[h] = f[h] + g[h]
BY DEF Plus, Count

\* A batch less its matched packets.
LEMMA LeftSubtracts ==
    ASSUME NEW b \in Count, NEW n \in Count, \A h \in Hash : n[h] <= b[h]
    PROVE  /\ Left(b, n) \in Count
           /\ \A h \in Hash : Left(b, n)[h] = b[h] - n[h]
BY DEF Left, Count

\* The skew in force is a natural number.
LEMMA SkewIsNat == TypeOK => skew \in Nat
BY LedgerConstants DEF TypeOK

\* A batch is a count.
LEMMA BatchIsCount == \A b \in Batch : b \in Count
BY LedgerConstants DEF Batch, Count

\* A sorted sequence stays sorted without its first k elements.
LEMMA SuffixSorted ==
    ASSUME NEW s \in Seq(Nat), NEW r \in Seq(Nat), NEW k \in Nat, NEW top \in Nat,
           k <= Len(s), Len(r) = Len(s) - k,
           \A i \in 1..(Len(s) - k) : r[i] = s[k + i],
           \A i, j \in DOMAIN s : i <= j => s[i] <= s[j],
           \A i \in DOMAIN s : s[i] <= top
    PROVE  /\ \A i, j \in DOMAIN r : i <= j => r[i] <= r[j]
           /\ \A i \in DOMAIN r : r[i] <= top
<1>1. /\ Len(s) \in Nat /\ DOMAIN s = 1..Len(s)
      /\ Len(r) \in Nat /\ DOMAIN r = 1..Len(r)
  BY LenProperties
<1>2. \A i \in DOMAIN r : i \in Nat /\ k + i \in DOMAIN s /\ r[i] = s[k + i]
  <2> SUFFICES ASSUME NEW i \in DOMAIN r
               PROVE  i \in Nat /\ k + i \in DOMAIN s /\ r[i] = s[k + i]
    OBVIOUS
  <2>1. i \in 1..(Len(s) - k)
    BY <1>1
  <2>2. r[i] = s[k + i]
    BY <2>1
  <2>3. i \in Nat /\ k + i \in 1..Len(s)
    BY <1>1, <2>1, SMTT(30)
  <2> QED
    BY <1>1, <2>2, <2>3
<1>3. \A i, j \in DOMAIN r : i <= j => k + i <= k + j
  BY <1>2
<1> QED
  BY <1>2, <1>3

\* A sorted sequence stays sorted when elements as large as any are added.
LEMMA ExtensionSorted ==
    ASSUME NEW s \in Seq(Nat), NEW r \in Seq(Nat), NEW k \in Nat, NEW t \in Nat,
           Len(r) = Len(s) + k,
           \A i \in 1..Len(s) : r[i] = s[i],
           \A i \in (Len(s) + 1)..(Len(s) + k) : r[i] = t,
           \A i, j \in DOMAIN s : i <= j => s[i] <= s[j],
           \A i \in DOMAIN s : s[i] <= t
    PROVE  /\ \A i, j \in DOMAIN r : i <= j => r[i] <= r[j]
           /\ \A i \in DOMAIN r : r[i] <= t
<1>1. /\ Len(s) \in Nat /\ DOMAIN s = 1..Len(s)
      /\ Len(r) \in Nat /\ DOMAIN r = 1..Len(r)
  BY LenProperties
<1>2. \A i \in DOMAIN r : \/ i \in DOMAIN s /\ r[i] = s[i]
                          \/ i \notin DOMAIN s /\ r[i] = t
  BY <1>1
<1>3. ASSUME NEW i \in DOMAIN r PROVE r[i] <= t
  <2>1. CASE i \in DOMAIN s /\ r[i] = s[i]
    BY <2>1
  <2>2. CASE r[i] = t
    BY <2>2
  <2> QED BY <1>2, <2>1, <2>2
<1>4. ASSUME NEW i \in DOMAIN r, NEW j \in DOMAIN r, i <= j
      PROVE  r[i] <= r[j]
  <2>1. CASE j \in DOMAIN s
    <3>1. i \in DOMAIN s
      BY <1>1, <1>4, <2>1
    <3> QED BY <1>2, <1>4, <2>1, <3>1
  <2>2. CASE j \notin DOMAIN s
    BY <1>2, <1>3, <2>2
  <2> QED BY <2>1, <2>2
<1> QED
  BY <1>3, <1>4

\* Forgetting old entries, or a clock that advances, keeps a queue sorted.
LEMMA DiscardSorted ==
    ASSUME NEW q \in Queue, NEW n \in Count, NEW top \in Nat, NEW new \in Nat,
           \A h \in Hash : n[h] <= Len(q[h]),
           Sorted(q, top), top <= new
    PROVE  Sorted(Discard(q, n), new)
<1> DEFINE d == Discard(q, n)
<1>1. /\ d \in Queue
      /\ \A h \in Hash : /\ Len(d[h]) = Len(q[h]) - n[h]
                         /\ \A i \in 1..(Len(q[h]) - n[h]) : d[h][i] = q[h][n[h] + i]
  BY DiscardKeeps
<1> HIDE DEF d
<1> SUFFICES ASSUME NEW h \in Hash
             PROVE  /\ \A i, j \in DOMAIN d[h] : i <= j => d[h][i] <= d[h][j]
                    /\ \A i \in DOMAIN d[h] : d[h][i] <= new
  BY DEF Sorted, d
<1>2. /\ q[h] \in Seq(Nat) /\ d[h] \in Seq(Nat) /\ n[h] \in Nat
      /\ n[h] <= Len(q[h])
  BY <1>1 DEF Queue, Count
<1>3. \A i, j \in DOMAIN q[h] : i <= j => q[h][i] <= q[h][j]
  BY DEF Sorted
<1>4. \A i \in DOMAIN q[h] : q[h][i] \in Nat /\ q[h][i] <= top
  BY <1>2, LenProperties, ElementOfSeq DEF Sorted
<1>5. \A i \in DOMAIN q[h] : q[h][i] <= new
  BY <1>4
<1> QED
  BY <1>1, <1>2, <1>3, <1>5, SuffixSorted

\* Appending packets with the newest timestamp keeps a queue sorted.
LEMMA EnqueueSorted ==
    ASSUME NEW q \in Queue, NEW n \in Count, NEW top \in Nat, NEW t \in Nat,
           Sorted(q, top), top <= t
    PROVE  Sorted(Enqueue(q, n, t), t)
<1> DEFINE e == Enqueue(q, n, t)
<1>1. /\ e \in Queue
      /\ \A h \in Hash :
            /\ Len(e[h]) = Len(q[h]) + n[h]
            /\ \A i \in 1..Len(q[h]) : e[h][i] = q[h][i]
            /\ \A i \in (Len(q[h]) + 1)..(Len(q[h]) + n[h]) : e[h][i] = t
  BY EnqueueAppends
<1> HIDE DEF e
<1> SUFFICES ASSUME NEW h \in Hash
             PROVE  /\ \A i, j \in DOMAIN e[h] : i <= j => e[h][i] <= e[h][j]
                    /\ \A i \in DOMAIN e[h] : e[h][i] <= t
  BY DEF Sorted, e
<1>2. q[h] \in Seq(Nat) /\ e[h] \in Seq(Nat) /\ n[h] \in Nat
  BY <1>1 DEF Queue, Count
<1>3. \A i, j \in DOMAIN q[h] : i <= j => q[h][i] <= q[h][j]
  BY DEF Sorted
<1>4. \A i \in DOMAIN q[h] : q[h][i] \in Nat /\ q[h][i] <= top
  BY <1>2, LenProperties, ElementOfSeq DEF Sorted
<1>5. \A i \in DOMAIN q[h] : q[h][i] <= t
  BY <1>4
<1> QED
  BY <1>1, <1>2, <1>3, <1>5, ExtensionSorted

-----------------------------------------------------------------------------
(* The inductive invariant. *)

\* Until judgement no clock has passed Horizon, hence none is near Infinity.
InTime == ~finalized => newest_a <= Horizon /\ newest_b <= Horizon

\* Neither side's conservation can be kept without the types, nor the order
\* of the queues without the clocks they are bounded by.
Account ==
    /\ TypeOK
    /\ Conservation
    /\ NeverBothPending
    /\ Chronological
    /\ NoVerdictUnpaired

IndInv == Account /\ InTime

\* An empty queue is one of length zero.
LEMMA EmptyQueue ==
    \A q \in Queue : \A h \in Hash : q[h] = <<>> <=> Len(q[h]) = 0
BY EmptySeq DEF Queue

\* The empty account satisfies the invariant.
LEMMA InitIndInv == Init => IndInv
<1> SUFFICES ASSUME Init PROVE IndInv
  OBVIOUS
<1>1. Nothing \in Count /\ [h \in Hash |-> <<>>] \in Queue
  BY DEF Nothing, Count, Queue
<1>2. TypeOK
  BY <1>1 DEF Init, TypeOK
<1>3. Conservation
  BY DEF Init, Conservation, Nothing
<1>4. NeverBothPending /\ NoVerdictUnpaired
  BY DEF Init, NeverBothPending, NoVerdictUnpaired
<1>5. Chronological
  BY DEF Init, Chronological, Sorted
<1>6. InTime
  BY LedgerConstants DEF Init, InTime
<1> QED
  BY <1>2, <1>3, <1>4, <1>5, <1>6 DEF IndInv, Account

\* The types that the step lemmas use.
LEMMA StateTypes ==
    ASSUME Account
    PROVE  /\ skew \in Nat /\ drop_timeout \in Nat
           /\ sent \in Queue /\ recd \in Queue
           /\ newest_a \in Nat /\ newest_b \in Nat
           /\ okay \in Count /\ forged \in Count /\ dropped \in Count
           /\ total_sent \in Count /\ total_recd \in Count
           /\ Nothing \in Count /\ \A h \in Hash : Nothing[h] = 0
           /\ \A h \in Hash : /\ Len(sent[h]) \in Nat /\ Len(recd[h]) \in Nat
                              /\ Len(sent[h]) = 0 \/ Len(recd[h]) = 0
<1>1. TypeOK /\ NeverBothPending
  BY DEF Account
<1>2. Nothing \in Count /\ \A h \in Hash : Nothing[h] = 0
  BY DEF Nothing, Count
<1>3. sent \in Queue /\ recd \in Queue
  BY <1>1 DEF TypeOK
<1>4. \A h \in Hash : /\ Len(sent[h]) \in Nat /\ Len(recd[h]) \in Nat
                      /\ Len(sent[h]) = 0 \/ Len(recd[h]) = 0
  BY <1>1, <1>3, EmptyQueue DEF NeverBothPending, Queue
<1> QED
  BY <1>1, <1>2, <1>3, <1>4, LedgerConstants, SkewIsNat DEF TypeOK

\* Adding nothing changes no count.
LEMMA PlusNothing == \A f \in Count : Plus(f, Nothing) = f
BY DEF Plus, Nothing, Count

\* A step that adds bs and br to the totals, cancels m on both sides and
\* judges f and d, and leaves the rest of the packets pending.
Balanced(bs, br, m, f, d) ==
    /\ bs \in Count /\ br \in Count
    /\ m \in Count /\ f \in Count /\ d \in Count
    /\ total_sent' = Plus(total_sent, bs)
    /\ total_recd' = Plus(total_recd, br)
    /\ okay' = Plus(okay, m)
    /\ forged' = Plus(forged, f)
    /\ dropped' = Plus(dropped, d)
    /\ \A h \in Hash : Len(sent'[h]) = (Len(sent[h]) + bs[h]) - m[h] - d[h]
    /\ \A h \in Hash : Len(recd'[h]) = (Len(recd[h]) + br[h]) - m[h] - f[h]

\* Such a step keeps every packet accounted for.
LEMMA BalancedStep ==
    ASSUME Account, NEW bs, NEW br, NEW m, NEW f, NEW d,
           Balanced(bs, br, m, f, d)
    PROVE  Conservation'
<1> USE DEF Balanced
<1> SUFFICES ASSUME NEW h \in Hash
             PROVE  /\ total_sent'[h] = okay'[h] + Len(sent'[h]) + dropped'[h]
                    /\ total_recd'[h] = okay'[h] + Len(recd'[h]) + forged'[h]
  BY DEF Conservation
<1>1. /\ total_sent[h] = okay[h] + Len(sent[h]) + dropped[h]
      /\ total_recd[h] = okay[h] + Len(recd[h]) + forged[h]
  BY DEF Account, Conservation
<1>2. /\ Len(sent[h]) \in Nat /\ Len(recd[h]) \in Nat
      /\ bs[h] \in Nat /\ br[h] \in Nat
      /\ m[h] \in Nat /\ f[h] \in Nat /\ d[h] \in Nat
      /\ okay[h] \in Nat /\ forged[h] \in Nat /\ dropped[h] \in Nat
  BY StateTypes DEF Count
<1>3. okay[h] + Len(sent[h]) + dropped[h] + bs[h]
        = (okay[h] + m[h]) + ((Len(sent[h]) + bs[h]) - m[h] - d[h])
            + (dropped[h] + d[h])
  BY <1>2, SMTT(60)
<1>4. okay[h] + Len(recd[h]) + forged[h] + br[h]
        = (okay[h] + m[h]) + ((Len(recd[h]) + br[h]) - m[h] - f[h])
            + (forged[h] + f[h])
  BY <1>2, SMTT(60)
<1>5. /\ total_sent'[h] = total_sent[h] + bs[h]
      /\ total_recd'[h] = total_recd[h] + br[h]
      /\ okay'[h] = okay[h] + m[h] /\ forged'[h] = forged[h] + f[h]
      /\ dropped'[h] = dropped[h] + d[h]
  BY StateTypes, PlusAdds
<1>6. /\ Len(sent'[h]) = (Len(sent[h]) + bs[h]) - m[h] - d[h]
      /\ Len(recd'[h]) = (Len(recd[h]) + br[h]) - m[h] - f[h]
  OBVIOUS
<1> QED
  BY <1>1, <1>3, <1>4, <1>5, <1>6, Zenon

\* Queues of which every one that was empty, or one of each pair, has become
\* empty still hold no hash on both sides.
LEMMA DisjointStep ==
    ASSUME sent' \in Queue, recd' \in Queue,
           \A h \in Hash : Len(sent'[h]) = 0 \/ Len(recd'[h]) = 0
    PROVE  NeverBothPending'
BY EmptyQueue DEF NeverBothPending

\* A report from Alice keeps the invariant.
LEMMA ReportSentKeeps ==
    ASSUME Account, NEW t \in Nat, NEW b \in Count, ReportSent(t, b)
    PROVE  Account'
<1> DEFINE m    == Matched(b, recd)
           rest == Discard(recd, m)
           left == Left(b, m)
           all  == Enqueue(sent, left, t)
           f    == Judged(rest, skew, t)
           d    == Judged(all, drop_timeout, newest_b)
<1>1. /\ t \in Nat /\ t >= newest_a /\ newest_a' = t /\ ~finalized
      /\ recd' = Discard(rest, f) /\ sent' = Discard(all, d)
      /\ okay' = Plus(okay, m) /\ forged' = Plus(forged, f)
      /\ dropped' = Plus(dropped, d) /\ total_sent' = Plus(total_sent, b)
      /\ UNCHANGED <<newest_b, ready, skew, finalized, total_recd>>
  BY DEF ReportSent
<1>2. /\ m \in Count
      /\ \A h \in Hash : /\ m[h] <= b[h] /\ m[h] <= Len(recd[h])
                         /\ m[h] = b[h] \/ m[h] = Len(recd[h])
  BY StateTypes, MatchedBounds
<1>3. left \in Count /\ \A h \in Hash : left[h] = b[h] - m[h]
  BY <1>2, LeftSubtracts
<1>4. /\ rest \in Queue /\ Sorted(rest, newest_b)
      /\ \A h \in Hash : Len(rest[h]) = Len(recd[h]) - m[h]
  BY <1>2, StateTypes, DiscardKeeps, DiscardSorted DEF Account, Chronological
<1>5. /\ all \in Queue /\ Sorted(all, t)
      /\ \A h \in Hash : Len(all[h]) = Len(sent[h]) + left[h]
  BY <1>1, <1>3, StateTypes, EnqueueAppends, EnqueueSorted
     DEF Account, Chronological
<1>6. /\ f \in Count /\ \A h \in Hash : f[h] <= Len(rest[h])
      /\ ~ready => f = Nothing
  BY <1>1, <1>4, StateTypes, JudgedBounds
<1>7. /\ d \in Count /\ \A h \in Hash : d[h] <= Len(all[h])
      /\ ~ready => d = Nothing
  BY <1>5, StateTypes, JudgedBounds
<1> HIDE DEF m, rest, left, all, f, d
<1>8. /\ recd' \in Queue /\ Sorted(recd', newest_b)
      /\ \A h \in Hash : Len(recd'[h]) = Len(rest[h]) - f[h]
  BY <1>1, <1>4, <1>6, StateTypes, DiscardKeeps, DiscardSorted
<1>9. /\ sent' \in Queue /\ Sorted(sent', t)
      /\ \A h \in Hash : Len(sent'[h]) = Len(all[h]) - d[h]
  BY <1>1, <1>5, <1>7, DiscardKeeps, DiscardSorted
<1>10. TypeOK'
  BY <1>1, <1>2, <1>6, <1>7, <1>8, <1>9, PlusAdds DEF Account, TypeOK
<1>11. ASSUME NEW h \in Hash
       PROVE  /\ Len(sent'[h]) = (Len(sent[h]) + b[h]) - m[h] - d[h]
              /\ Len(recd'[h]) = Len(recd[h]) - m[h] - f[h]
              /\ Len(sent'[h]) = 0 \/ Len(recd'[h]) = 0
  <2>1. /\ m[h] \in Nat /\ b[h] \in Nat /\ f[h] \in Nat /\ d[h] \in Nat
        /\ Len(sent[h]) \in Nat /\ Len(recd[h]) \in Nat
    BY <1>2, <1>6, <1>7, StateTypes DEF Count
  <2>2. Len(all[h]) = Len(sent[h]) + (b[h] - m[h])
    BY <1>3, <1>5
  <2>3. /\ Len(sent'[h]) = (Len(sent[h]) + b[h]) - m[h] - d[h]
        /\ Len(recd'[h]) = Len(recd[h]) - m[h] - f[h]
    BY <2>1, <2>2, <1>4, <1>8, <1>9
  <2>4. d[h] <= Len(sent[h]) + b[h] - m[h] /\ f[h] <= Len(recd[h]) - m[h]
    BY <2>1, <2>2, <1>4, <1>6, <1>7
  <2>5. CASE m[h] = Len(recd[h])
    BY <2>1, <2>3, <2>4, <2>5
  <2>6. CASE m[h] = b[h] /\ Len(sent[h]) = 0
    BY <2>1, <2>3, <2>4, <2>6
  <2>7. CASE m[h] = b[h] /\ Len(recd[h]) = 0
    BY <1>2, <2>1, <2>3, <2>4, <2>7
  <2> QED
    BY <1>2, <2>3, <2>5, <2>6, <2>7, StateTypes
<1>12. Conservation'
  <2>1. Nothing \in Count /\ total_recd' = Plus(total_recd, Nothing)
    BY <1>1, StateTypes, PlusNothing
  <2>2. \A h \in Hash : Len(sent'[h]) = (Len(sent[h]) + b[h]) - m[h] - d[h]
    BY <1>11
  <2>3. ASSUME NEW h \in Hash
        PROVE  Len(recd'[h]) = (Len(recd[h]) + Nothing[h]) - m[h] - f[h]
    <3>1. Nothing[h] = 0 /\ Len(recd[h]) + 0 = Len(recd[h])
      BY StateTypes
    <3> QED BY <3>1, <1>11
  <2>4. /\ total_sent' = Plus(total_sent, b) /\ okay' = Plus(okay, m)
        /\ forged' = Plus(forged, f) /\ dropped' = Plus(dropped, d)
        /\ m \in Count /\ f \in Count /\ d \in Count
    BY <1>1, <1>2, <1>6, <1>7
  <2>5. Balanced(b, Nothing, m, f, d)
    BY <2>1, <2>2, <2>3, <2>4 DEF Balanced
  <2> QED
    BY <2>5, BalancedStep
<1>13. NeverBothPending'
  BY <1>8, <1>9, <1>11, DisjointStep
<1>14. Chronological'
  BY <1>1, <1>8, <1>9 DEF Account, Chronological
<1>15. NoVerdictUnpaired'
  BY <1>1, <1>6, <1>7 DEF Account, NoVerdictUnpaired, Plus, Nothing
<1> QED
  BY <1>10, <1>12, <1>13, <1>14, <1>15 DEF Account

\* A report from Bob keeps the invariant.
LEMMA ReportRecdKeeps ==
    ASSUME Account, NEW t \in Nat, NEW b \in Count, ReportRecd(t, b)
    PROVE  Account'
<1> DEFINE m    == Matched(b, sent)
           left == Left(b, m)
           all  == Enqueue(recd, left, t)
           f    == Judged(all, skew, newest_a)
<1>1. /\ t \in Nat /\ t >= newest_b /\ newest_b' = t /\ ~finalized
      /\ sent' = Discard(sent, m) /\ recd' = Discard(all, f)
      /\ okay' = Plus(okay, m) /\ forged' = Plus(forged, f)
      /\ total_recd' = Plus(total_recd, b)
      /\ UNCHANGED <<newest_a, ready, skew, finalized, dropped, total_sent>>
  BY DEF ReportRecd
<1>2. /\ m \in Count
      /\ \A h \in Hash : /\ m[h] <= b[h] /\ m[h] <= Len(sent[h])
                         /\ m[h] = b[h] \/ m[h] = Len(sent[h])
  BY StateTypes, MatchedBounds
<1>3. left \in Count /\ \A h \in Hash : left[h] = b[h] - m[h]
  BY <1>2, LeftSubtracts
<1>4. /\ all \in Queue /\ Sorted(all, t)
      /\ \A h \in Hash : Len(all[h]) = Len(recd[h]) + left[h]
  <2>1. Sorted(recd, newest_b) /\ recd \in Queue /\ newest_b \in Nat
    BY StateTypes DEF Account, Chronological
  <2> HIDE DEF left
  <2> QED
    BY <1>1, <1>3, <2>1, EnqueueAppends, EnqueueSorted
<1>5. /\ f \in Count /\ \A h \in Hash : f[h] <= Len(all[h])
      /\ ~ready => f = Nothing
  BY <1>4, StateTypes, JudgedBounds
<1> HIDE DEF m, left, all, f
<1>6. /\ sent' \in Queue /\ Sorted(sent', newest_a)
      /\ \A h \in Hash : Len(sent'[h]) = Len(sent[h]) - m[h]
  <2>1. Sorted(sent, newest_a) /\ newest_a \in Nat
    BY StateTypes DEF Account, Chronological
  <2>2. \A h \in Hash : m[h] <= Len(sent[h])
    BY <1>2
  <2> QED
    BY <1>1, <1>2, <2>1, <2>2, StateTypes, DiscardKeeps, DiscardSorted
<1>7. /\ recd' \in Queue /\ Sorted(recd', t)
      /\ \A h \in Hash : Len(recd'[h]) = Len(all[h]) - f[h]
  BY <1>1, <1>4, <1>5, DiscardKeeps, DiscardSorted
<1>8. TypeOK'
  BY <1>1, <1>2, <1>5, <1>6, <1>7, PlusAdds DEF Account, TypeOK
<1>9. ASSUME NEW h \in Hash
      PROVE  /\ Len(sent'[h]) = (Len(sent[h]) + Nothing[h]) - m[h] - Nothing[h]
             /\ Len(recd'[h]) = (Len(recd[h]) + b[h]) - m[h] - f[h]
             /\ Len(sent'[h]) = 0 \/ Len(recd'[h]) = 0
  <2>1. /\ m[h] \in Nat /\ b[h] \in Nat /\ f[h] \in Nat /\ Nothing[h] = 0
        /\ Len(sent[h]) \in Nat /\ Len(recd[h]) \in Nat
    BY <1>2, <1>5, StateTypes DEF Count
  <2>2. Len(all[h]) = Len(recd[h]) + (b[h] - m[h])
    BY <1>3, <1>4
  <2>3. /\ Len(recd'[h]) = (Len(recd[h]) + b[h]) - m[h] - f[h]
        /\ Len(sent'[h]) = Len(sent[h]) - m[h]
    BY <2>1, <2>2, <1>6, <1>7
  <2>4. f[h] <= Len(recd[h]) + (b[h] - m[h])
    BY <2>2, <1>5
  <2>5. Len(sent'[h]) = (Len(sent[h]) + Nothing[h]) - m[h] - Nothing[h]
    BY <2>1, <2>3
  <2>6. CASE m[h] = Len(sent[h])
    BY <2>1, <2>3, <2>6
  <2>7. CASE m[h] = b[h] /\ Len(recd[h]) = 0
    BY <2>1, <2>3, <2>4, <2>7
  <2>8. CASE m[h] = b[h] /\ Len(sent[h]) = 0
    BY <1>2, <2>1, <2>3, <2>8
  <2> QED
    BY <1>2, <2>3, <2>5, <2>6, <2>7, <2>8, StateTypes
<1>10. Balanced(Nothing, b, m, f, Nothing)
  <2>1. /\ Nothing \in Count /\ total_sent' = Plus(total_sent, Nothing)
        /\ dropped' = Plus(dropped, Nothing)
    BY <1>1, StateTypes, PlusNothing
  <2> QED
    BY <2>1, <1>1, <1>2, <1>5, <1>9 DEF Balanced
<1>11. Conservation'
  BY <1>10, BalancedStep
<1>12. NeverBothPending'
  BY <1>6, <1>7, <1>9, DisjointStep
<1>13. Chronological'
  BY <1>1, <1>6, <1>7 DEF Account, Chronological
<1>14. NoVerdictUnpaired'
  BY <1>1, <1>5 DEF Account, NoVerdictUnpaired, Plus, Nothing
<1> QED
  BY <1>8, <1>11, <1>12, <1>13, <1>14 DEF Account

-----------------------------------------------------------------------------
(* Steps that only judge. *)

\* A step that judges f of Bob's packets and d of Alice's, no more than are
\* pending and none on an unpaired flow, while clocks may advance.
Judging(f, d) ==
    /\ f \in Count /\ d \in Count
    /\ \A h \in Hash : f[h] <= Len(recd[h]) /\ d[h] <= Len(sent[h])
    /\ ~ready => f = Nothing /\ d = Nothing
    /\ recd' = Discard(recd, f) /\ sent' = Discard(sent, d)
    /\ forged' = Plus(forged, f) /\ dropped' = Plus(dropped, d)
    /\ newest_a' \in Nat /\ newest_a <= newest_a'
    /\ newest_b' \in Nat /\ newest_b <= newest_b'
    /\ finalized' \in BOOLEAN
    /\ UNCHANGED <<ready, skew, okay, totals>>

\* Forgetting no entry changes no queue.
LEMMA DiscardNothing == \A q \in Queue : Discard(q, Nothing) = q
<1> SUFFICES ASSUME NEW q \in Queue, NEW h \in Hash
             PROVE  SubSeq(q[h], 1, Len(q[h])) = q[h]
  BY DEF Discard, Nothing, Queue
<1>1. q[h] \in Seq(Nat)
  BY DEF Queue
<1> QED
  BY <1>1

\* Such a step keeps the invariant.
LEMMA JudgingKeeps ==
    ASSUME Account, NEW f, NEW d, Judging(f, d)
    PROVE  Account'
<1>1. /\ f \in Count /\ d \in Count
      /\ \A h \in Hash : f[h] <= Len(recd[h])
      /\ \A h \in Hash : d[h] <= Len(sent[h])
      /\ ~ready => f = Nothing /\ d = Nothing
      /\ recd' = Discard(recd, f) /\ sent' = Discard(sent, d)
      /\ forged' = Plus(forged, f) /\ dropped' = Plus(dropped, d)
      /\ newest_a' \in Nat /\ newest_a <= newest_a'
      /\ newest_b' \in Nat /\ newest_b <= newest_b'
      /\ finalized' \in BOOLEAN /\ ready' = ready /\ skew' = skew
      /\ okay' = okay /\ total_sent' = total_sent /\ total_recd' = total_recd
  BY DEF Judging, totals
<1>2. Sorted(sent, newest_a) /\ Sorted(recd, newest_b)
  BY DEF Account, Chronological
<1>3. /\ recd' \in Queue /\ Sorted(recd', newest_b')
      /\ \A h \in Hash : Len(recd'[h]) = Len(recd[h]) - f[h]
  BY <1>1, <1>2, StateTypes, DiscardKeeps, DiscardSorted
<1>4. /\ sent' \in Queue /\ Sorted(sent', newest_a')
      /\ \A h \in Hash : Len(sent'[h]) = Len(sent[h]) - d[h]
  BY <1>1, <1>2, StateTypes, DiscardKeeps, DiscardSorted
<1>5. TypeOK'
  BY <1>1, <1>3, <1>4, PlusAdds DEF Account, TypeOK
<1>6. ASSUME NEW h \in Hash
      PROVE  /\ Len(sent'[h]) = (Len(sent[h]) + Nothing[h]) - Nothing[h] - d[h]
             /\ Len(recd'[h]) = (Len(recd[h]) + Nothing[h]) - Nothing[h] - f[h]
             /\ Len(sent'[h]) = 0 \/ Len(recd'[h]) = 0
  <2>1. /\ f[h] \in Nat /\ d[h] \in Nat /\ Nothing[h] = 0
        /\ Len(sent[h]) \in Nat /\ Len(recd[h]) \in Nat
        /\ Len(sent[h]) = 0 \/ Len(recd[h]) = 0
    BY <1>1, StateTypes DEF Count
  <2>2. /\ Len(sent'[h]) = Len(sent[h]) - d[h] /\ d[h] <= Len(sent[h])
        /\ Len(recd'[h]) = Len(recd[h]) - f[h] /\ f[h] <= Len(recd[h])
    BY <1>1, <1>3, <1>4
  <2> QED
    BY <2>1, <2>2
<1>7. Balanced(Nothing, Nothing, Nothing, f, d)
  <2>1. /\ Nothing \in Count /\ okay' = Plus(okay, Nothing)
        /\ total_sent' = Plus(total_sent, Nothing)
        /\ total_recd' = Plus(total_recd, Nothing)
    BY <1>1, StateTypes, PlusNothing
  <2> QED
    BY <2>1, <1>1, <1>6 DEF Balanced
<1>8. Conservation'
  BY <1>7, BalancedStep
<1>9. NeverBothPending'
  BY <1>3, <1>4, <1>6, DisjointStep
<1>10. Chronological'
  BY <1>3, <1>4 DEF Chronological
<1>11. NoVerdictUnpaired'
  BY <1>1 DEF Account, NoVerdictUnpaired, Plus, Nothing
<1> QED
  BY <1>5, <1>8, <1>9, <1>10, <1>11 DEF Account

\* Idle reports and final judgement are such steps.
LEMMA VerdictsKeep ==
    ASSUME Account,
           \/ \E t \in Nat : StatusA(t) \/ StatusB(t)
           \/ FinalJudgement /\ newest_a <= Infinity /\ newest_b <= Infinity
    PROVE  Account'
<1>2. /\ Nothing \in Count /\ Discard(sent, Nothing) = sent
      /\ Discard(recd, Nothing) = recd
      /\ Plus(forged, Nothing) = forged /\ Plus(dropped, Nothing) = dropped
      /\ \A h \in Hash : Nothing[h] <= Len(sent[h]) /\ Nothing[h] <= Len(recd[h])
  BY StateTypes, DiscardNothing, PlusNothing
<1>3. ASSUME NEW t \in Nat, StatusA(t) PROVE Account'
  <2> DEFINE f == Judged(recd, skew, t)
  <2>1. /\ f \in Count /\ \A h \in Hash : f[h] <= Len(recd[h])
        /\ ~ready => f = Nothing
    BY StateTypes, JudgedBounds
  <2> HIDE DEF f
  <2>2. Judging(f, Nothing)
    BY <1>2, <1>3, <2>1, StateTypes
       DEF StatusA, Judging, f, Account, TypeOK
  <2> QED
    BY <2>2, JudgingKeeps
<1>4. ASSUME NEW t \in Nat, StatusB(t) PROVE Account'
  <2> DEFINE d == Judged(sent, drop_timeout, t)
  <2>1. /\ d \in Count /\ \A h \in Hash : d[h] <= Len(sent[h])
        /\ ~ready => d = Nothing
    BY StateTypes, JudgedBounds
  <2> HIDE DEF d
  <2>2. Judging(Nothing, d)
    BY <1>2, <1>4, <2>1, StateTypes
       DEF StatusB, Judging, d, Account, TypeOK
  <2> QED
    BY <2>2, JudgingKeeps
<1>5. ASSUME FinalJudgement, newest_a <= Infinity, newest_b <= Infinity
      PROVE  Account'
  <2> DEFINE f == Judged(recd, skew, Infinity)
             d == Judged(sent, drop_timeout, Infinity)
  <2>1. Infinity \in Nat
    BY LedgerConstants
  <2>2. /\ f \in Count /\ \A h \in Hash : f[h] <= Len(recd[h])
        /\ ~ready => f = Nothing
    BY <2>1, StateTypes, JudgedBounds
  <2>3. /\ d \in Count /\ \A h \in Hash : d[h] <= Len(sent[h])
        /\ ~ready => d = Nothing
    BY <2>1, StateTypes, JudgedBounds
  <2> HIDE DEF f, d
  <2>5. Judging(f, d)
    BY <1>5, <2>1, <2>2, <2>3
       DEF FinalJudgement, Judging, f, d
  <2> QED
    BY <2>5, JudgingKeeps
<1> QED
  BY <1>3, <1>4, <1>5

-----------------------------------------------------------------------------
(* What judging leaves, and the two action properties. *)

\* Overdue entries of a sorted sequence come first: none is further on than
\* there are overdue entries.
LEMMA OverdueComeFirst ==
    ASSUME NEW s \in Seq(Nat), NEW g \in Nat, NEW new \in Nat,
           \A i, j \in DOMAIN s : i <= j => s[i] <= s[j],
           NEW k \in DOMAIN s, s[k] + g < new
    PROVE  k <= Cardinality({i \in DOMAIN s : s[i] + g < new})
<1> DEFINE S == {i \in DOMAIN s : s[i] + g < new}
<1>1. DOMAIN s = 1..Len(s) /\ Len(s) \in Nat /\ k \in Nat
  BY LenProperties
<1>2. \A i \in DOMAIN s : s[i] \in Nat
  BY <1>1, ElementOfSeq
<1>3. 1..k \subseteq S
  BY <1>1, <1>2
<1>4. IsFiniteSet(S)
  <2>1. IsFiniteSet(1..Len(s)) /\ S \subseteq 1..Len(s)
    BY <1>1, FS_Interval
  <2> HIDE DEF S
  <2> QED BY <2>1, FS_Subset
<1>5. Cardinality(1..k) = k
  BY <1>1, FS_Interval
<1> HIDE DEF S
<1>6. Cardinality(1..k) <= Cardinality(S)
  BY <1>3, <1>4, FS_Subset
<1> QED
  BY <1>5, <1>6 DEF S

\* Nothing that judging leaves in a chronological queue is overdue.
LEMMA NothingOverdueLeft ==
    ASSUME NEW q \in Queue, NEW g \in Nat, NEW new \in Nat, NEW top,
           Sorted(q, top), ready,
           NEW h \in Hash, NEW i \in DOMAIN Discard(q, Judged(q, g, new))[h]
    PROVE  /\ Discard(q, Judged(q, g, new))[h][i] \in Nat
           /\ Discard(q, Judged(q, g, new))[h][i] + g >= new
           /\ \E j \in DOMAIN q[h] : Discard(q, Judged(q, g, new))[h][i] = q[h][j]
<1> DEFINE n == Overdue(q, g, new)
           r == Discard(q, n)
<1>1. Judged(q, g, new) = n
  BY DEF Judged
<1>2. /\ n \in Count /\ n[h] \in Nat /\ \A k \in Hash : n[k] <= Len(q[k])
      /\ n[h] = Cardinality({j \in DOMAIN q[h] : q[h][j] + g < new})
  BY OverdueBounds DEF Overdue, Count
<1> HIDE DEF n
<1>3. /\ r \in Queue /\ Len(r[h]) = Len(q[h]) - n[h]
      /\ \A j \in 1..(Len(q[h]) - n[h]) : r[h][j] = q[h][n[h] + j]
  BY <1>2, DiscardKeeps
<1> HIDE DEF r
<1>4. /\ q[h] \in Seq(Nat) /\ r[h] \in Seq(Nat)
      /\ DOMAIN q[h] = 1..Len(q[h]) /\ Len(q[h]) \in Nat
      /\ DOMAIN r[h] = 1..Len(r[h])
  BY <1>3, LenProperties DEF Queue
<1>5. i \in 1..(Len(q[h]) - n[h])
  BY <1>1, <1>3, <1>4 DEF r
<1>6. n[h] + i \in DOMAIN q[h] /\ n[h] + i > n[h] /\ r[h][i] = q[h][n[h] + i]
  <2>1. r[h][i] = q[h][n[h] + i]
    BY <1>3, <1>5
  <2>2. n[h] \in Nat /\ Len(q[h]) \in Nat /\ i \in Nat /\ i >= 1 /\ n[h] + i <= Len(q[h])
    BY <1>2, <1>4, <1>5
  <2> QED
    BY <1>4, <2>1, <2>2
<1>7. q[h][n[h] + i] \in Nat
  BY <1>4, <1>6, ElementOfSeq
<1>8. ~(q[h][n[h] + i] + g < new)
  <2>1. \A j, k \in DOMAIN q[h] : j <= k => q[h][j] <= q[h][k]
    BY DEF Sorted
  <2>2. ASSUME q[h][n[h] + i] + g < new PROVE n[h] + i <= n[h]
    BY <1>2, <1>4, <1>6, <2>1, <2>2, OverdueComeFirst
  <2> QED BY <1>2, <1>5, <2>2
<1> QED
  BY <1>1, <1>6, <1>7, <1>8 DEF r

\* Entries of a queue that were reported in time are gone once judged at
\* Infinity.
LEMMA JudgedAtInfinity ==
    ASSUME NEW q \in Queue, NEW g \in Nat, Infinity > Horizon + g,
           NEW top \in Nat, Sorted(q, top), top <= Horizon, ready, NEW h \in Hash
    PROVE  Discard(q, Judged(q, g, Infinity))[h] = <<>>
<1> DEFINE r == Discard(q, Judged(q, g, Infinity))
<1>1. /\ g \in Nat /\ Infinity \in Nat /\ Horizon \in Nat
      /\ Horizon + g < Infinity
  BY LedgerConstants
<1>2. r \in Queue
  BY <1>1, JudgedBounds, DiscardKeeps
<1>3. ASSUME NEW i \in DOMAIN r[h] PROVE FALSE
  <2>1. r[h][i] \in Nat /\ r[h][i] + g >= Infinity
    BY <1>1, NothingOverdueLeft
  <2>2. r[h][i] <= top
    <3>1. PICK j \in DOMAIN q[h] : r[h][i] = q[h][j]
      BY <1>1, NothingOverdueLeft
    <3>2. q[h][j] <= top
      BY DEF Sorted
    <3> QED BY <3>1, <3>2
  <2> HIDE DEF r
  <2> QED BY <1>1, <2>1, <2>2
<1> HIDE DEF r
<1>4. Len(r[h]) = 0
  <2>1. r[h] \in Seq(Nat)
    BY <1>2 DEF Queue
  <2>2. DOMAIN r[h] = 1..Len(r[h]) /\ Len(r[h]) \in Nat
    BY <2>1, LenProperties
  <2>3. DOMAIN r[h] = {}
    BY <1>3
  <2>4. CASE Len(r[h]) >= 1
    <3>1. 1 \in 1..Len(r[h])
      BY <2>2, <2>4
    <3> QED BY <2>2, <2>3, <3>1
  <2>5. CASE ~(Len(r[h]) >= 1)
    BY <2>2, <2>5
  <2> QED BY <2>4, <2>5
<1> QED
  BY <1>2, <1>4, EmptyQueue DEF r

\* Every report leaves nothing unjudged that Alice's clock has passed by more
\* than the skew.
LEMMA NextPrompt ==
    ASSUME Account, Next, ready, totals' # totals \/ newest_a' # newest_a,
           NEW h \in Hash, NEW i \in DOMAIN recd'[h]
    PROVE  recd'[h][i] + skew >= newest_a'
<1>1. /\ Infinity \in Nat /\ \A t \in 0..Horizon : t \in Nat
      /\ Sorted(recd, newest_b) /\ Sorted(sent, newest_a)
  BY LedgerConstants DEF Account, Chronological
<1>2. ASSUME NEW q \in Queue, NEW new \in Nat, NEW top, Sorted(q, top),
             recd' = Discard(q, Judged(q, skew, new)), newest_a' = new
      PROVE  recd'[h][i] + skew >= newest_a'
  BY <1>2, StateTypes, NothingOverdueLeft
<1>3. ASSUME NEW t \in 0..Horizon, NEW b \in Batch, ReportSent(t, b)
      PROVE  recd'[h][i] + skew >= newest_a'
  <2> DEFINE m    == Matched(b, recd)
             rest == Discard(recd, m)
  <2>1. rest \in Queue /\ Sorted(rest, newest_b)
    <3>1. m \in Count /\ \A k \in Hash : m[k] <= Len(recd[k])
      BY BatchIsCount, StateTypes, MatchedBounds
    <3> HIDE DEF m
    <3> QED BY <1>1, <3>1, StateTypes, DiscardKeeps, DiscardSorted
  <2>2. recd' = Discard(rest, Judged(rest, skew, t)) /\ newest_a' = t
    BY <1>3 DEF ReportSent
  <2> HIDE DEF rest
  <2> QED BY <1>1, <1>2, <2>1, <2>2
<1>4. ASSUME NEW t \in 0..Horizon, NEW b \in Batch, ReportRecd(t, b)
      PROVE  recd'[h][i] + skew >= newest_a'
  <2> DEFINE left == Left(b, Matched(b, sent))
             all  == Enqueue(recd, left, t)
  <2>1. left \in Count
    BY BatchIsCount, StateTypes, MatchedBounds, LeftSubtracts
  <2>2. newest_b \in Nat /\ t \in Nat /\ newest_b <= t
    BY <1>1, <1>4, StateTypes DEF ReportRecd
  <2>3. /\ recd' = Discard(all, Judged(all, skew, newest_a))
        /\ newest_a' = newest_a /\ newest_a \in Nat
    BY <1>4, StateTypes DEF ReportRecd
  <2> HIDE DEF left
  <2>4. all \in Queue /\ Sorted(all, t)
    BY <1>1, <2>1, <2>2, StateTypes, EnqueueAppends, EnqueueSorted
  <2> HIDE DEF all
  <2> QED BY <1>2, <2>3, <2>4
<1>5. ASSUME NEW t \in 0..Horizon, StatusA(t)
      PROVE  recd'[h][i] + skew >= newest_a'
  BY <1>1, <1>2, <1>5, StateTypes DEF StatusA
<1>6. ASSUME FinalJudgement PROVE recd'[h][i] + skew >= newest_a'
  BY <1>1, <1>2, <1>6, StateTypes DEF FinalJudgement
<1>7. ASSUME NEW t \in 0..Horizon, StatusB(t) PROVE FALSE
  BY <1>7 DEF StatusB, totals
<1>8. ASSUME NEW s \in Skews, Pair(s) PROVE FALSE
  BY <1>8 DEF Pair, clocks, totals
<1> QED
  BY <1>3, <1>4, <1>5, <1>6, <1>7, <1>8 DEF Next

\* Only FinalJudgement closes the account, and it leaves nothing pending on a
\* flow with both sides known.
LEMMA NextCloses ==
    ASSUME IndInv, Next, finalized', ~finalized, ready, NEW h \in Hash
    PROVE  sent'[h] = <<>> /\ recd'[h] = <<>>
<1>1. FinalJudgement
  BY DEF Next, Pair, ReportSent, ReportRecd, StatusA, StatusB
<1>2. Sorted(sent, newest_a) /\ Sorted(recd, newest_b)
  BY DEF IndInv, Account, Chronological
<1>3. newest_a <= Horizon /\ newest_b <= Horizon
  BY DEF IndInv, InTime
<1>4. sent'[h] = <<>>
  BY <1>1, <1>2, <1>3, LedgerConstants, StateTypes, JudgedAtInfinity DEF IndInv, FinalJudgement
<1>5. recd'[h] = <<>>
  <2>1. skew \in Nat /\ Infinity > Horizon + skew
    BY LedgerConstants, StateTypes DEF IndInv, Account, TypeOK
  <2> QED
    BY <1>1, <1>2, <1>3, <2>1, StateTypes, JudgedAtInfinity DEF IndInv, FinalJudgement
<1> QED
  BY <1>4, <1>5

\* A closed account takes no reports.
LEMMA NextKeepsClosed ==
    ASSUME Next, finalized
    PROVE  UNCHANGED <<pending, clocks, verdicts>>
BY DEF Next, Pair, ReportSent, ReportRecd, StatusA, StatusB, FinalJudgement,
   pending, clocks, verdicts

-----------------------------------------------------------------------------
(* The theorems. *)

\* The clocks of an account that is open have passed no Horizon.
LEMMA NextInTime ==
    ASSUME IndInv, [Next]_vars
    PROVE  InTime'
  BY LedgerConstants DEF IndInv, Account, TypeOK, InTime, Next, Pair, ReportSent, ReportRecd, StatusA,
     StatusB, FinalJudgement, vars, clocks

\* A step that touches nothing of the account but its skew keeps it well-formed.
LEMMA AccountStays ==
    ASSUME Account, UNCHANGED vars \/ \E s \in Skews : Pair(s)
    PROVE  Account'
  BY DEF Pair, Account, TypeOK, Conservation, NeverBothPending, Chronological, Sorted,
     NoVerdictUnpaired, vars, pending, clocks, verdicts, totals

\* Every step keeps the invariant.
LEMMA NextIndInv == IndInv /\ [Next]_vars => IndInv'
<1> SUFFICES ASSUME IndInv, [Next]_vars PROVE Account'
  BY NextInTime DEF IndInv
<1> USE DEF IndInv
<1>1. ASSUME NEW t \in 0..Horizon, NEW b \in Batch, ReportSent(t, b) \/ ReportRecd(t, b)
      PROVE  Account'
  BY <1>1, LedgerConstants, BatchIsCount, ReportSentKeeps, ReportRecdKeeps
<1>2. ASSUME NEW t \in 0..Horizon, StatusA(t) \/ StatusB(t)
      PROVE  Account'
  BY <1>2, LedgerConstants, VerdictsKeep
<1>3. CASE FinalJudgement
  <2>1. newest_a <= Infinity /\ newest_b <= Infinity
    BY <1>3, LedgerConstants, StateTypes DEF FinalJudgement, InTime
  <2> QED
    BY <1>3, <2>1, VerdictsKeep
<1> QED
  BY <1>1, <1>2, <1>3, AccountStays DEF Next

\* The account is always well-formed, balanced, disjoint, chronological and
\* free of verdicts on unpaired flows, for any hashes, clocks and bounds.
THEOREM LedgerInvariant == Spec => []IndInv
<1>1. Init => IndInv
  BY InitIndInv
<1>2. IndInv /\ [Next]_vars => IndInv'
  BY NextIndInv
<1> QED
  BY <1>1, <1>2, PTL DEF Spec

\* Types.
THEOREM LedgerTypes == Spec => []TypeOK
BY LedgerInvariant, PTL DEF IndInv, Account

\* No reported packet is lost by the account or counted twice.
THEOREM LedgerConservation == Spec => []Conservation
BY LedgerInvariant, PTL DEF IndInv, Account

\* No hash is pending on both sides, so the assertion in scan_batches that a
\* judged hash is not in the other side's dictionary cannot fail.
THEOREM LedgerDisjoint == Spec => []NeverBothPending
BY LedgerInvariant, PTL DEF IndInv, Account

\* Queues are in chronological order, so judging a prefix judges all.
THEOREM LedgerOrder == Spec => []Chronological
BY LedgerInvariant, PTL DEF IndInv, Account

\* No verdict is passed on a flow of which one side is unknown.
THEOREM LedgerPairedVerdicts == Spec => []NoVerdictUnpaired
BY LedgerInvariant, PTL DEF IndInv, Account
\* After any report on a paired flow no forgery is left that is due, whatever
\* the interleaving of reports before it.
THEOREM LedgerPrompt == Spec => PromptForgeries
<1> DEFINE Prompt ==
      ready /\ (totals' # totals \/ newest_a' # newest_a) =>
         \A h \in Hash : \A i \in DOMAIN recd'[h] :
             recd'[h][i] + skew >= newest_a'
<1>1. IndInv /\ [Next]_vars => [Prompt]_vars
  BY NextPrompt DEF IndInv
<1>2. PromptForgeries <=> [][Prompt]_vars
  BY DEF PromptForgeries
<1> HIDE DEF Prompt
<1> QED
  BY <1>1, <1>2, LedgerInvariant, PTL DEF Spec

\* Final judgement judges everything that is pending on a paired flow, and
\* nothing changes the account afterwards.
THEOREM LedgerFinal == Spec => JudgementIsFinal
<1> DEFINE Final ==
      /\ finalized' /\ ~finalized /\ ready =>
             \A h \in Hash : sent'[h] = <<>> /\ recd'[h] = <<>>
      /\ finalized => UNCHANGED <<pending, clocks, verdicts>>
<1>1. IndInv /\ [Next]_vars => [Final]_vars
  BY NextCloses, NextKeepsClosed
<1>2. JudgementIsFinal <=> [][Final]_vars
  BY DEF JudgementIsFinal
<1> HIDE DEF Final
<1> QED
  BY <1>1, <1>2, LedgerInvariant, PTL DEF Spec
=============================================================================
