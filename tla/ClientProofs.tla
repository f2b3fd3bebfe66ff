---------------------------- MODULE ClientProofs ----------------------------
(***************************************************************************)
(* Proofs about module Client: for any flows, peers, batch sizes and       *)
(* timeouts, the server knows a flow before it gets a batch of it and is   *)
(* told when it has gone, and no packet waits for longer than              *)
(* batch_timeout and a round of Reporter.                                  *)
(***************************************************************************)
EXTENDS Client, FiniteSetTheorems, SequenceTheorems, TLAPS

-----------------------------------------------------------------------------
(* The invariant *)

Batches == Seq(Seq(Packet))

Typed ==
    /\ now \in Nat /\ unique_id \in Nat /\ unique_id <= MaxFlows
    /\ flows \in [Addr -> Flow \cup {NoFlow}]
    /\ queued \in [Id -> Nat]

\* An id is given once, and one that is to be announced as deleted is not that
\* of a flow that is there.
Numbered ==
    /\ \A a \in Live : flows[a].id < unique_id
    /\ \A i \in new_flows \cup deleted_flows \cup server_flows : i \in Nat /\ i < unique_id
    /\ \A a, b \in Live : flows[a].id = flows[b].id => a = b
    /\ \A a \in Live : flows[a].id \notin deleted_flows

\* What the server knows or will be told of, and not of its end, is a flow in the
\* circle, unless it was gone before it was announced.
Told ==
    \A i \in (server_flows \ deleted_flows) \cup new_flows :
        i \in unborn \/ \E a \in Live : flows[a].id = i /\ flows[a].in_circle

\* A flow with packets to report is in the circle, and such a flow is known to the
\* server or will be announced.
Announced ==
    \A a \in Live :
        /\ flows[a].unsent # <<>> => flows[a].in_circle
        /\ flows[a].in_circle /\ flows[a].reported => flows[a].id \in server_flows
        /\ flows[a].in_circle /\ ~flows[a].reported => flows[a].id \in new_flows

\* At time t, batches have packets, and the oldest ones come first.
InOrder(batches, t) ==
    \A i \in 1..Len(batches) :
        /\ batches[i] # <<>> /\ Oldest(batches[i]) \in Nat /\ Oldest(batches[i]) <= t
        /\ \A j \in i..Len(batches) : Oldest(batches[i]) <= Oldest(batches[j])

Queued == \A a \in Live : InOrder(flows[a].unsent, now)

IndInv ==
    /\ Typed
    /\ Numbered
    /\ Told
    /\ Announced
    /\ Queued
    /\ NothingWaits

-----------------------------------------------------------------------------
(* Batches *)

\* The largest of some numbers up to n, if with each of them come all smaller ones.
LEMMA LongestPrefix ==
    ASSUME NEW n \in Nat, NEW K, K \subseteq 0..n, 0 \in K, \A k \in K : \A j \in 0..k : j \in K
    PROVE  Max(K) \in K /\ \A k \in K : k <= Max(K)
<1>1. IsFiniteSet(K) /\ Cardinality(K) \in Nat
  <2>1. IsFiniteSet(0..n)
    BY FS_Interval
  <2> QED
    BY <2>1, FS_Subset, FS_CardinalityType
<1>2. PICK c \in Nat : c = Cardinality(K)
  BY <1>1
<1>3. ASSUME NEW k \in K
      PROVE  k < c
  <2>1. k \in Nat /\ 0..k \subseteq K
    BY <1>3
  <2>2. IsFiniteSet(0..k) /\ Cardinality(0..k) = k + 1
    BY <2>1, FS_Interval
  <2>3. Cardinality(0..k) <= Cardinality(K)
    BY <1>1, <2>1, FS_Subset
  <2> QED
    BY <1>2, <2>1, <2>2, <2>3
<1>4. c - 1 \in Nat
  BY <1>3
<1>5. c - 1 \in K
  <2>1. SUFFICES ASSUME c - 1 \notin K PROVE FALSE
    OBVIOUS
  <2>2. ASSUME NEW k \in K
        PROVE  k \in 0..(c - 2)
    <3>1. k \in Nat /\ k < c /\ k # c - 1
      BY <1>3, <2>1
    <3> QED
      BY <1>2, <3>1
  <2>3. K \subseteq 0..(c - 2)
    BY <2>2
  <2>4. IsFiniteSet(0..(c - 2)) /\ Cardinality(0..(c - 2)) = c - 1
    <3>1. c - 2 >= 0
      BY <1>2, <2>2
    <3> QED
      BY <1>2, <3>1, FS_Interval
  <2>5. Cardinality(K) <= Cardinality(0..(c - 2))
    BY <2>3, <2>4, FS_Subset
  <2> QED
    BY <1>2, <2>4, <2>5
<1>6. \A k \in K : k <= c - 1 /\ k \in Nat
  BY <1>2, <1>3
<1>7. \A x \in K : (\A y \in K : x >= y) => x = c - 1
  BY <1>4, <1>5, <1>6
<1>8. \A y \in K : c - 1 >= y
  BY <1>4, <1>6
<1>9. Max(K) = c - 1
  BY <1>5, <1>7, <1>8 DEF Max
<1> QED
  BY <1>5, <1>6, <1>9

\* The batches that are due come before the first one that is not.
LEMMA DueFirst ==
    ASSUME NEW batches, Len(batches) \in Nat
    PROVE  LET m == HowManyDue(batches)
           IN  /\ m \in 0..Len(batches)
               /\ m < Len(batches) => ~Due(batches[m + 1])
<1> DEFINE K == {k \in 0..Len(batches) : \A i \in 1..k : Due(batches[i])}
<1>1. K \subseteq 0..Len(batches) /\ 0 \in K
  OBVIOUS
<1>2. \A k \in K : \A j \in 0..k : j \in K
  OBVIOUS
<1>3. Max(K) \in K /\ \A k \in K : k <= Max(K)
  <2> HIDE DEF K
  <2> QED
    BY <1>1, <1>2, LongestPrefix
<1>4. HowManyDue(batches) = Max(K)
  BY DEF HowManyDue
<1>5. PICK m \in 0..Len(batches) : m = Max(K)
  BY <1>3
<1>6. ASSUME m < Len(batches), Due(batches[m + 1])
      PROVE  FALSE
  <2>1. \A i \in 1..m : Due(batches[i])
    BY <1>3, <1>5
  <2>2. m + 1 \in 0..Len(batches)
    BY <1>5, <1>6
  <2>3. \A i \in 1..(m + 1) : i \in 1..m \/ i = m + 1
    BY <1>5
  <2>4. m + 1 \in K
    BY <1>6, <2>1, <2>2, <2>3
  <2>5. m + 1 <= m
    BY <1>3, <1>5, <2>4
  <2> QED
    BY <1>5, <2>5
<1> QED
  BY <1>4, <1>5, <1>6

\* Those that are stale are some of the batches.
LEMMA StaleFirst ==
    ASSUME NEW batches, Len(batches) \in Nat
    PROVE  HowManyStale(batches) \in 0..Len(batches)
<1> DEFINE K == {k \in 0..Len(batches) : \A i \in 1..k : Stale(batches[i])}
<1>1. K \subseteq 0..Len(batches) /\ 0 \in K
  OBVIOUS
<1>2. \A k \in K : \A j \in 0..k : j \in K
  OBVIOUS
<1>3. Max(K) \in K
  <2> HIDE DEF K
  <2> QED
    BY <1>1, <1>2, LongestPrefix
<1> QED
  BY <1>1, <1>3 DEF HowManyStale

\* Taking the first batches leaves batches in order.
LEMMA WithoutKeeps ==
    ASSUME NEW batches \in Batches, NEW k \in 0..Len(batches), NEW t
    PROVE  /\ Without(batches, k) \in Batches /\ First(batches, k) \in Batches
           /\ Len(Without(batches, k)) = Len(batches) - k
           /\ \A i \in 1..(Len(batches) - k) : Without(batches, k)[i] = batches[k + i]
           /\ InOrder(batches, t) => InOrder(Without(batches, k), t)
<1>1. Len(batches) \in Nat /\ k \in Nat
  BY DEF Batches
<1>2. First(batches, k) \in Batches
  BY <1>1 DEF First, Batches
<1>3. /\ Without(batches, k) \in Batches
      /\ Len(Without(batches, k)) = Len(batches) - k
      /\ \A i \in 1..(Len(batches) - k) : Without(batches, k)[i] = batches[k + i]
  BY <1>1 DEF Without, Batches
<1>4. PICK w : w = Without(batches, k)
  OBVIOUS
<1>5. ASSUME InOrder(batches, t), NEW i \in 1..Len(w)
      PROVE  /\ w[i] # <<>> /\ Oldest(w[i]) \in Nat /\ Oldest(w[i]) <= t
             /\ \A j \in i..Len(w) : Oldest(w[i]) <= Oldest(w[j])
  <2>1. \A j \in i..Len(w) : w[j] = batches[k + j] /\ k + j \in (k + i)..Len(batches)
    BY <1>1, <1>3, <1>4
  <2>2. i \in i..Len(w) /\ k + i \in 1..Len(batches)
    BY <1>1, <1>3, <1>4
  <2> QED
    BY <1>5, <2>1, <2>2 DEF InOrder
<1> QED
  BY <1>2, <1>3, <1>4, <1>5 DEF InOrder

\* A packet that is captured now goes to the end of the batches.
LEMMA EnqueueKeeps ==
    ASSUME NEW batches \in Batches, NEW t \in Nat, InOrder(batches, t), NEW p \in Packet, p.at = t
    PROVE  LET q == EnqueuePacket(batches, p)
           IN  /\ q \in Batches /\ q # <<>> /\ InOrder(q, t)
               /\ \A i \in 1..Len(q) :
                     \/ Oldest(q[i]) = t
                     \/ i \in 1..Len(batches) /\ Oldest(q[i]) = Oldest(batches[i])
<1>1. PICK n \in Nat : n = Len(batches)
  BY DEF Batches
<1>2. PICK q : q = EnqueuePacket(batches, p)
  OBVIOUS
<1>3. \A i \in 1..n : /\ batches[i] \in Seq(Packet) /\ batches[i] # <<>>
                      /\ Oldest(batches[i]) \in Nat /\ Oldest(batches[i]) <= t
                      /\ \A j \in i..n : Oldest(batches[i]) <= Oldest(batches[j])
  BY <1>1 DEF InOrder, Batches
<1>4. CASE q = Append(batches, <<p>>)
  <2>1. <<p>> \in Seq(Packet) /\ <<p>> # <<>> /\ Oldest(<<p>>) = t
    BY DEF Oldest
  <2>2. /\ q \in Batches /\ Len(q) = n + 1 /\ q[n + 1] = <<p>>
        /\ \A i \in 1..n : q[i] = batches[i]
    BY <1>1, <1>4, <2>1, AppendProperties DEF Batches
  <2>3. ASSUME NEW i \in 1..Len(q)
        PROVE  \/ i \in 1..n /\ q[i] = batches[i]
               \/ i = n + 1 /\ q[i] = <<p>>
    BY <2>2
  <2>4. ASSUME NEW i \in 1..Len(q)
        PROVE  q[i] # <<>> /\ Oldest(q[i]) \in Nat /\ Oldest(q[i]) <= t
    <3>1. CASE i \in 1..n /\ q[i] = batches[i]
      BY <1>3, <3>1
    <3>2. CASE q[i] = <<p>>
      BY <2>1, <3>2
    <3> QED
      BY <2>3, <3>1, <3>2
  <2>5. ASSUME NEW i \in 1..Len(q), NEW j \in i..Len(q)
        PROVE  Oldest(q[i]) <= Oldest(q[j])
    <3>1. j \in 1..Len(q) /\ (j \in 1..n => i \in 1..n /\ j \in i..n)
      BY <2>2
    <3>2. CASE j = n + 1 /\ q[j] = <<p>>
      BY <2>1, <2>4, <3>2
    <3>3. CASE j \in 1..n /\ q[j] = batches[j]
      <4>1. q[i] = batches[i]
        BY <2>2, <3>1, <3>3
      <4> QED
        BY <1>3, <3>1, <3>3, <4>1
    <3> QED
      BY <2>3, <3>1, <3>2, <3>3
  <2>6. InOrder(q, t)
    BY <2>4, <2>5 DEF InOrder
  <2>7. q # <<>>
    BY <1>1, <2>2
  <2> QED
    BY <1>1, <1>2, <2>1, <2>2, <2>3, <2>6, <2>7
<1>5. CASE batches # <<>> /\ q = [batches EXCEPT ![n] = Append(@, p)]
  <2>1. n \in 1..n
    BY <1>1, <1>5 DEF Batches
  <2>2. batches \in Seq(Seq(Packet)) /\ batches[n] \in Seq(Packet) /\ batches[n] # <<>>
    BY <1>3, <2>1 DEF Batches
  <2>3. PICK b : b = Append(batches[n], p)
    OBVIOUS
  <2>4. b \in Seq(Packet) /\ b # <<>> /\ Oldest(b) = Oldest(batches[n])
    <3>1. Len(batches[n]) \in Nat /\ 1 \in 1..Len(batches[n])
      BY <2>2
    <3>2. b \in Seq(Packet) /\ Len(b) = Len(batches[n]) + 1 /\ b[1] = batches[n][1]
      BY <2>2, <2>3, <3>1, AppendProperties
    <3>3. b # <<>> /\ Head(b) = b[1] /\ Head(batches[n]) = batches[n][1]
      BY <2>2, <3>1, <3>2
    <3> QED
      BY <3>2, <3>3 DEF Oldest
  <2>5. /\ q \in Seq(Seq(Packet)) /\ Len(q) = n /\ q[n] = b
        /\ \A i \in 1..n : i # n => q[i] = batches[i]
    <3>1. q = [batches EXCEPT ![n] = b]
      BY <1>5, <2>3
    <3> QED
      BY <1>1, <2>1, <2>2, <2>4, <3>1
  <2>6. \A i \in 1..n : q[i] # <<>> /\ Oldest(q[i]) = Oldest(batches[i])
    BY <1>3, <2>4, <2>5
  <2>7. InOrder(q, t)
    BY <1>3, <2>5, <2>6 DEF InOrder
  <2>8. q # <<>>
    BY <2>1, <2>5
  <2> QED
    BY <1>1, <1>2, <2>5, <2>6, <2>7, <2>8 DEF Batches
<1> QED
  BY <1>1, <1>2, <1>4, <1>5 DEF EnqueuePacket

-----------------------------------------------------------------------------
(* Each thread's steps *)

\* What a flow becomes keeps its number and stays in or out of the circle.
Follows(f, g) == f \in Flow /\ g \in Flow /\ g.id = f.id /\ g.in_circle = f.in_circle

\* A flow that is there is a flow.
LEMMA LiveFlows ==
    ASSUME Typed
    PROVE  /\ \A a \in Live : flows[a] \in Flow
           /\ \A a \in Addr : a \in Live <=> flows[a] \in Flow
BY ClientConstants DEF Typed, Live

\* What an id is.
LEMMA IdParts == \A i : i \in Id <=> i \in Nat /\ i < MaxFlows
BY ClientConstants DEF Id

\* The parts of a flow.
LEMMA FlowParts ==
    ASSUME NEW f \in Flow
    PROVE  /\ f.id \in Nat /\ f.in_circle \in BOOLEAN /\ f.reported \in BOOLEAN
           /\ f.sent \in Batches /\ f.unsent \in Batches /\ Len(f.unsent) \in Nat
BY DEF Flow, Batches

\* The flow of a packet, as it is before the packet is queued.
LEMMA FlowOfPacket ==
    ASSUME IndInv, NEW a \in Addr, HandlePacket(a)
    PROVE  \E f, g :
              /\ Follows(f, g) /\ g.reported = f.reported
              /\ flows' = [flows EXCEPT ![a] = g] /\ queued' \in [Id -> Nat]
              /\ \/ f.in_circle /\ g.unsent # <<>> /\ InOrder(g.unsent, now)
                    /\ \A i \in 1..Len(g.unsent) :
                          \/ Oldest(g.unsent[i]) = now
                          \/ i \in 1..Len(f.unsent) /\ Oldest(g.unsent[i]) = Oldest(f.unsent[i])
                 \/ ~f.in_circle /\ g.unsent = f.unsent
              /\ \/ a \in Live /\ f = flows[a] /\ unique_id' = unique_id /\ new_flows' = new_flows
                 \/ /\ a \notin Live /\ f.id = unique_id /\ f.unsent = <<>> /\ ~f.reported
                    /\ unique_id < MaxFlows /\ unique_id' = unique_id + 1
                    /\ new_flows' = IF f.in_circle THEN new_flows \cup {f.id} ELSE new_flows
<1> DEFINE new == flows[a] = NoFlow
           f   == IF new THEN NewFlow(a) ELSE flows[a]
           p   == [n |-> queued[f.id] + 1, at |-> now]
           g   == IF f.in_circle
                    THEN [f EXCEPT !.active = now, !.unsent = EnqueuePacket(@, p)]
                    ELSE [f EXCEPT !.active = now]
<1>1. /\ new => unique_id < MaxFlows
      /\ unique_id' = IF new THEN unique_id + 1 ELSE unique_id
      /\ new_flows' = IF new /\ f.in_circle THEN new_flows \cup {f.id} ELSE new_flows
      /\ flows' = [flows EXCEPT ![a] = g]
      /\ f.in_circle => queued' = [queued EXCEPT ![f.id] = p.n]
      /\ ~f.in_circle => queued' = queued
  BY DEF HandlePacket
<1>2. /\ now \in Nat /\ unique_id \in Nat /\ unique_id <= MaxFlows /\ MaxFlows \in Nat
      /\ queued \in [Id -> Nat]
  BY ClientConstants DEF IndInv, Typed
<1>3. new <=> a \notin Live
  BY DEF Live
<1>4. /\ NewFlow(a) \in Flow /\ NewFlow(a).id = unique_id
      /\ NewFlow(a).unsent = <<>> /\ NewFlow(a).reported = FALSE
  <2>1. (peer_of[a] \in peers) \in BOOLEAN /\ <<>> \in Seq(Seq(Packet))
    OBVIOUS
  <2> QED
    BY <1>2, <2>1 DEF NewFlow, AliceFlow, Flow
<1>5. f \in Flow /\ (a \in Live => flows[a] \in Flow)
  BY <1>3, <1>4, LiveFlows DEF IndInv
<1>6. /\ f.id \in Nat /\ f.id < MaxFlows /\ f.id \in Id
  <2>1. a \in Live => flows[a].id < unique_id
    BY DEF IndInv, Numbered
  <2>2. f.id < MaxFlows /\ f.id \in Nat
    <3>1. CASE new
      BY <1>1, <1>2, <1>4, <3>1
    <3>2. CASE ~new
      BY <1>2, <1>3, <1>5, <2>1, <3>2, FlowParts
    <3> QED
      BY <3>1, <3>2
  <2> QED
    BY <2>2, IdParts
<1>7. InOrder(f.unsent, now)
  <2>1. CASE new
    BY <1>4, <2>1 DEF InOrder
  <2>2. CASE ~new
    BY <1>3, <2>2 DEF IndInv, Queued
  <2> QED
    BY <2>1, <2>2
<1>8. queued[f.id] \in Nat /\ p \in Packet /\ p.at = now /\ p.n \in Nat
  BY <1>2, <1>6 DEF Packet
<1>9. queued' \in [Id -> Nat]
  BY <1>1, <1>2, <1>6, <1>8
<1> HIDE DEF p
<1>10. PICK q : q = EnqueuePacket(f.unsent, p)
  OBVIOUS
<1>11. /\ q \in Batches /\ q # <<>> /\ InOrder(q, now)
       /\ \A i \in 1..Len(q) :
             \/ Oldest(q[i]) = now
             \/ i \in 1..Len(f.unsent) /\ Oldest(q[i]) = Oldest(f.unsent[i])
  <2>1. f.unsent \in Batches
    BY <1>5, FlowParts
  <2> QED
    BY <1>2, <1>7, <1>8, <1>10, <2>1, EnqueueKeeps
<1>12. PICK F : F = f
  OBVIOUS
<1>13. PICK G : G = g
  OBVIOUS
<1>14. /\ F.in_circle => G = [F EXCEPT !.active = now, !.unsent = q]
       /\ ~F.in_circle => G = [F EXCEPT !.active = now]
  BY <1>10, <1>12, <1>13
<1>15. F \in Flow
  BY <1>5, <1>12
<1>16. Follows(F, G) /\ G.reported = F.reported /\ G.unsent = IF F.in_circle THEN q ELSE F.unsent
  BY <1>2, <1>11, <1>14, <1>15 DEF Follows, Flow, Batches
<1>17. \/ a \in Live /\ F = flows[a] /\ unique_id' = unique_id /\ new_flows' = new_flows
       \/ /\ a \notin Live /\ F.id = unique_id /\ F.unsent = <<>> /\ ~F.reported
          /\ unique_id < MaxFlows /\ unique_id' = unique_id + 1
          /\ new_flows' = IF F.in_circle THEN new_flows \cup {F.id} ELSE new_flows
  BY <1>1, <1>3, <1>4, <1>12
<1>18. flows' = [flows EXCEPT ![a] = G]
  BY <1>1, <1>13
<1> HIDE DEF f, g, new
<1>19. F.in_circle \/ ~F.in_circle
  OBVIOUS
<1>20. F.in_circle => G.unsent # <<>> /\ InOrder(G.unsent, now)
                      /\ \A i \in 1..Len(G.unsent) :
                            \/ Oldest(G.unsent[i]) = now
                            \/ i \in 1..Len(F.unsent) /\ Oldest(G.unsent[i]) = Oldest(F.unsent[i])
  BY <1>11, <1>12, <1>16
<1>21. ~F.in_circle => G.unsent = F.unsent
  BY <1>16
<1> QED
  BY <1>9, <1>16, <1>17, <1>18, <1>20, <1>21

\* A step that keeps the flows that are there, what is queued and what is known
\* keeps the invariant; time may go on, which ends the round.
LEMMA SameFlows ==
    ASSUME IndInv,
           flows' \in [Addr -> Flow \cup {NoFlow}], Live' = Live,
           \A a \in Live : /\ Follows(flows[a], flows'[a])
                           /\ flows'[a].reported = flows[a].reported
                           /\ flows'[a].unsent = flows[a].unsent,
           UNCHANGED <<unique_id, new_flows, deleted_flows, server_flows, queued, unborn>>,
           now' \in Nat, now <= now', round_done' => round_done /\ now' = now
    PROVE  IndInv'
<1>1. \A a \in Live : /\ flows[a] \in Flow
                      /\ flows'[a].id = flows[a].id /\ flows'[a].in_circle = flows[a].in_circle
                      /\ flows'[a].reported = flows[a].reported
                      /\ flows'[a].unsent = flows[a].unsent
  BY DEF Follows
<1>2. Typed'
  BY DEF IndInv, Typed
<1>3. Numbered'
  BY <1>1 DEF IndInv, Numbered
<1>4. Told'
  BY <1>1 DEF IndInv, Told
<1>5. Announced'
  BY <1>1 DEF IndInv, Announced
<1>6. Queued'
  <2>1. SUFFICES ASSUME NEW a \in Live PROVE InOrder(flows[a].unsent, now')
    BY <1>1 DEF Queued
  <2>2. InOrder(flows[a].unsent, now) /\ now \in Nat
    BY DEF IndInv, Queued, Typed
  <2> QED
    BY <2>2 DEF InOrder
<1>7. NothingWaits'
  <2>1. SUFFICES ASSUME round_done', NEW a \in Live, NEW i \in DOMAIN flows[a].unsent
                 PROVE  now - Oldest(flows[a].unsent[i]) <= batch_timeout
    BY <1>1 DEF NothingWaits
  <2> QED
    BY <2>1 DEF IndInv, NothingWaits
<1> QED
  BY <1>2, <1>3, <1>4, <1>5, <1>6, <1>7 DEF IndInv

\* Who joins or leaves the circle does not matter to what is queued.
LEMMA PeersKeep ==
    ASSUME IndInv, \E p \in Peer : ListenFor(p) \/ Farewell(p)
    PROVE  IndInv'
<1>1. PICK p \in Peer : ListenFor(p) \/ Farewell(p)
  OBVIOUS
<1>2. now \in Nat /\ flows \in [Addr -> Flow \cup {NoFlow}] /\ NoFlow \notin Flow
  BY ClientConstants DEF IndInv, Typed
<1>3. \A a \in Live : flows[a] \in Flow
  BY LiveFlows DEF IndInv
<1>4. /\ UNCHANGED <<unique_id, new_flows, deleted_flows, server_flows, queued, unborn>>
      /\ now' = now /\ round_done' = round_done
  BY <1>1 DEF ListenFor, Farewell, time, news, server, history, table
<1>5. CASE ListenFor(p)
  <2>1. flows' = flows
    BY <1>5 DEF ListenFor, table
  <2>2. Live' = Live
    BY <2>1 DEF Live
  <2> QED
    BY <1>2, <1>3, <1>4, <2>1, <2>2, SameFlows DEF Follows
<1>6. CASE Farewell(p)
  <2>1. flows' = [a \in Addr |-> IF flows[a] # NoFlow /\ peer_of[a] = p
                                   THEN [flows[a] EXCEPT !.marked = TRUE] ELSE flows[a]]
    BY <1>6 DEF Farewell
  <2>2. ASSUME NEW f \in Flow
        PROVE  LET g == [f EXCEPT !.marked = TRUE]
               IN  Follows(f, g) /\ g.reported = f.reported /\ g.unsent = f.unsent
    BY DEF Follows, Flow
  <2>3. ASSUME NEW a \in Live
        PROVE  /\ Follows(flows[a], flows'[a]) /\ flows'[a] \in Flow
               /\ flows'[a].reported = flows[a].reported
               /\ flows'[a].unsent = flows[a].unsent
    <3>1. a \in Addr /\ flows[a] \in Flow
      BY <1>3 DEF Live
    <3>2. flows'[a] = [flows[a] EXCEPT !.marked = TRUE] \/ flows'[a] = flows[a]
      BY <2>1, <3>1
    <3> QED
      BY <2>2, <3>1, <3>2 DEF Follows
  <2>4. \A a \in Addr : a \notin Live => flows'[a] = NoFlow
    BY <2>1 DEF Live
  <2>5. flows' \in [Addr -> Flow \cup {NoFlow}]
    <3>1. \A a \in Addr : flows'[a] \in Flow \cup {NoFlow}
      BY <2>3, <2>4
    <3>2. flows' = [a \in Addr |-> flows'[a]]
      BY <2>1
    <3> QED
      BY <3>1, <3>2
  <2>6. Live' = Live
    BY <1>2, <2>3, <2>4 DEF Live
  <2> QED
    BY <1>2, <1>4, <2>3, <2>5, <2>6, SameFlows
<1> QED
  BY <1>1, <1>5, <1>6

\* A new unit of time begins a new round of Reporter.
LEMMA TickKeeps ==
    ASSUME IndInv, Tick
    PROVE  IndInv'
<1>1. now \in Nat /\ flows \in [Addr -> Flow \cup {NoFlow}]
  BY DEF IndInv, Typed
<1>2. /\ UNCHANGED <<flows, unique_id, new_flows, deleted_flows, server_flows, queued, unborn>>
      /\ now' = now + 1 /\ round_done' = FALSE
  BY DEF Tick, news, server, history, table
<1>3. Live' = Live
  BY <1>2 DEF Live
<1>4. \A a \in Live : flows[a] \in Flow
  BY LiveFlows DEF IndInv
<1> QED
  BY <1>1, <1>2, <1>3, <1>4, SameFlows DEF Follows

\* A packet that is captured goes into the queue of its flow, which may be new.
LEMMA PacketKeeps ==
    ASSUME IndInv, NEW a \in Addr, HandlePacket(a)
    PROVE  IndInv'
<1>1. PICK f, g :
              /\ Follows(f, g) /\ g.reported = f.reported
              /\ flows' = [flows EXCEPT ![a] = g] /\ queued' \in [Id -> Nat]
              /\ \/ f.in_circle /\ g.unsent # <<>> /\ InOrder(g.unsent, now)
                    /\ \A i \in 1..Len(g.unsent) :
                          \/ Oldest(g.unsent[i]) = now
                          \/ i \in 1..Len(f.unsent) /\ Oldest(g.unsent[i]) = Oldest(f.unsent[i])
                 \/ ~f.in_circle /\ g.unsent = f.unsent
              /\ \/ a \in Live /\ f = flows[a] /\ unique_id' = unique_id /\ new_flows' = new_flows
                 \/ /\ a \notin Live /\ f.id = unique_id /\ f.unsent = <<>> /\ ~f.reported
                    /\ unique_id < MaxFlows /\ unique_id' = unique_id + 1
                    /\ new_flows' = IF f.in_circle THEN new_flows \cup {f.id} ELSE new_flows
  BY FlowOfPacket
<1>2. UNCHANGED <<now, round_done, deleted_flows, server_flows, unborn>>
  BY DEF HandlePacket, time, server
<1>3. /\ now \in Nat /\ unique_id \in Nat /\ unique_id <= MaxFlows /\ MaxFlows \in Nat
      /\ flows \in [Addr -> Flow \cup {NoFlow}] /\ NoFlow \notin Flow /\ batch_timeout \in Nat
  BY ClientConstants DEF IndInv, Typed
<1>4. /\ f \in Flow /\ g \in Flow /\ g.id = f.id /\ g.in_circle = f.in_circle
      /\ g.reported = f.reported
  BY <1>1 DEF Follows
<1>5. flows'[a] = g /\ \A b \in Addr : b # a => flows'[b] = flows[b]
  BY <1>1, <1>3
<1>6. Live' = Live \cup {a} /\ \A b \in Live : b \in Addr
  BY <1>3, <1>4, <1>5 DEF Live
<1>7. Typed'
  <2>1. flows' \in [Addr -> Flow \cup {NoFlow}]
    BY <1>1, <1>3, <1>4
  <2>2. unique_id' \in Nat /\ unique_id' <= MaxFlows
    BY <1>1, <1>3
  <2> QED
    BY <1>1, <1>2, <1>3, <2>1, <2>2 DEF Typed
<1>8. Numbered'
  <2>1. /\ \A b \in Live : flows[b].id < unique_id /\ flows[b].id \notin deleted_flows
        /\ \A b, c \in Live : flows[b].id = flows[c].id => b = c
        /\ \A i \in new_flows \cup deleted_flows \cup server_flows : i \in Nat /\ i < unique_id
    BY DEF IndInv, Numbered
  <2>2. \A b \in Live : flows[b].id \in Nat
    BY LiveFlows, FlowParts DEF IndInv
  <2>3. CASE a \in Live /\ f = flows[a] /\ unique_id' = unique_id /\ new_flows' = new_flows
    <3>1. Live' = Live /\ \A b \in Live : flows'[b].id = flows[b].id
      BY <1>4, <1>5, <1>6, <2>3
    <3> QED
      BY <1>2, <2>1, <2>3, <3>1 DEF Numbered
  <2>4. CASE /\ a \notin Live /\ f.id = unique_id /\ unique_id' = unique_id + 1
             /\ new_flows' = IF f.in_circle THEN new_flows \cup {f.id} ELSE new_flows
    <3>1. \A b \in Live : flows'[b].id = flows[b].id /\ b # a
      BY <1>5, <1>6, <2>4
    <3>2. flows'[a].id = unique_id /\ unique_id \notin deleted_flows
      BY <1>3, <1>4, <1>5, <2>1, <2>4
    <3>3. \A b \in Live' : flows'[b].id < unique_id' /\ flows'[b].id \notin deleted_flows
      BY <1>3, <1>6, <2>1, <2>2, <2>4, <3>1, <3>2
    <3>4. \A b, c \in Live' : flows'[b].id = flows'[c].id => b = c
      <4>1. \A b \in Live : flows'[b].id # unique_id
        BY <1>3, <2>1, <2>2, <3>1
      <4> QED
        BY <1>6, <2>1, <3>1, <3>2, <4>1
    <3>5. \A i \in new_flows' \cup deleted_flows \cup server_flows : i \in Nat /\ i < unique_id'
      <4>1. new_flows' \subseteq new_flows \cup {unique_id}
        BY <2>4
      <4> QED
        BY <1>3, <2>1, <2>4, <4>1
    <3> QED
      BY <1>2, <3>3, <3>4, <3>5 DEF Numbered
  <2> QED
    BY <1>1, <2>3, <2>4
<1>9. Told'
  <2>1. SUFFICES ASSUME NEW i \in (server_flows \ deleted_flows) \cup new_flows', i \notin unborn
                 PROVE  \E b \in Live' : flows'[b].id = i /\ flows'[b].in_circle
    BY <1>2 DEF Told
  <2>2. CASE i \in (server_flows \ deleted_flows) \cup new_flows
    <3>1. PICK b \in Live : flows[b].id = i /\ flows[b].in_circle
      BY <2>1, <2>2 DEF IndInv, Told
    <3>2. b = a => f = flows[b]
      BY <1>1, <3>1
    <3>3. flows'[b].id = i /\ flows'[b].in_circle
      BY <1>4, <1>5, <1>6, <3>1, <3>2
    <3> QED
      BY <1>6, <3>1, <3>3
  <2>3. CASE i \notin (server_flows \ deleted_flows) \cup new_flows
    <3>1. i = f.id /\ f.in_circle
      BY <1>1, <2>1, <2>3
    <3> QED
      BY <1>4, <1>5, <1>6, <3>1
  <2> QED
    BY <2>2, <2>3
<1>10. Announced'
  <2>1. SUFFICES ASSUME NEW b \in Live'
                 PROVE  /\ flows'[b].unsent # <<>> => flows'[b].in_circle
                        /\ flows'[b].in_circle /\ flows'[b].reported => flows'[b].id \in server_flows
                        /\ flows'[b].in_circle /\ ~flows'[b].reported => flows'[b].id \in new_flows'
    BY <1>2 DEF Announced
  <2>2. \A c \in Live : /\ flows[c].unsent # <<>> => flows[c].in_circle
                        /\ flows[c].in_circle /\ flows[c].reported => flows[c].id \in server_flows
                        /\ flows[c].in_circle /\ ~flows[c].reported => flows[c].id \in new_flows
    BY DEF IndInv, Announced
  <2>3. new_flows \subseteq new_flows'
    BY <1>1
  <2>4. CASE b # a
    BY <1>5, <1>6, <2>2, <2>3, <2>4
  <2>5. CASE b = a /\ a \in Live /\ f = flows[a]
    <3>1. g.unsent # <<>> => g.in_circle
      BY <1>1, <1>4, <2>2, <2>5
    <3> QED
      BY <1>4, <1>5, <2>2, <2>3, <2>5, <3>1
  <2>6. CASE b = a /\ f.unsent = <<>> /\ ~f.reported /\ (f.in_circle => f.id \in new_flows')
    <3>1. g.unsent # <<>> => g.in_circle
      BY <1>1, <1>4, <2>6
    <3> QED
      BY <1>4, <1>5, <2>6, <3>1
  <2> QED
    BY <1>1, <2>4, <2>5, <2>6
<1>11. InOrder(f.unsent, now)
  <2>1. CASE a \in Live /\ f = flows[a]
    BY <2>1 DEF IndInv, Queued
  <2>2. CASE f.unsent = <<>>
    BY <2>2 DEF InOrder
  <2> QED
    BY <1>1, <2>1, <2>2
<1>12. Queued'
  <2>1. InOrder(g.unsent, now)
    BY <1>1, <1>11
  <2>2. \A b \in Live : InOrder(flows[b].unsent, now)
    BY DEF IndInv, Queued
  <2>3. \A b \in Live' : InOrder(flows'[b].unsent, now)
    BY <1>5, <1>6, <2>1, <2>2
  <2> QED
    BY <1>2, <2>3 DEF Queued
<1>13. NothingWaits'
  <2>1. SUFFICES ASSUME round_done, NEW b \in Live', NEW i \in DOMAIN flows'[b].unsent
                 PROVE  now - Oldest(flows'[b].unsent[i]) <= batch_timeout
    BY <1>2 DEF NothingWaits
  <2>2. \A c \in Live : \A j \in DOMAIN flows[c].unsent :
            now - Oldest(flows[c].unsent[j]) <= batch_timeout
    BY <2>1 DEF IndInv, NothingWaits
  <2>3. CASE b # a
    BY <1>5, <1>6, <2>1, <2>2, <2>3
  <2>4. CASE b = a
    <3>1. f.unsent \in Batches /\ g.unsent \in Batches
      BY <1>4, FlowParts
    <3>2. \A j \in 1..Len(f.unsent) : now - Oldest(f.unsent[j]) <= batch_timeout
      <4>1. CASE a \in Live /\ f = flows[a]
        BY <2>2, <3>1, <4>1 DEF Batches
      <4>2. CASE f.unsent = <<>>
        BY <4>2
      <4> QED
        BY <1>1, <4>1, <4>2
    <3>3. i \in 1..Len(g.unsent) /\ flows'[b].unsent = g.unsent
      BY <1>5, <2>1, <2>4, <3>1 DEF Batches
    <3>4. CASE Oldest(g.unsent[i]) = now
      BY <1>3, <3>3, <3>4
    <3>5. CASE i \in 1..Len(f.unsent) /\ Oldest(g.unsent[i]) = Oldest(f.unsent[i])
      BY <3>2, <3>3, <3>5
    <3>6. CASE g.unsent = f.unsent
      BY <3>2, <3>3, <3>6
    <3> QED
      BY <1>1, <3>3, <3>4, <3>5, <3>6
  <2> QED
    BY <2>3, <2>4
<1> QED
  BY <1>7, <1>8, <1>9, <1>10, <1>12, <1>13 DEF IndInv

\* What is left of a flow's batches when it has been cleaned.
LEMMA CleanedFlow ==
    ASSUME NEW f \in Flow
    PROVE  \E k \in 0..Len(f.unsent) :
              /\ Follows(f, Cleaned(f)) /\ Cleaned(f).reported = f.reported
              /\ Cleaned(f).unsent = Without(f.unsent, k)
<1>1. f.sent \in Batches /\ f.unsent \in Batches
  BY FlowParts
<1>2. PICK k \in 0..Len(f.unsent) : k = HowManyStale(f.unsent)
  BY <1>1, StaleFirst DEF Batches
<1>3. PICK j \in 0..Len(f.sent) : j = HowManyStale(f.sent)
  BY <1>1, StaleFirst, SMTT(30) DEF Batches
<1>4. PICK u : u = Without(f.unsent, k)
  OBVIOUS
<1>5. PICK s : s = Without(f.sent, j)
  OBVIOUS
<1>6. u \in Batches /\ s \in Batches
  BY <1>1, <1>4, <1>5, WithoutKeeps
<1>7. Cleaned(f) = [f EXCEPT !.sent = s, !.unsent = u]
  BY <1>2, <1>3, <1>4, <1>5 DEF Cleaned, Fresh
<1> QED
  BY <1>4, <1>6, <1>7 DEF Follows, Flow, Batches

\* The flows that go are remembered as deleted, or were never announced.
LEMMA CleanKeeps ==
    ASSUME IndInv, Clean
    PROVE  IndInv'
<1>1. PICK expired : expired = {a \in Live : Expired(flows[a])}
  OBVIOUS
<1>2. PICK told : told = {flows[a].id : a \in {e \in expired : flows[e].in_circle}}
  OBVIOUS
<1>3. /\ flows' = [a \in Addr |-> IF a \in Live \ expired THEN Cleaned(flows[a]) ELSE NoFlow]
      /\ deleted_flows' = deleted_flows \cup told
      /\ unborn' = unborn \cup (told \cap new_flows)
      /\ UNCHANGED <<now, round_done, unique_id, new_flows, server_flows, queued>>
  BY <1>1, <1>2 DEF Clean, time, server
<1>4. now \in Nat /\ NoFlow \notin Flow
  BY ClientConstants DEF IndInv, Typed
<1>5. \A a \in Live : a \in Addr /\ flows[a] \in Flow
  BY LiveFlows DEF IndInv, Live
<1>6. \A a \in Live \ expired : flows'[a] = Cleaned(flows[a])
  BY <1>3, <1>5
<1>7. \A a \in Live \ expired : /\ flows'[a] \in Flow
                               /\ flows'[a].id = flows[a].id
                               /\ flows'[a].in_circle = flows[a].in_circle
                               /\ flows'[a].reported = flows[a].reported
                               /\ \E k \in 0..Len(flows[a].unsent) :
                                      flows'[a].unsent = Without(flows[a].unsent, k)
  <2>1. SUFFICES ASSUME NEW a \in Live \ expired
                 PROVE  /\ Follows(flows[a], Cleaned(flows[a]))
                        /\ Cleaned(flows[a]).reported = flows[a].reported
                        /\ \E k \in 0..Len(flows[a].unsent) :
                               Cleaned(flows[a]).unsent = Without(flows[a].unsent, k)
    BY <1>6 DEF Follows
  <2> QED
    BY <1>5, CleanedFlow
<1>8. \A a \in Addr : a \notin Live \ expired => flows'[a] = NoFlow
  BY <1>3
<1>9. Live' = Live \ expired
  BY <1>4, <1>5, <1>7, <1>8 DEF Live
<1>10. \A a, b \in Live : flows[a].id = flows[b].id => a = b
  BY DEF IndInv, Numbered
<1>11. \A i \in told : \E a \in expired : flows[a].id = i
  BY <1>2
<1>12. expired \subseteq Live
  BY <1>1
<1>13. \A a \in Live \ expired : flows[a].id \notin told
  BY <1>10, <1>11, <1>12
<1>14. Typed'
  <2>1. \A a \in Addr : flows'[a] \in Flow \cup {NoFlow}
    BY <1>7, <1>8
  <2>2. flows' \in [Addr -> Flow \cup {NoFlow}]
    BY <1>3, <2>1
  <2> QED
    BY <1>3, <2>2 DEF IndInv, Typed
<1>15. Numbered'
  <2>1. /\ \A b \in Live : flows[b].id < unique_id /\ flows[b].id \notin deleted_flows
        /\ \A i \in new_flows \cup deleted_flows \cup server_flows : i \in Nat /\ i < unique_id
    BY DEF IndInv, Numbered
  <2>2. \A i \in told : i \in Nat /\ i < unique_id
    BY <1>5, <1>11, <1>12, <2>1, FlowParts
  <2>3. \A i \in new_flows' \cup deleted_flows' \cup server_flows' : i \in Nat /\ i < unique_id'
    BY <1>3, <2>1, <2>2
  <2>4. \A b \in Live' : flows'[b].id < unique_id' /\ flows'[b].id \notin deleted_flows'
    BY <1>3, <1>7, <1>9, <1>13, <2>1
  <2>5. \A b, c \in Live' : flows'[b].id = flows'[c].id => b = c
    BY <1>7, <1>9, <1>10
  <2> QED
    BY <2>3, <2>4, <2>5 DEF Numbered
<1>16. Told'
  <2>1. SUFFICES ASSUME NEW i \in (server_flows \ deleted_flows') \cup new_flows, i \notin unborn'
                 PROVE  \E b \in Live' : flows'[b].id = i /\ flows'[b].in_circle
    BY <1>3 DEF Told
  <2>2. i \in (server_flows \ deleted_flows) \cup new_flows /\ i \notin unborn
    BY <1>3, <2>1
  <2>3. PICK b \in Live : flows[b].id = i /\ flows[b].in_circle
    BY <2>2 DEF IndInv, Told
  <2>4. i \notin told
    BY <1>3, <2>1
  <2>5. b \notin expired
    BY <1>2, <2>3, <2>4
  <2> QED
    BY <1>7, <1>9, <2>3, <2>5
<1>17. \A a \in Live \ expired : flows[a].unsent = <<>> => flows'[a].unsent = <<>>
  <2>1. SUFFICES ASSUME NEW a \in Live \ expired, flows[a].unsent = <<>>
                 PROVE  flows'[a].unsent = <<>>
    OBVIOUS
  <2>2. PICK k \in 0..Len(flows[a].unsent) : flows'[a].unsent = Without(flows[a].unsent, k)
    BY <1>7
  <2>3. PICK u : u = flows[a].unsent
    OBVIOUS
  <2>4. PICK w : w = Without(u, k)
    OBVIOUS
  <2>5. u \in Batches /\ Len(u) = 0 /\ k \in 0..Len(u)
    BY <1>5, <2>1, <2>3, FlowParts
  <2>6. w \in Batches /\ Len(w) = Len(u) - k
    BY <2>4, <2>5, WithoutKeeps
  <2> QED
    BY <2>2, <2>3, <2>4, <2>5, <2>6 DEF Batches
<1>18. Announced'
  BY <1>3, <1>7, <1>9, <1>17 DEF IndInv, Announced
<1>19. Queued'
  <2>1. SUFFICES ASSUME NEW a \in Live \ expired
                 PROVE  InOrder(flows'[a].unsent, now)
    BY <1>3, <1>9 DEF Queued
  <2>2. InOrder(flows[a].unsent, now) /\ flows[a].unsent \in Batches
    BY <1>5, FlowParts DEF IndInv, Queued
  <2> QED
    BY <1>7, <2>2, WithoutKeeps
<1>20. NothingWaits'
  <2>1. SUFFICES ASSUME round_done, NEW a \in Live \ expired, NEW i \in DOMAIN flows'[a].unsent
                 PROVE  now - Oldest(flows'[a].unsent[i]) <= batch_timeout
    BY <1>3, <1>9 DEF NothingWaits
  <2>2. PICK k \in 0..Len(flows[a].unsent) : flows'[a].unsent = Without(flows[a].unsent, k)
    BY <1>7
  <2>3. PICK u : u = flows[a].unsent
    OBVIOUS
  <2>4. u \in Batches /\ Len(u) \in Nat
    BY <1>5, <2>3, FlowParts
  <2>5. PICK w : w = flows'[a].unsent
    OBVIOUS
  <2>6. w \in Batches /\ Len(w) = Len(u) - k /\ \A j \in 1..(Len(u) - k) : w[j] = u[k + j]
    <3>1. k \in 0..Len(u) /\ w = Without(u, k)
      BY <2>2, <2>3, <2>5
    <3>2. /\ Without(u, k) \in Batches /\ Len(Without(u, k)) = Len(u) - k
          /\ \A j \in 1..(Len(u) - k) : Without(u, k)[j] = u[k + j]
      BY <2>4, <3>1, WithoutKeeps
    <3> QED
      BY <3>1, <3>2
  <2>7. i \in 1..(Len(u) - k) /\ k + i \in 1..Len(u)
    <3>1. k \in 0..Len(u)
      BY <2>2, <2>3
    <3>2. i \in 1..Len(w)
      BY <2>1, <2>5, <2>6 DEF Batches
    <3> QED
      BY <2>4, <2>6, <3>1, <3>2
  <2>8. \A j \in DOMAIN u : now - Oldest(u[j]) <= batch_timeout
    BY <2>1, <2>3 DEF IndInv, NothingWaits
  <2>9. w[i] = u[k + i] /\ k + i \in DOMAIN u
    BY <2>4, <2>6, <2>7 DEF Batches
  <2> QED
    BY <2>5, <2>8, <2>9
<1> QED
  BY <1>14, <1>15, <1>16, <1>18, <1>19, <1>20 DEF IndInv

\* What is left of the batches of a flow when those that are due have been sent:
\* the first of them is not due, so none has been open for longer than
\* batch_timeout.
LEMMA NotDueYet ==
    ASSUME NEW batches \in Batches, InOrder(batches, now), now \in Nat
    PROVE  LET m == HowManyDue(batches)
           IN  /\ m \in 0..Len(batches)
               /\ m > 0 => batches # <<>>
               /\ InOrder(Without(batches, m), now)
               /\ First(batches, m) \in Batches /\ Without(batches, m) \in Batches
               /\ \A i \in DOMAIN Without(batches, m) :
                      now - Oldest(Without(batches, m)[i]) <= batch_timeout
<1>1. PICK n \in Nat : n = Len(batches)
  BY DEF Batches
<1>2. PICK m \in 0..n : m = HowManyDue(batches) /\ (m < n => ~Due(batches[m + 1]))
  BY <1>1, DueFirst
<1>3. PICK w : w = Without(batches, m)
  OBVIOUS
<1>4. /\ First(batches, m) \in Batches /\ w \in Batches /\ InOrder(w, now)
      /\ Len(w) = n - m /\ \A i \in 1..(n - m) : w[i] = batches[m + i]
  BY <1>1, <1>2, <1>3, WithoutKeeps
<1>5. ASSUME NEW i \in DOMAIN w
      PROVE  now - Oldest(w[i]) <= batch_timeout
  <2>1. i \in 1..(n - m) /\ m + 1 \in 1..n /\ m + i \in (m + 1)..n /\ m < n
    <3>1. i \in 1..Len(w) /\ Len(w) = n - m
      BY <1>4 DEF Batches
    <3> QED
      BY <1>2, <3>1
  <2>2. ~(now - Oldest(batches[m + 1]) > batch_timeout)
    BY <1>2, <2>1 DEF Due
  <2>3. /\ Oldest(batches[m + 1]) \in Nat
        /\ Oldest(batches[m + 1]) <= Oldest(batches[m + i])
    BY <1>1, <2>1 DEF InOrder
  <2>4. Oldest(batches[m + i]) \in Nat
    <3>1. m + i \in 1..n
      BY <1>2, <2>1
    <3> QED
      BY <1>1, <3>1 DEF InOrder
  <2>5. batch_timeout \in Nat
    BY ClientConstants
  <2>6. w[i] = batches[m + i]
    BY <1>4, <2>1
  <2> QED
    BY <2>2, <2>3, <2>4, <2>5, <2>6
<1>6. m > 0 => batches # <<>>
  BY <1>1, <1>2
<1> QED
  BY <1>1, <1>2, <1>3, <1>4, <1>5, <1>6

\* What a round of Reporter makes of a flow.
ReportedFlow(f, due, announced) ==
    [f EXCEPT !.sent = @ \o First(f.unsent, due),
              !.unsent = Without(f.unsent, due),
              !.reported = @ \/ announced]

\* Its parts.
LEMMA FlowAfterRound ==
    ASSUME NEW f \in Flow, NEW due, First(f.unsent, due) \in Batches,
           Without(f.unsent, due) \in Batches, NEW announced \in BOOLEAN
    PROVE  LET g == ReportedFlow(f, due, announced)
           IN  /\ Follows(f, g) /\ g.unsent = Without(f.unsent, due)
               /\ g.reported = (f.reported \/ announced)
<1>1. PICK s : s = f.sent \o First(f.unsent, due)
  OBVIOUS
<1>2. PICK u : u = Without(f.unsent, due)
  OBVIOUS
<1>3. s \in Seq(Seq(Packet)) /\ u \in Seq(Seq(Packet))
  BY <1>1, <1>2, FlowParts DEF Batches
<1>4. PICK r \in BOOLEAN : r = (f.reported \/ announced)
  OBVIOUS
<1>5. ReportedFlow(f, due, announced) = [f EXCEPT !.sent = s, !.unsent = u, !.reported = r]
  BY <1>1, <1>2, <1>4 DEF ReportedFlow
<1> QED
  BY <1>2, <1>3, <1>4, <1>5 DEF Follows, Flow

\* What a round of Reporter does: to every flow, and to what is to be announced.
LEMMA RoundParts ==
    ASSUME IndInv, Report
    PROVE  \E told \in BOOLEAN :
              /\ flows' \in [Addr -> Flow \cup {NoFlow}] /\ Live' = Live
              /\ server_flows' = Announce(told)
              /\ new_flows' = IF told THEN {} ELSE new_flows
              /\ deleted_flows' = IF told THEN {} ELSE deleted_flows
              /\ UNCHANGED <<now, unique_id, queued, unborn>>
              /\ \A a \in Live :
                    /\ flows'[a].id = flows[a].id
                    /\ flows'[a].in_circle = flows[a].in_circle
                    /\ flows'[a].reported
                           = (flows[a].reported \/ (told /\ flows[a].id \in new_flows))
                    /\ InOrder(flows'[a].unsent, now)
                    /\ flows[a].unsent = <<>> => flows'[a].unsent = <<>>
                    /\ \A i \in DOMAIN flows'[a].unsent :
                           now - Oldest(flows'[a].unsent[i]) <= batch_timeout
              /\ \A i \in Id : reported'[i] # reported[i] =>
                    \E a \in Live : /\ flows[a].id = i /\ flows[a].unsent # <<>>
                                    /\ ~flows[a].reported => told
<1> DEFINE due(a)   == HowManyDue(flows[a].unsent)
           sending  == {a \in Live : due(a) > 0}
           periodic == last_update = 0
                       \/ now - (last_update - 1) > flow_activity_interval
<1>1. PICK told \in BOOLEAN : told = (periodic \/ MustAnnounce(sending))
  BY DEF MustAnnounce
<1>2. /\ server_flows' = Announce(told)
      /\ new_flows' = IF told THEN {} ELSE new_flows
      /\ deleted_flows' = IF told THEN {} ELSE deleted_flows
      /\ UNCHANGED <<now, unique_id, queued, unborn>>
  BY <1>1 DEF Report, history
<1>3. /\ flows' = [a \in Addr |->
                     IF a \in Live
                       THEN ReportedFlow(flows[a], due(a), told /\ flows[a].id \in new_flows)
                       ELSE NoFlow]
      /\ \A i \in Id : reported'[i] # reported[i] => \E a \in sending : flows[a].id = i
  BY <1>1 DEF Report, ReportedFlow
<1>4. \A a \in sending : ~flows[a].reported => told
  BY <1>1 DEF MustAnnounce
<1>5. /\ \A a \in Live : a \in Addr /\ flows[a] \in Flow
      /\ now \in Nat /\ NoFlow \notin Flow
  BY ClientConstants, LiveFlows DEF IndInv, Typed, Live
<1>6. ASSUME NEW a \in Live
      PROVE  /\ Follows(flows[a], flows'[a])
             /\ flows'[a].reported = (flows[a].reported \/ (told /\ flows[a].id \in new_flows))
             /\ InOrder(flows'[a].unsent, now)
             /\ flows[a].unsent = <<>> => flows'[a].unsent = <<>>
             /\ \A i \in DOMAIN flows'[a].unsent :
                    now - Oldest(flows'[a].unsent[i]) <= batch_timeout
             /\ due(a) > 0 => flows[a].unsent # <<>>
  <2>1. PICK f \in Flow : f = flows[a]
    BY <1>5
  <2>2. PICK m : m = HowManyDue(f.unsent)
    OBVIOUS
  <2>3. PICK announced \in BOOLEAN : announced = (told /\ flows[a].id \in new_flows)
    OBVIOUS
  <2>4. f.unsent \in Batches /\ InOrder(f.unsent, now)
    BY <2>1, FlowParts DEF IndInv, Queued
  <2>5. /\ m \in 0..Len(f.unsent) /\ (m > 0 => f.unsent # <<>>)
        /\ InOrder(Without(f.unsent, m), now)
        /\ First(f.unsent, m) \in Batches /\ Without(f.unsent, m) \in Batches
        /\ \A i \in DOMAIN Without(f.unsent, m) :
               now - Oldest(Without(f.unsent, m)[i]) <= batch_timeout
    BY <1>5, <2>2, <2>4, NotDueYet
  <2>6. flows'[a] = ReportedFlow(f, m, announced)
    BY <1>3, <1>5, <2>1, <2>2, <2>3
  <2>7. /\ Follows(f, flows'[a]) /\ flows'[a].unsent = Without(f.unsent, m)
        /\ flows'[a].reported = (f.reported \/ announced)
    BY <2>5, <2>6, FlowAfterRound
  <2>8. f.unsent = <<>> => Without(f.unsent, m) = <<>>
    <3>1. SUFFICES ASSUME f.unsent = <<>> PROVE Without(f.unsent, m) = <<>>
      OBVIOUS
    <3>2. m = 0 /\ Len(f.unsent) = 0
      BY <2>5, <3>1
    <3>3. Len(Without(f.unsent, m)) = 0
      BY <2>4, <3>2, WithoutKeeps
    <3> QED
      BY <2>5, <3>3 DEF Batches
  <2> QED
    BY <2>1, <2>2, <2>3, <2>5, <2>7, <2>8
<1>7. \A a \in Addr : a \notin Live => flows'[a] = NoFlow
  BY <1>3
<1>8. Live' = Live
  BY <1>5, <1>6, <1>7 DEF Live, Follows
<1>9. flows' \in [Addr -> Flow \cup {NoFlow}]
  <2>1. \A a \in Addr : flows'[a] \in Flow \cup {NoFlow}
    BY <1>6, <1>7 DEF Follows
  <2> QED
    BY <1>3, <2>1
<1>10. \A i \in Id : reported'[i] # reported[i] =>
           \E a \in Live : /\ flows[a].id = i /\ flows[a].unsent # <<>>
                           /\ ~flows[a].reported => told
  BY <1>3, <1>4, <1>6
<1>11. \A a \in Live : flows'[a].id = flows[a].id /\ flows'[a].in_circle = flows[a].in_circle
  BY <1>6 DEF Follows
<1> HIDE DEF due, sending, periodic
<1> QED
  BY <1>2, <1>6, <1>8, <1>9, <1>10, <1>11

\* A round of Reporter keeps the invariant, and no batch goes to the server
\* before its flow has.
LEMMA RoundKeeps ==
    ASSUME IndInv, Report
    PROVE  /\ IndInv'
           /\ \A i \in Id : reported'[i] # reported[i] => i \in server_flows'
<1>1. PICK told \in BOOLEAN :
              /\ flows' \in [Addr -> Flow \cup {NoFlow}] /\ Live' = Live
              /\ server_flows' = Announce(told)
              /\ new_flows' = IF told THEN {} ELSE new_flows
              /\ deleted_flows' = IF told THEN {} ELSE deleted_flows
              /\ UNCHANGED <<now, unique_id, queued, unborn>>
              /\ \A a \in Live :
                    /\ flows'[a].id = flows[a].id
                    /\ flows'[a].in_circle = flows[a].in_circle
                    /\ flows'[a].reported
                           = (flows[a].reported \/ (told /\ flows[a].id \in new_flows))
                    /\ InOrder(flows'[a].unsent, now)
                    /\ flows[a].unsent = <<>> => flows'[a].unsent = <<>>
                    /\ \A i \in DOMAIN flows'[a].unsent :
                           now - Oldest(flows'[a].unsent[i]) <= batch_timeout
              /\ \A i \in Id : reported'[i] # reported[i] =>
                    \E a \in Live : /\ flows[a].id = i /\ flows[a].unsent # <<>>
                                    /\ ~flows[a].reported => told
  BY RoundParts
<1>2. server_flows' = IF told THEN (server_flows \ deleted_flows) \cup new_flows
                               ELSE server_flows
  BY <1>1 DEF Announce
<1>3. /\ \A a \in Live : flows[a].id \notin deleted_flows
      /\ \A a \in Live :
            /\ flows[a].unsent # <<>> => flows[a].in_circle
            /\ flows[a].in_circle /\ flows[a].reported => flows[a].id \in server_flows
            /\ flows[a].in_circle /\ ~flows[a].reported => flows[a].id \in new_flows
  BY DEF IndInv, Numbered, Announced
<1>4. Typed'
  BY <1>1 DEF IndInv, Typed
<1>5. Numbered'
  <2>1. new_flows' \cup deleted_flows' \cup server_flows'
            \subseteq new_flows \cup deleted_flows \cup server_flows
    BY <1>1, <1>2
  <2>2. deleted_flows' \subseteq deleted_flows
    BY <1>1
  <2>3. /\ \A a \in Live : flows[a].id < unique_id
        /\ \A i \in new_flows \cup deleted_flows \cup server_flows : i \in Nat /\ i < unique_id
        /\ \A a, b \in Live : flows[a].id = flows[b].id => a = b
    BY DEF IndInv, Numbered
  <2> QED
    BY <1>1, <1>3, <2>1, <2>2, <2>3 DEF Numbered
<1>6. Told'
  <2>1. (server_flows' \ deleted_flows') \cup new_flows'
            = (server_flows \ deleted_flows) \cup new_flows
    BY <1>1, <1>2
  <2> QED
    BY <1>1, <2>1 DEF IndInv, Told
<1>7. Announced'
  <2>1. SUFFICES ASSUME NEW a \in Live
                 PROVE  /\ flows'[a].unsent # <<>> => flows'[a].in_circle
                        /\ flows'[a].in_circle /\ flows'[a].reported => flows'[a].id \in server_flows'
                        /\ flows'[a].in_circle /\ ~flows'[a].reported => flows'[a].id \in new_flows'
    BY <1>1 DEF Announced
  <2>2. CASE told
    BY <1>1, <1>2, <1>3, <2>2
  <2>3. CASE ~told
    BY <1>1, <1>2, <1>3, <2>3
  <2> QED
    BY <2>2, <2>3
<1>8. Queued'
  BY <1>1 DEF Queued
<1>9. NothingWaits'
  BY <1>1 DEF NothingWaits
<1>10. ASSUME NEW i \in Id, reported'[i] # reported[i]
       PROVE  i \in server_flows'
  <2>1. PICK a \in Live : /\ flows[a].id = i /\ flows[a].unsent # <<>>
                          /\ ~flows[a].reported => told
    BY <1>1, <1>10
  <2>2. CASE flows[a].reported
    BY <1>2, <1>3, <2>1, <2>2
  <2>3. CASE ~flows[a].reported
    BY <1>2, <1>3, <2>1, <2>3
  <2> QED
    BY <2>2, <2>3
<1> QED
  BY <1>4, <1>5, <1>6, <1>7, <1>8, <1>9, <1>10 DEF IndInv

\* The client starts with no flows.
LEMMA InitHolds ==
    ASSUME Init
    PROVE  IndInv
<1>1. Live = {}
  BY DEF Init, Live
<1>2. MaxFlows \in Nat
  BY ClientConstants
<1>3. Typed
  BY <1>2 DEF Init, Typed
<1>4. Numbered /\ Told /\ Announced /\ Queued /\ NothingWaits
  BY <1>1 DEF Init, Numbered, Told, Announced, Queued, NothingWaits
<1> QED
  BY <1>3, <1>4 DEF IndInv

\* Only a round of Reporter reports packets.
LEMMA StepKeeps ==
    ASSUME IndInv, [Next]_vars
    PROVE  /\ IndInv'
           /\ \A i \in Id : reported'[i] # reported[i] => i \in server_flows'
<1>1. ASSUME NEW a \in Addr, HandlePacket(a)
      PROVE  IndInv' /\ reported' = reported
  BY <1>1, PacketKeeps DEF HandlePacket, server
<1>2. ASSUME \E p \in Peer : ListenFor(p) \/ Farewell(p)
      PROVE  IndInv' /\ reported' = reported
  BY <1>2, PeersKeep DEF ListenFor, Farewell, server
<1>3. ASSUME Clean
      PROVE  IndInv' /\ reported' = reported
  BY <1>3, CleanKeeps DEF Clean, server
<1>4. ASSUME Tick
      PROVE  IndInv' /\ reported' = reported
  BY <1>4, TickKeeps DEF Tick, server
<1>5. ASSUME UNCHANGED vars
      PROVE  IndInv' /\ reported' = reported
  <2>1. /\ UNCHANGED <<flows, unique_id, new_flows, deleted_flows, server_flows, queued, unborn>>
        /\ now' = now /\ round_done' = round_done /\ reported' = reported
    BY <1>5 DEF vars, table, news, server, time, history
  <2>2. Live' = Live
    BY <2>1 DEF Live
  <2>3. now \in Nat /\ flows \in [Addr -> Flow \cup {NoFlow}] /\ \A a \in Live : flows[a] \in Flow
    BY LiveFlows DEF IndInv, Typed
  <2> QED
    BY <2>1, <2>2, <2>3, SameFlows DEF Follows
<1> QED
  BY <1>1, <1>2, <1>3, <1>4, <1>5, RoundKeeps DEF Next

-----------------------------------------------------------------------------
(* Theorems *)

\* The invariant holds: what the flows' queues, the ids that wait to be
\* announced and the server's table have to do with each other.
THEOREM ClientHolds == Spec => []IndInv
<1>1. Init => IndInv
  BY InitHolds
<1>2. IndInv /\ [Next]_vars => IndInv'
  BY StepKeeps
<1> QED
  BY <1>1, <1>2, PTL DEF Spec

\* NothingWaits: after a round of Reporter no packet that is unsent is older than
\* batch_timeout, for any batch size, timeouts and flows.
THEOREM NothingWaitsLong == Spec => []NothingWaits
<1>1. IndInv => NothingWaits
  BY DEF IndInv
<1> QED
  BY <1>1, ClientHolds, PTL

\* ServerForgets: what the server has in its table is a flow of the client, will be
\* taken back, or was deleted before it was announced.
THEOREM FlowsAreTakenBack == Spec => []ServerForgets
<1>1. IndInv => ServerForgets
  BY DEF IndInv, Told, ServerForgets
<1> QED
  BY <1>1, ClientHolds, PTL

\* AnnouncedFirst: a round of Reporter that sends a batch of a flow has sent, before
\* it, that the flow exists, unless the server knew.
THEOREM FlowsComeFirst == Spec => AnnouncedFirst
<1>1. IndInv /\ [Next]_vars =>
          [\A i \in Id : reported'[i] # reported[i] => i \in server_flows']_vars
  BY StepKeeps
<1> QED
  BY <1>1, ClientHolds, PTL DEF Spec, AnnouncedFirst
=============================================================================
