-------------------------- MODULE MatchmakerProofs --------------------------
(***************************************************************************)
(* Proofs about module Matchmaker, for every set of links, m-tuples and    *)
(* ids, for links closed by any thread at any time and m-tuples that come  *)
(* back at any time: when the two reports of a flow do not meet in one     *)
(* Reconciliator, one of the ends has ended it or it was taken out by      *)
(* mistake; and whatever is in the Matchmaker will be taken out, unless    *)
(* its flow dangled or was entered too late.                               *)
(***************************************************************************)
EXTENDS Matchmaker, TLAPS

\* A link that has not connected has nothing, and link_closed goes through a
\* purge to its end.
Life ==
    \A l \in Link :
        /\ stage[l] = "new" => thread[l] = Listening /\ \A id \in Id : flow_table[l][id] = Absent
        /\ purge[l] # {} => stage[l] = "purging"

\* Ids are used once: an entry, or a flow on its way to one, was announced.
IdsUsedOnce ==
    \A l \in Link, id \in Id :
        /\ flow_table[l][id] # Absent => id \in announced[l]
        /\ \A m \in MTuple : thread[l] = Matching(id, m) =>
              id \in announced[l] /\ flow_table[l][id] = Absent
        /\ \A r \in Rec : thread[l] = Registering(id, r) =>
              id \in announced[l] /\ flow_table[l][id] = Absent

\* Reconciliators are numbered as they are made, and each has its m-tuple.
Has(l, r) == InTable(l, r) \/ Entering(l, r) \/ thread[l] = Removing(r) \/ r \in purge[l]

Numbered ==
    /\ \A r \in Rec : r <= made => m_tuple[r] \in MTuple
    /\ \A l \in Link, r \in Rec : Has(l, r) => r <= made
    /\ \A m \in MTuple, r \in Rec : flow_matchmaker[m] = r => r <= made /\ m_tuple[r] = m

\* One that is no longer in the Matchmaker was ended by a link or taken out by
\* mistake; and one that was ended is out, and on no listed link of that side.
OutIsKnown ==
    \A r \in Rec :
        r <= made /\ flow_matchmaker[m_tuple[r]] # r =>
            r \in mistaken \/ \E l \in Link : <<l, r>> \in ended

EndedIsOver ==
    \A l \in Link, r \in Rec :
        <<l, r>> \in ended =>
            /\ r <= made
            /\ flow_matchmaker[m_tuple[r]] # r
            /\ \A k \in Side(l) : Listed(k) => ~InTable(k, r) /\ ~Entering(k, r)

\* What is in the Matchmaker is owed by a link, with the two exceptions.
MatchedIsOwed ==
    \A m \in MTuple, r \in Rec :
        flow_matchmaker[m] = r /\ r \notin dangled \cup late => \E l \in Link : Owes(l, r)

TablesInv == TypeOK /\ Life /\ IdsUsedOnce
FlowsInv  == Numbered /\ OutIsKnown /\ EndedIsOver /\ MatchedIsOwed
IndInv    == TablesInv /\ FlowsInv

-----------------------------------------------------------------------------
(* Lemmas about the operators *)

\* The states of a thread are told apart by what they are and what is in them.
LEMMA ThreadStates ==
    /\ Listening # Gone
    /\ \A id, m : Matching(id, m) # Listening /\ Matching(id, m) # Gone
    /\ \A id, r : Registering(id, r) # Listening /\ Registering(id, r) # Gone
    /\ \A r : Removing(r) # Listening /\ Removing(r) # Gone
    /\ \A id, m, jd, r : Matching(id, m) # Registering(jd, r)
    /\ \A id, m, r : Matching(id, m) # Removing(r)
    /\ \A id, q, r : Registering(id, q) # Removing(r)
    /\ \A id, m, jd, n : Matching(id, m) = Matching(jd, n) => id = jd /\ m = n
    /\ \A id, r, jd, q : Registering(id, r) = Registering(jd, q) => id = jd /\ r = q
    /\ \A r, q : Removing(r) = Removing(q) => r = q
  BY DEF Listening, Gone, Matching, Registering, Removing

\* What a thread is at says what is in its state.
LEMMA ThreadAt ==
    ASSUME NEW th \in Threads
    PROVE  /\ th.at = "matching" =>
                th.id \in Id /\ th.m \in MTuple /\ th = Matching(th.id, th.m)
           /\ th.at = "registering" =>
                th.id \in Id /\ th.rec \in Rec /\ th = Registering(th.id, th.rec)
           /\ th.at = "removing" => th.rec \in Rec /\ th = Removing(th.rec)
<1>1. CASE th = Listening
  BY <1>1 DEF Listening
<1>2. CASE th = Gone
  BY <1>2 DEF Gone
<1>3. CASE \E id \in Id, m \in MTuple : th = Matching(id, m)
  BY <1>3 DEF Matching
<1>4. CASE \E id \in Id, r \in Rec : th = Registering(id, r)
  BY <1>4 DEF Registering
<1>5. CASE \E r \in Rec : th = Removing(r)
  BY <1>5 DEF Removing
<1> QED
  BY <1>1, <1>2, <1>3, <1>4, <1>5 DEF Threads

\* The threads that the actions make are threads.
LEMMA ThreadsAre ==
    /\ Listening \in Threads /\ Gone \in Threads
    /\ \A id \in Id, m \in MTuple : Matching(id, m) \in Threads
    /\ \A id \in Id, r \in Rec : Registering(id, r) \in Threads
    /\ \A r \in Rec : Removing(r) \in Threads
  BY DEF Threads

\* A link is of one of two sides.
LEMMA Sides ==
    /\ \A l \in Link : l \in Side(l) /\ Side(l) \subseteq Link
    /\ \A l \in Link : Side(l) = Alice <=> l \in Alice
    /\ \A l \in Link : l \in Alice \/ l \in Bob
    /\ \A l \in Alice : Side(l) = Alice
    /\ \A l \in Bob : Side(l) = Bob
  BY MatchmakerConstants DEF Link, Side

\* None of the marks in the tables is a Reconciliator.
LEMMA MarksAreNoRecs == NoRec \notin Rec /\ Ignored \notin Rec /\ Absent \notin Rec
  BY MatchmakerConstants

\* A flow on its way into a table is there when its thread has done with it.
LEMMA RegisteringIs ==
    ASSUME TypeOK, IdsUsedOnce, NEW l \in Link, RegisterFlow(l)
    PROVE  /\ thread[l].id \in Id /\ thread[l].rec \in Rec
           /\ thread[l] = Registering(thread[l].id, thread[l].rec)
           /\ thread[l].id \in announced[l] /\ flow_table[l][thread[l].id] = Absent
<1>1. /\ thread[l].id \in Id /\ thread[l].rec \in Rec
      /\ thread[l] = Registering(thread[l].id, thread[l].rec)
  BY ThreadAt DEF RegisterFlow, TypeOK
<1> QED
  BY <1>1 DEF IdsUsedOnce

\* What AddFlow does, with its thread taken apart.
LEMMA AddFlowIs ==
    ASSUME TypeOK, IdsUsedOnce, NEW l \in Link, AddFlow(l)
    PROVE  \E id \in Id, m \in MTuple, r \in Rec :
              /\ thread[l] = Matching(id, m)
              /\ id \in announced[l] /\ flow_table[l][id] = Absent
              /\ \/ flow_matchmaker[m] = NoRec /\ r = made + 1 /\ made' = r
                 \/ flow_matchmaker[m] = r /\ made' = made
              /\ m_tuple' = [m_tuple EXCEPT ![r] = m]
              /\ flow_matchmaker' = [flow_matchmaker EXCEPT ![m] = r]
              /\ links' = [links EXCEPT ![r] = @ \cup {<<l, id>>}]
              /\ thread' = [thread EXCEPT ![l] = Registering(id, r)]
<1> DEFINE id == thread[l].id
           m == thread[l].m
           new == flow_matchmaker[m] = NoRec
           r == IF new THEN made + 1 ELSE flow_matchmaker[m]
<1>1. id \in Id /\ m \in MTuple /\ thread[l] = Matching(id, m)
  BY ThreadAt DEF AddFlow, TypeOK
<1>2. id \in announced[l] /\ flow_table[l][id] = Absent
  BY <1>1 DEF IdsUsedOnce
<1>3. /\ r \in Rec
      /\ made' = IF new THEN r ELSE made
      /\ m_tuple' = [m_tuple EXCEPT ![r] = m]
      /\ flow_matchmaker' = [flow_matchmaker EXCEPT ![m] = r]
      /\ links' = [links EXCEPT ![r] = @ \cup {<<l, id>>}]
      /\ thread' = [thread EXCEPT ![l] = Registering(id, r)]
  BY DEF AddFlow, Goto
<1>4. \/ flow_matchmaker[m] = NoRec /\ r = made + 1 /\ made' = r
      \/ flow_matchmaker[m] = r /\ made' = made
  BY <1>3
<1> HIDE DEF id, m, new, r
<1> QED
  BY <1>1, <1>2, <1>3, <1>4

\* What a link's thread between the halves of delete_flow removes.
LEMMA RemovingIs ==
    ASSUME TypeOK, NEW l \in Link, RemoveFlow(l)
    PROVE  thread[l].rec \in Rec /\ thread[l] = Removing(thread[l].rec)
  BY ThreadAt DEF RemoveFlow, TypeOK

-----------------------------------------------------------------------------
(* The tables and the threads *)

\* Each action of a link leaves all tables typed.
LEMMA TypeKept ==
    ASSUME IndInv, [Next]_vars
    PROVE  TypeOK'
<1> USE DEF IndInv, TablesInv
<1>1. CASE UNCHANGED vars
  BY <1>1 DEF vars, history, removals, TypeOK
<1>2. ASSUME NEW l \in Link,
             \/ Connect(l) \/ StopListening(l) \/ LinkClosed(l)
             \/ PurgeFlows(l) \/ PurgeDone(l)
      PROVE  TypeOK'
  <2>1. CASE Connect(l) \/ LinkClosed(l) \/ PurgeDone(l)
    BY <2>1 DEF Connect, LinkClosed, PurgeDone, history, removals, TypeOK
  <2>2. CASE StopListening(l)
    BY <2>2, ThreadsAre DEF StopListening, Goto, history, removals, TypeOK
  <2>3. CASE PurgeFlows(l)
    BY <2>3 DEF PurgeFlows, history, removals, TypeOK
  <2> QED
    BY <1>2, <2>1, <2>2, <2>3
<1>e. ASSUME NEW l \in Link, NEW id \in Id, NEW e \in Rec \cup {Ignored, Absent},
             SetEntry(l, id, e) \/ UNCHANGED flow_table
      PROVE  flow_table' \in [Link -> [Id -> Rec \cup {Ignored, Absent}]]
  <2>1. CASE UNCHANGED flow_table
    BY <2>1 DEF TypeOK
  <2>2. CASE SetEntry(l, id, e)
    <3>1. flow_table' = [flow_table EXCEPT ![l] = [flow_table[l] EXCEPT ![id] = e]]
      BY <2>2 DEF SetEntry
    <3>2. [flow_table[l] EXCEPT ![id] = e] \in [Id -> Rec \cup {Ignored, Absent}]
      BY DEF TypeOK
    <3> QED
      BY <3>1, <3>2 DEF TypeOK
  <2> QED
    BY <1>e, <2>1, <2>2
<1>3. ASSUME NEW l \in Link, NEW id \in Id, NEW m \in MTuple, PonderFlow(l, id, m)
      PROVE  TypeOK'
  <2>1. flow_table' \in [Link -> [Id -> Rec \cup {Ignored, Absent}]]
    BY <1>3, <1>e DEF PonderFlow
  <2>2. thread' \in [Link -> Threads]
    <3>1. thread' = thread \/ thread' = [thread EXCEPT ![l] = Matching(id, m)]
      BY <1>3 DEF PonderFlow, Goto
    <3> QED
      BY <3>1, ThreadsAre DEF TypeOK
  <2>3. announced' \in [Link -> SUBSET Id]
    BY <1>3 DEF PonderFlow, TypeOK
  <2> QED
    BY <1>3, <2>1, <2>2, <2>3 DEF PonderFlow, removals, TypeOK
<1>4. ASSUME NEW l \in Link, NEW id \in Id, DeleteFlow(l, id) \/ Dangling(l, id)
      PROVE  TypeOK'
  <2>1. flow_table' \in [Link -> [Id -> Rec \cup {Ignored, Absent}]]
    BY <1>4, <1>e DEF DeleteFlow, Dangling
  <2>2. flow_table[l][id] \in Rec \cup {Ignored, Absent}
    BY DEF TypeOK
  <2>3. thread' \in [Link -> Threads]
    BY <1>4, <2>2, ThreadsAre DEF DeleteFlow, Dangling, Goto, TypeOK
  <2>4. dangled' \subseteq Rec
    BY <1>4, <2>2 DEF DeleteFlow, Dangling, history, TypeOK
  <2> QED
    BY <1>4, <2>1, <2>3, <2>4 DEF DeleteFlow, Dangling, history, removals, TypeOK
<1>5. ASSUME NEW l \in Link, RegisterFlow(l)
      PROVE  TypeOK'
  <2>1. flow_table' \in [Link -> [Id -> Rec \cup {Ignored, Absent}]]
    BY <1>5, <1>e, RegisteringIs DEF RegisterFlow
  <2> QED
    BY <1>5, <2>1, RegisteringIs, ThreadsAre DEF RegisterFlow, Goto, removals, TypeOK
<1>6. ASSUME NEW l \in Link, AddFlow(l)
      PROVE  TypeOK'
  <2>1. PICK id \in Id, m \in MTuple, r \in Rec :
              /\ \/ r = made + 1 /\ made' = r
                 \/ made' = made
              /\ m_tuple' = [m_tuple EXCEPT ![r] = m]
              /\ flow_matchmaker' = [flow_matchmaker EXCEPT ![m] = r]
              /\ links' = [links EXCEPT ![r] = @ \cup {<<l, id>>}]
              /\ thread' = [thread EXCEPT ![l] = Registering(id, r)]
    BY <1>6, AddFlowIs
  <2>2. made' \in 0..MaxRecs
    BY <2>1, MatchmakerConstants DEF TypeOK, Rec
  <2>3. links' \in [Rec -> SUBSET (Link \X Id)]
    BY <2>1 DEF TypeOK
  <2>4. /\ m_tuple' \in [Rec -> MTuple \cup {NoRec}]
        /\ flow_matchmaker' \in [MTuple -> Rec \cup {NoRec}]
        /\ thread' \in [Link -> Threads]
    BY <2>1, ThreadsAre DEF TypeOK
  <2> QED
    BY <1>6, <2>2, <2>3, <2>4 DEF AddFlow, history, removals, TypeOK
<1>7. ASSUME NEW l \in Link, NEW r \in Rec, Has(l, r), RemoveFlowFromMatchmaker(l, r)
      PROVE  /\ flow_matchmaker' \in [MTuple -> Rec \cup {NoRec}]
             /\ ended' \subseteq Link \X Rec /\ mistaken' \subseteq Rec
  <2>1. flow_matchmaker[m_tuple[r]] \in Rec \cup {NoRec}
    BY <1>7 DEF TypeOK, FlowsInv, Numbered
  <2>2. flow_matchmaker' = [flow_matchmaker EXCEPT ![m_tuple[r]] = NoRec]
    BY <1>7 DEF RemoveFlowFromMatchmaker
  <2>3. ended' \subseteq ended \cup {<<l, r>>}
    BY <1>7 DEF RemoveFlowFromMatchmaker
  <2>4. mistaken' \subseteq mistaken \cup ({flow_matchmaker[m_tuple[r]]} \ {NoRec})
    BY <1>7 DEF RemoveFlowFromMatchmaker
  <2>5. flow_matchmaker' \in [MTuple -> Rec \cup {NoRec}]
    BY <2>2 DEF TypeOK
  <2>6. ended' \subseteq Link \X Rec
    BY <2>3 DEF TypeOK
  <2>7. mistaken' \subseteq Rec
    BY <2>1, <2>4 DEF TypeOK
  <2> QED
    BY <2>5, <2>6, <2>7
<1>8. ASSUME NEW l \in Link, RemoveFlow(l)
      PROVE  TypeOK'
  <2>1. thread[l].rec \in Rec /\ Has(l, thread[l].rec)
    BY <1>8, RemovingIs DEF Has
  <2> QED
    BY <1>7, <1>8, <2>1, ThreadsAre DEF RemoveFlow, Goto, TypeOK
<1>9. ASSUME NEW l \in Link, NEW r \in Rec, PurgeFlow(l, r)
      PROVE  TypeOK'
  BY <1>7, <1>9 DEF PurgeFlow, Has, TypeOK
<1> QED
  BY <1>1, <1>2, <1>3, <1>4, <1>5, <1>6, <1>8, <1>9 DEF Next
\* A link gets nothing before it has connected, and purges to the end.
LEMMA LifeKept ==
    ASSUME IndInv, [Next]_vars
    PROVE  Life'
<1> USE DEF IndInv, TablesInv
<1>1. CASE UNCHANGED vars
  BY <1>1 DEF vars, Life
<1>2. ASSUME NEW l \in Link,
             \/ Connect(l) \/ StopListening(l) \/ LinkClosed(l)
             \/ PurgeFlows(l) \/ PurgeDone(l)
      PROVE  Life'
  BY <1>2 DEF Connect, StopListening, LinkClosed, PurgeFlows, PurgeDone, Goto, TypeOK, Life
<1>3. ASSUME NEW l \in Link, NEW id \in Id,
             \/ \E m \in MTuple : PonderFlow(l, id, m)
             \/ DeleteFlow(l, id) \/ Dangling(l, id)
      PROVE  Life'
  BY <1>3 DEF PonderFlow, DeleteFlow, Dangling, SetEntry, Goto, TypeOK, Life
<1>4. ASSUME NEW l \in Link, RegisterFlow(l) \/ AddFlow(l) \/ RemoveFlow(l)
      PROVE  Life'
  <2>1. stage[l] # "new"
    BY <1>4 DEF RegisterFlow, AddFlow, RemoveFlow, Listening, Life
  <2> QED
    BY <1>4, <2>1 DEF RegisterFlow, AddFlow, RemoveFlow, SetEntry, Goto, TypeOK, Life
<1>5. ASSUME NEW l \in Link, NEW r \in Rec, PurgeFlow(l, r)
      PROVE  Life'
  BY <1>5 DEF PurgeFlow, TypeOK, Life
<1> QED
  BY <1>1, <1>2, <1>3, <1>4, <1>5 DEF Next

\* An id is announced before it comes into a table, and only once.
LEMMA IdsKept ==
    ASSUME IndInv, [Next]_vars
    PROVE  IdsUsedOnce'
<1> USE DEF IndInv, TablesInv
<1>1. CASE UNCHANGED <<flow_table, thread, announced>>
  BY <1>1 DEF IdsUsedOnce
<1>2. ASSUME NEW l \in Link, NEW id \in Id, NEW m \in MTuple, PonderFlow(l, id, m)
      PROVE  IdsUsedOnce'
  <2>1. id \notin announced[l] /\ flow_table[l][id] = Absent
    <3>1. id \in Nat
      BY MatchmakerConstants
    <3>2. id \notin announced[l]
      BY <1>2, <3>1 DEF PonderFlow
    <3> QED
      BY <3>2 DEF IdsUsedOnce
  <2>2. announced' = [announced EXCEPT ![l] = @ \cup {id}]
    BY <1>2 DEF PonderFlow
  <2>3. CASE Goto(l, Matching(id, m)) /\ UNCHANGED flow_table
    BY <2>1, <2>2, <2>3, ThreadStates DEF Goto, TypeOK, IdsUsedOnce
  <2>4. CASE SetEntry(l, id, Ignored) /\ UNCHANGED thread
    BY <1>2, <2>1, <2>2, <2>4, ThreadStates DEF PonderFlow, SetEntry, TypeOK, IdsUsedOnce
  <2> QED
    BY <1>2, <2>3, <2>4 DEF PonderFlow
<1>3. ASSUME NEW l \in Link, AddFlow(l)
      PROVE  IdsUsedOnce'
  <2>1. PICK id \in Id, r \in Rec :
              /\ id \in announced[l] /\ flow_table[l][id] = Absent
              /\ thread' = [thread EXCEPT ![l] = Registering(id, r)]
    BY <1>3, AddFlowIs
  <2>2. UNCHANGED <<flow_table, announced>>
    BY <1>3 DEF AddFlow, history
  <2> QED
    BY <2>1, <2>2, ThreadStates DEF TypeOK, IdsUsedOnce
<1>4. ASSUME NEW l \in Link, RegisterFlow(l)
      PROVE  IdsUsedOnce'
  <2> DEFINE id == thread[l].id
             r == thread[l].rec
  <2>1. id \in Id /\ r \in Rec /\ id \in announced[l]
    BY <1>4, RegisteringIs
  <2>2. /\ flow_table' = [flow_table EXCEPT ![l][id] = r]
        /\ thread' = [thread EXCEPT ![l] = Listening] /\ UNCHANGED announced
    BY <1>4 DEF RegisterFlow, SetEntry, Goto
  <2> HIDE DEF id, r
  <2> QED
    BY <2>1, <2>2, ThreadStates DEF TypeOK, IdsUsedOnce
<1>5. ASSUME NEW l \in Link, NEW id \in Id, DeleteFlow(l, id)
      PROVE  IdsUsedOnce'
  <2>1. /\ flow_table' = [flow_table EXCEPT ![l][id] = Absent] /\ UNCHANGED announced
        /\ thread' = thread \/ thread' = [thread EXCEPT ![l] = Removing(flow_table[l][id])]
    BY <1>5 DEF DeleteFlow, SetEntry, Goto, history
  <2> QED
    BY <2>1, ThreadStates DEF TypeOK, IdsUsedOnce
<1>6. ASSUME NEW l \in Link, NEW id \in Id, Dangling(l, id)
      PROVE  IdsUsedOnce'
  <2>1. /\ flow_table' = [flow_table EXCEPT ![l][id] = Ignored]
        /\ UNCHANGED <<announced, thread>> /\ flow_table[l][id] \in Rec
    BY <1>6 DEF Dangling, SetEntry
  <2> QED
    BY <2>1, MarksAreNoRecs DEF TypeOK, IdsUsedOnce
<1>7. ASSUME NEW l \in Link, RemoveFlow(l) \/ StopListening(l)
      PROVE  IdsUsedOnce'
  <2>1. /\ \E th \in {Listening, Gone} : thread' = [thread EXCEPT ![l] = th]
        /\ UNCHANGED <<announced, flow_table>>
    BY <1>7 DEF RemoveFlow, StopListening, Goto, history
  <2> QED
    BY <2>1, ThreadStates DEF TypeOK, IdsUsedOnce
<1>8. ASSUME NEW l \in Link,
             \/ Connect(l) \/ LinkClosed(l) \/ PurgeFlows(l) \/ PurgeDone(l)
             \/ \E r \in Rec : PurgeFlow(l, r)
      PROVE  UNCHANGED <<flow_table, thread, announced>>
  BY <1>8 DEF Connect, LinkClosed, PurgeFlows, PurgeDone, PurgeFlow, history
<1> QED
  BY <1>1, <1>2, <1>3, <1>4, <1>5, <1>6, <1>7, <1>8 DEF Next, vars, history

-----------------------------------------------------------------------------
(* The accounts *)

\* The actions of a link in which no link gets a flow.
GetsNothing(l) ==
    \/ \E id \in Id, m \in MTuple : PonderFlow(l, id, m)
    \/ \E id \in Id : DeleteFlow(l, id) \/ Dangling(l, id)
    \/ \E q \in Rec : PurgeFlow(l, q)
    \/ Connect(l) \/ RegisterFlow(l) \/ RemoveFlow(l)
    \/ StopListening(l) \/ LinkClosed(l) \/ PurgeFlows(l) \/ PurgeDone(l)

LEMMA LinksGetNothing ==
    ASSUME IndInv, NEW l \in Link, NEW k \in Link, NEW r \in Rec, GetsNothing(l)
    PROVE  /\ Has(k, r)' => Has(k, r)
           /\ InTable(k, r)' \/ Entering(k, r)' => InTable(k, r) \/ Entering(k, r)
<1> USE DEF IndInv, TablesInv
<1>1. ASSUME NEW id \in Id, NEW m \in MTuple, PonderFlow(l, id, m)
      PROVE  /\ Has(k, r)' => Has(k, r)
             /\ InTable(k, r)' \/ Entering(k, r)' => InTable(k, r) \/ Entering(k, r)
  <2>1. /\ UNCHANGED purge
        /\ \/ flow_table' = flow_table /\ thread' = [thread EXCEPT ![l] = Matching(id, m)]
           \/ flow_table' = [flow_table EXCEPT ![l][id] = Ignored] /\ thread' = thread
    BY <1>1 DEF PonderFlow, SetEntry, Goto
  <2> QED
    BY <2>1, ThreadStates, MarksAreNoRecs DEF TypeOK, Has, InTable, Entering
<1>2. ASSUME NEW id \in Id, DeleteFlow(l, id)
      PROVE  /\ Has(k, r)' => Has(k, r)
             /\ InTable(k, r)' \/ Entering(k, r)' => InTable(k, r) \/ Entering(k, r)
  <2>1. /\ UNCHANGED purge
        /\ flow_table' = [flow_table EXCEPT ![l][id] = Absent]
        /\ \/ thread' = thread
           \/ thread' = [thread EXCEPT ![l] = Removing(flow_table[l][id])]
    BY <1>2 DEF DeleteFlow, SetEntry, Goto
  <2> QED
    BY <2>1, ThreadStates, MarksAreNoRecs DEF TypeOK, Has, InTable, Entering
<1>3. ASSUME NEW id \in Id, Dangling(l, id)
      PROVE  /\ Has(k, r)' => Has(k, r)
             /\ InTable(k, r)' \/ Entering(k, r)' => InTable(k, r) \/ Entering(k, r)
  BY <1>3, MarksAreNoRecs DEF Dangling, SetEntry, TypeOK, Has, InTable, Entering
<1>4. ASSUME RegisterFlow(l)
      PROVE  /\ Has(k, r)' => Has(k, r)
             /\ InTable(k, r)' \/ Entering(k, r)' => InTable(k, r) \/ Entering(k, r)
  <2> DEFINE id == thread[l].id
             q == thread[l].rec
  <2>1. id \in Id /\ q \in Rec /\ thread[l] = Registering(id, q)
    BY <1>4, RegisteringIs
  <2>2. /\ flow_table' = [flow_table EXCEPT ![l][id] = q]
        /\ thread' = [thread EXCEPT ![l] = Listening] /\ UNCHANGED purge
    BY <1>4 DEF RegisterFlow, SetEntry, Goto
  <2> HIDE DEF id, q
  <2> QED
    BY <2>1, <2>2, ThreadStates DEF TypeOK, Has, InTable, Entering
<1>5. ASSUME RemoveFlow(l) \/ StopListening(l)
      PROVE  /\ Has(k, r)' => Has(k, r)
             /\ InTable(k, r)' \/ Entering(k, r)' => InTable(k, r) \/ Entering(k, r)
  <2>1. /\ \E th \in {Listening, Gone} : thread' = [thread EXCEPT ![l] = th]
        /\ UNCHANGED <<flow_table, purge>>
    BY <1>5 DEF RemoveFlow, StopListening, Goto
  <2> QED
    BY <2>1, ThreadStates DEF TypeOK, Has, InTable, Entering
<1>6. ASSUME Connect(l) \/ LinkClosed(l) \/ PurgeDone(l) \/ PurgeFlows(l)
             \/ \E q \in Rec : PurgeFlow(l, q)
      PROVE  /\ Has(k, r)' => Has(k, r)
             /\ InTable(k, r)' \/ Entering(k, r)' => InTable(k, r) \/ Entering(k, r)
  <2>1. UNCHANGED <<flow_table, thread>>
    BY <1>6 DEF Connect, LinkClosed, PurgeDone, PurgeFlows, PurgeFlow
  <2>2. \/ purge' = purge
        \/ purge' = [purge EXCEPT ![l] = {flow_table[l][id] : id \in Id} \cap Rec]
        \/ \E q \in Rec : purge' = [purge EXCEPT ![l] = @ \ {q}]
    BY <1>6 DEF Connect, LinkClosed, PurgeDone, PurgeFlows, PurgeFlow
  <2>3. r \in purge'[k] => r \in purge[k] \/ InTable(k, r)
    BY <2>2 DEF TypeOK, InTable
  <2> QED
    BY <2>1, <2>3 DEF Has, InTable, Entering
<1> QED
  BY <1>1, <1>2, <1>3, <1>4, <1>5, <1>6 DEF GetsNothing

\* AddFlow gives its link one flow.
LEMMA AddFlowGives ==
    ASSUME IndInv, NEW l \in Link, NEW id \in Id, NEW q \in Rec, AddFlow(l),
           thread' = [thread EXCEPT ![l] = Registering(id, q)],
           NEW k \in Link, NEW r \in Rec
    PROVE  /\ Has(k, r)' => Has(k, r) \/ (k = l /\ r = q)
           /\ InTable(k, r)' \/ Entering(k, r)' =>
                 InTable(k, r) \/ Entering(k, r) \/ (k = l /\ r = q)
  BY ThreadStates DEF AddFlow, IndInv, TablesInv, TypeOK, Has, InTable, Entering

\* remove_flow_from_matchmaker, for a flow that the link has.
LEMMA RemovingDoes ==
    ASSUME IndInv, NEW l \in Link, NEW r \in Rec, Has(l, r), RemoveFlowFromMatchmaker(l, r)
    PROVE  /\ m_tuple[r] \in MTuple
           /\ flow_matchmaker' = [flow_matchmaker EXCEPT ![m_tuple[r]] = NoRec]
           /\ ended \subseteq ended' /\ mistaken \subseteq mistaken'
           /\ \A q \in Rec : q = flow_matchmaker[m_tuple[r]] =>
                 q \in mistaken' \/ <<l, q>> \in ended'
           /\ \A k \in Link, q \in Rec : <<k, q>> \in ended' \ ended =>
                 /\ k = l /\ q = r /\ q = flow_matchmaker[m_tuple[r]]
                 /\ \A h \in Side(l) : Listed(h) => ~InTable(h, r) /\ ~Entering(h, r)
<1>1. m_tuple[r] \in MTuple
  BY DEF IndInv, FlowsInv, Numbered
<1> DEFINE found == flow_matchmaker[m_tuple[r]]
           own == found = r /\ \A h \in Side(l) :
                                 Listed(h) => ~InTable(h, r) /\ ~Entering(h, r)
<1>2. /\ flow_matchmaker' = [flow_matchmaker EXCEPT ![m_tuple[r]] = NoRec]
      /\ ended' = (IF own THEN ended \cup {<<l, r>>} ELSE ended)
      /\ mistaken' = (IF own THEN mistaken ELSE mistaken \cup ({found} \ {NoRec}))
  BY DEF RemoveFlowFromMatchmaker
<1>3. own => found = r /\ \A h \in Side(l) : Listed(h) => ~InTable(h, r) /\ ~Entering(h, r)
  OBVIOUS
<1> HIDE DEF own
<1>4. \A q \in Rec : q = found => q \in mistaken' \/ <<l, q>> \in ended'
  BY <1>2, <1>3, MarksAreNoRecs
<1> QED
  BY <1>1, <1>2, <1>3, <1>4

\* The steps but those that change the Matchmaker: no account is begun or taken
\* out, no link gets one, and a link that is now listed has nothing or was so.
Quiet ==
    /\ UNCHANGED <<flow_matchmaker, made, m_tuple, ended, mistaken>>
    /\ \A k \in Link, r \in Rec :
          /\ Has(k, r)' => Has(k, r)
          /\ InTable(k, r)' \/ Entering(k, r)' => InTable(k, r) \/ Entering(k, r)
    /\ \A k \in Link : Listed(k)' => Listed(k) \/ \A r \in Rec : ~InTable(k, r) /\ ~Entering(k, r)

LEMMA QuietSteps ==
    ASSUME IndInv, NEW l \in Link,
           \/ \E id \in Id, m \in MTuple : PonderFlow(l, id, m)
           \/ \E id \in Id : DeleteFlow(l, id) \/ Dangling(l, id)
           \/ Connect(l) \/ RegisterFlow(l)
           \/ StopListening(l) \/ LinkClosed(l) \/ PurgeFlows(l) \/ PurgeDone(l)
    PROVE  Quiet
<1>1. UNCHANGED <<flow_matchmaker, made, m_tuple, ended, mistaken>>
  BY DEF PonderFlow, DeleteFlow, Dangling, Connect, RegisterFlow, StopListening, LinkClosed,
         PurgeFlows, PurgeDone, history, removals
<1>2. \A k \in Link, r \in Rec :
          /\ Has(k, r)' => Has(k, r)
          /\ InTable(k, r)' \/ Entering(k, r)' => InTable(k, r) \/ Entering(k, r)
  <2> SUFFICES ASSUME NEW k \in Link, NEW r \in Rec
               PROVE  /\ Has(k, r)' => Has(k, r)
                      /\ InTable(k, r)' \/ Entering(k, r)' => InTable(k, r) \/ Entering(k, r)
    OBVIOUS
  <2>1. GetsNothing(l)
    BY DEF GetsNothing
  <2> QED
    BY <2>1, LinksGetNothing
<1>3. ASSUME NEW k \in Link, Listed(k)', ~Listed(k)
      PROVE  \A r \in Rec : ~InTable(k, r) /\ ~Entering(k, r)
  <2>1. stage[k] = "new"
    BY <1>3 DEF PonderFlow, DeleteFlow, Dangling, Connect, RegisterFlow, StopListening,
                LinkClosed, PurgeFlows, PurgeDone, Listed, IndInv, TablesInv, TypeOK
  <2> QED
    BY <2>1, ThreadStates, MarksAreNoRecs DEF IndInv, TablesInv, Life, InTable, Entering
<1> QED
  BY <1>1, <1>2, <1>3 DEF Quiet

\* What a quiet step keeps.
LEMMA QuietKeeps ==
    ASSUME IndInv, Quiet
    PROVE  Numbered' /\ OutIsKnown' /\ EndedIsOver'
<1> USE DEF IndInv, FlowsInv, Quiet
<1>1. Numbered'
  BY DEF Numbered
<1>2. OutIsKnown'
  BY DEF OutIsKnown
<1>3. EndedIsOver'
  BY Sides DEF EndedIsOver, Side
<1> QED
  BY <1>1, <1>2, <1>3

\* What taking a flow out of the Matchmaker keeps.
LEMMA RemovingKeeps ==
    ASSUME IndInv, NEW l \in Link, NEW r \in Rec, Has(l, r), RemoveFlowFromMatchmaker(l, r),
           UNCHANGED <<made, m_tuple, stage>>,
           \A k \in Link, q \in Rec :
              /\ Has(k, q)' => Has(k, q)
              /\ InTable(k, q)' \/ Entering(k, q)' => InTable(k, q) \/ Entering(k, q)
    PROVE  Numbered' /\ OutIsKnown' /\ EndedIsOver'
<1> USE DEF IndInv, FlowsInv
<1>1. m_tuple[r] \in MTuple /\ r <= made
  BY RemovingDoes DEF Numbered
<1>2. ASSUME NEW m \in MTuple, NEW q \in Rec
      PROVE  flow_matchmaker'[m] = q <=> flow_matchmaker[m] = q /\ m # m_tuple[r]
  BY RemovingDoes, MarksAreNoRecs DEF TablesInv, TypeOK
<1>3. Numbered'
  BY <1>2 DEF Numbered
<1>4. OutIsKnown'
  <2> SUFFICES ASSUME NEW q \in Rec, q <= made, flow_matchmaker'[m_tuple[q]] # q
               PROVE  q \in mistaken' \/ \E k \in Link : <<k, q>> \in ended'
    BY DEF OutIsKnown
  <2>1. CASE flow_matchmaker[m_tuple[q]] # q
    BY <2>1, RemovingDoes DEF OutIsKnown
  <2>2. CASE flow_matchmaker[m_tuple[q]] = q
    <3>1. m_tuple[q] = m_tuple[r]
      BY <1>2, <2>2 DEF Numbered
    <3> QED
      BY <2>2, <3>1, RemovingDoes
  <2> QED
    BY <2>1, <2>2
<1>5. EndedIsOver'
  <2> SUFFICES ASSUME NEW k \in Link, NEW q \in Rec, <<k, q>> \in ended'
               PROVE  /\ q <= made
                      /\ flow_matchmaker'[m_tuple[q]] # q
                      /\ \A h \in Side(k) : Listed(h) => ~InTable(h, q)' /\ ~Entering(h, q)'
    BY DEF EndedIsOver, Listed, Side
  <2>1. CASE <<k, q>> \in ended
    <3>1. q <= made /\ flow_matchmaker[m_tuple[q]] # q /\ m_tuple[q] \in MTuple
      BY <2>1 DEF EndedIsOver, Numbered
    <3>2. flow_matchmaker'[m_tuple[q]] # q
      BY <1>2, <3>1
    <3> QED
      BY <2>1, <3>1, <3>2, Sides DEF EndedIsOver
  <2>2. CASE <<k, q>> \notin ended
    <3>1. k = l /\ q = r /\ \A h \in Side(l) : Listed(h) => ~InTable(h, r) /\ ~Entering(h, r)
      BY <2>2, RemovingDoes
    <3>2. flow_matchmaker'[m_tuple[q]] # q
      BY <1>1, <1>2, <3>1
    <3> QED
      BY <1>1, <3>1, <3>2, Sides
  <2> QED
    BY <2>1, <2>2
<1> QED
  BY <1>3, <1>4, <1>5

\* What AddFlow keeps: a new account is in the Matchmaker, and so is one that a
\* second link comes to have.
LEMMA AddFlowKeeps ==
    ASSUME IndInv, NEW l \in Link, AddFlow(l)
    PROVE  Numbered' /\ OutIsKnown' /\ EndedIsOver'
<1> USE DEF IndInv, TablesInv, FlowsInv
<1>1. PICK id \in Id, m \in MTuple, r \in Rec :
         /\ \/ flow_matchmaker[m] = NoRec /\ r = made + 1 /\ made' = r
            \/ flow_matchmaker[m] = r /\ made' = made
         /\ m_tuple' = [m_tuple EXCEPT ![r] = m]
         /\ flow_matchmaker' = [flow_matchmaker EXCEPT ![m] = r]
         /\ thread' = [thread EXCEPT ![l] = Registering(id, r)]
  BY AddFlowIs
<1>n. made \in Nat /\ made' \in Nat /\ r \in Nat /\ Rec \subseteq Nat
  BY <1>1, MatchmakerConstants DEF TypeOK, Rec
<1>2. made <= made' /\ r <= made'
  BY <1>1, <1>n DEF Numbered
<1>3. \A q \in Rec : q <= made' /\ q # r => q <= made
  BY <1>1, <1>n
<1>4. \A q \in Rec : q <= made => m_tuple'[q] = m_tuple[q]
  <2> SUFFICES ASSUME NEW q \in Rec, q <= made
               PROVE  m_tuple'[q] = m_tuple[q]
    OBVIOUS
  <2>1. q = r => m_tuple[q] = m
    BY <1>1, <1>n DEF Numbered
  <2> QED
    BY <1>1, <2>1 DEF TypeOK
<1>5. /\ m_tuple'[r] = m /\ flow_matchmaker'[m] = r
      /\ \A n \in MTuple \ {m} : flow_matchmaker'[n] = flow_matchmaker[n]
      /\ flow_matchmaker[m] \in {r, NoRec}
  BY <1>1 DEF TypeOK
<1>6. UNCHANGED <<stage, ended, mistaken>>
  BY DEF AddFlow, history, removals
<1>7. \A k \in Link, q \in Rec :
         /\ Has(k, q)' => Has(k, q) \/ (k = l /\ q = r)
         /\ InTable(k, q)' \/ Entering(k, q)' => InTable(k, q) \/ Entering(k, q) \/ (k = l /\ q = r)
  BY <1>1, AddFlowGives
<1>8. \A q \in Rec : q <= made => q <= made'
  BY <1>2, <1>n
<1>9. Numbered'
  <2>1. \A q \in Rec : q <= made' => m_tuple'[q] \in MTuple
    BY <1>3, <1>4, <1>5 DEF Numbered
  <2>2. \A k \in Link, q \in Rec : Has(k, q)' => q <= made'
    BY <1>2, <1>7, <1>8 DEF Numbered
  <2>3. \A n \in MTuple, q \in Rec : flow_matchmaker'[n] = q => q <= made' /\ m_tuple'[q] = n
    BY <1>2, <1>4, <1>5, <1>8 DEF Numbered
  <2> QED
    BY <2>1, <2>2, <2>3 DEF Numbered
<1>10. ASSUME NEW q \in Rec, q <= made, q # r
       PROVE  flow_matchmaker'[m_tuple'[q]] = q <=> flow_matchmaker[m_tuple[q]] = q
  <2>1. m_tuple'[q] = m_tuple[q] /\ m_tuple[q] \in MTuple
    BY <1>4, <1>10 DEF Numbered
  <2> QED
    BY <1>5, <1>10, <2>1, MarksAreNoRecs
<1>11. OutIsKnown'
  <2> SUFFICES ASSUME NEW q \in Rec, q <= made', flow_matchmaker'[m_tuple'[q]] # q
               PROVE  q \in mistaken \/ \E k \in Link : <<k, q>> \in ended
    BY <1>6 DEF OutIsKnown
  <2>1. q # r /\ q <= made
    BY <1>3, <1>5
  <2> QED
    BY <1>10, <2>1 DEF OutIsKnown
<1>12. EndedIsOver'
  <2> SUFFICES ASSUME NEW k \in Link, NEW q \in Rec, <<k, q>> \in ended
               PROVE  /\ q <= made'
                      /\ flow_matchmaker'[m_tuple'[q]] # q
                      /\ \A h \in Side(k) : Listed(h) => ~InTable(h, q)' /\ ~Entering(h, q)'
    BY <1>6 DEF EndedIsOver, Listed, Side
  <2>1. q <= made /\ flow_matchmaker[m_tuple[q]] # q
    BY DEF EndedIsOver
  <2>2. q # r
    BY <1>1, <1>4, <1>5, <1>n, <2>1
  <2> QED
    BY <1>7, <1>8, <1>10, <2>1, <2>2, Sides DEF EndedIsOver
<1> QED
  BY <1>9, <1>11, <1>12

\* Somebody still owes what is in the Matchmaker.
LEMMA MatchedKept ==
    ASSUME IndInv, [Next]_vars
    PROVE  MatchedIsOwed'
<1> USE DEF IndInv, TablesInv, FlowsInv
<1>0. ASSUME UNCHANGED flow_matchmaker, dangled \subseteq dangled', late \subseteq late',
             \A l \in Link, r \in Rec :
                Owes(l, r) => Owes(l, r)' \/ r \in dangled' \cup late'
      PROVE  MatchedIsOwed'
  BY <1>0 DEF MatchedIsOwed
<1>1. CASE UNCHANGED vars
  BY <1>1 DEF vars, history, MatchedIsOwed, Owes, InTable, Entering
<1>2. ASSUME NEW l \in Link, NEW id \in Id, NEW m \in MTuple, PonderFlow(l, id, m)
      PROVE  MatchedIsOwed'
  <2>1. UNCHANGED <<flow_matchmaker, stage, purge, dangled, late>>
    BY <1>2 DEF PonderFlow
  <2>2. thread[l] = Listening /\ flow_table[l][id] = Absent
    <3>1. id \notin announced[l] /\ thread[l] = Listening
      BY <1>2, MatchmakerConstants DEF PonderFlow
    <3> QED
      BY <3>1 DEF IdsUsedOnce
  <2>3. \/ flow_table' = flow_table /\ thread' = [thread EXCEPT ![l] = Matching(id, m)]
        \/ flow_table' = [flow_table EXCEPT ![l][id] = Ignored] /\ thread' = thread
    BY <1>2 DEF PonderFlow, Goto, SetEntry
  <2>4. \A k \in Link, r \in Rec : Owes(k, r) => Owes(k, r)'
    BY <2>1, <2>2, <2>3, ThreadStates, MarksAreNoRecs DEF Owes, InTable, Entering, TypeOK
  <2> QED
    BY <1>0, <2>1, <2>4
<1>3. ASSUME NEW l \in Link, AddFlow(l)
      PROVE  MatchedIsOwed'
  <2>1. PICK id \in Id, m \in MTuple, r \in Rec :
           /\ thread[l] = Matching(id, m)
           /\ flow_matchmaker' = [flow_matchmaker EXCEPT ![m] = r]
           /\ thread' = [thread EXCEPT ![l] = Registering(id, r)]
    BY <1>3, AddFlowIs
  <2>2. UNCHANGED <<flow_table, stage, purge, dangled, late>>
    BY <1>3 DEF AddFlow, history
  <2>3. \A k \in Link, q \in Rec : Owes(k, q) => Owes(k, q)'
    BY <2>1, <2>2, ThreadStates DEF Owes, InTable, Entering, TypeOK
  <2>4. Owes(l, r)'
    BY <2>1 DEF Owes, Entering, TypeOK
  <2> QED
    BY <2>1, <2>2, <2>3, <2>4 DEF MatchedIsOwed, TypeOK
<1>4. ASSUME NEW l \in Link, RegisterFlow(l)
      PROVE  MatchedIsOwed'
  <2> DEFINE id == thread[l].id
             r == thread[l].rec
  <2>1. /\ id \in Id /\ r \in Rec /\ thread[l] = Registering(id, r)
        /\ flow_table[l][id] = Absent
    BY <1>4, RegisteringIs
  <2>2. /\ flow_table' = [flow_table EXCEPT ![l][id] = r]
        /\ thread' = [thread EXCEPT ![l] = Listening]
        /\ stage[l] # "purging"
        /\ late' = (IF stage[l] = "closed" THEN late \cup {r} ELSE late)
        /\ UNCHANGED <<flow_matchmaker, stage, purge, dangled>>
    BY <1>4 DEF RegisterFlow, SetEntry, Goto, FlowLockFree
  <2> HIDE DEF id, r
  <2>3. \A k \in Link, q \in Rec : Owes(k, q) => Owes(k, q)' \/ q \in dangled' \cup late'
    BY <2>1, <2>2, ThreadStates, MarksAreNoRecs DEF Owes, InTable, Entering, TypeOK
  <2> QED
    BY <1>0, <2>2, <2>3
<1>5. ASSUME NEW l \in Link, NEW id \in Id, DeleteFlow(l, id)
      PROVE  MatchedIsOwed'
  <2>1. /\ thread[l] = Listening
        /\ flow_table' = [flow_table EXCEPT ![l][id] = Absent]
        /\ \/ flow_table[l][id] = Ignored /\ thread' = thread
           \/ thread' = [thread EXCEPT ![l] = Removing(flow_table[l][id])]
        /\ UNCHANGED <<flow_matchmaker, stage, purge, dangled, late>>
    BY <1>5 DEF DeleteFlow, SetEntry, Goto, history
  <2>2. \A k \in Link, q \in Rec : Owes(k, q) => Owes(k, q)'
    BY <2>1, ThreadStates, MarksAreNoRecs DEF Owes, InTable, Entering, TypeOK
  <2> QED
    BY <1>0, <2>1, <2>2
<1>6. ASSUME NEW l \in Link, NEW id \in Id, Dangling(l, id)
      PROVE  MatchedIsOwed'
  <2>1. /\ flow_table' = [flow_table EXCEPT ![l][id] = Ignored]
        /\ dangled' = dangled \cup {flow_table[l][id]}
        /\ UNCHANGED <<flow_matchmaker, stage, purge, thread, late>>
    BY <1>6 DEF Dangling, SetEntry
  <2>2. \A k \in Link, q \in Rec : Owes(k, q) => Owes(k, q)' \/ q \in dangled'
    BY <2>1 DEF Owes, InTable, Entering, TypeOK
  <2> QED
    BY <1>0, <2>1, <2>2
<1>7. ASSUME NEW l \in Link, PurgeFlows(l)
      PROVE  MatchedIsOwed'
  <2>1. /\ purge[l] = {}
        /\ stage' = [stage EXCEPT ![l] = "purging"]
        /\ purge' = [purge EXCEPT ![l] = {flow_table[l][id] : id \in Id} \cap Rec]
        /\ UNCHANGED <<flow_matchmaker, flow_table, thread, dangled, late>>
    BY <1>7 DEF PurgeFlows, history, Life
  <2>2. \A k \in Link, q \in Rec : Owes(k, q) => Owes(k, q)'
    BY <2>1 DEF Owes, InTable, Entering, TypeOK
  <2> QED
    BY <1>0, <2>1, <2>2
<1>8. ASSUME NEW l \in Link, Connect(l) \/ StopListening(l) \/ LinkClosed(l) \/ PurgeDone(l)
      PROVE  MatchedIsOwed'
  <2>1. /\ UNCHANGED <<flow_matchmaker, flow_table, purge, dangled, late>>
        /\ \/ thread' = thread
           \/ thread[l] = Listening /\ thread' = [thread EXCEPT ![l] = Gone]
        /\ \/ stage' = stage
           \/ stage' = [stage EXCEPT ![l] = "open"]
           \/ stage' = [stage EXCEPT ![l] = "unlisted"]
           \/ stage[l] = "purging" /\ stage' = [stage EXCEPT ![l] = "closed"]
    BY <1>8 DEF Connect, StopListening, LinkClosed, PurgeDone, Goto, history
  <2>2. \A k \in Link, q \in Rec : Owes(k, q) => Owes(k, q)'
    BY <2>1, ThreadStates DEF Owes, InTable, Entering, TypeOK
  <2> QED
    BY <1>0, <2>1, <2>2
<1>9. ASSUME NEW l \in Link, NEW r \in Rec, Has(l, r), RemoveFlowFromMatchmaker(l, r),
             UNCHANGED <<dangled, late>>,
             \A k \in Link, q \in Rec \ {r} : Owes(k, q) => Owes(k, q)'
      PROVE  MatchedIsOwed'
  <2>1. ASSUME NEW m \in MTuple, NEW q \in Rec, flow_matchmaker'[m] = q
        PROVE  flow_matchmaker[m] = q /\ q # r
    BY <1>9, <2>1, RemovingDoes, MarksAreNoRecs DEF Numbered, TypeOK
  <2> QED
    BY <1>9, <2>1 DEF MatchedIsOwed
<1>10. ASSUME NEW l \in Link, RemoveFlow(l)
       PROVE  MatchedIsOwed'
  <2> DEFINE r == thread[l].rec
  <2>1. r \in Rec /\ thread[l] = Removing(r) /\ RemoveFlowFromMatchmaker(l, r)
    BY <1>10, RemovingIs DEF RemoveFlow
  <2>2. /\ thread' = [thread EXCEPT ![l] = Listening]
        /\ UNCHANGED <<flow_table, stage, purge, dangled, late>>
    BY <1>10 DEF RemoveFlow, Goto
  <2> HIDE DEF r
  <2>3. \A k \in Link, q \in Rec \ {r} : Owes(k, q) => Owes(k, q)'
    BY <2>1, <2>2, ThreadStates DEF Owes, InTable, Entering, TypeOK
  <2> QED
    BY <1>9, <2>1, <2>2, <2>3 DEF Has
<1>11. ASSUME NEW l \in Link, NEW r \in Rec, PurgeFlow(l, r)
       PROVE  MatchedIsOwed'
  <2>1. /\ purge' = [purge EXCEPT ![l] = @ \ {r}] /\ r \in purge[l]
        /\ UNCHANGED <<flow_table, stage, thread, dangled, late>>
    BY <1>11 DEF PurgeFlow
  <2>2. \A k \in Link, q \in Rec \ {r} : Owes(k, q) => Owes(k, q)'
    BY <2>1 DEF Owes, InTable, Entering, TypeOK
  <2> QED
    BY <1>9, <1>11, <2>1, <2>2 DEF PurgeFlow, Has
<1> QED
  BY <1>1, <1>2, <1>3, <1>4, <1>5, <1>6, <1>7, <1>8, <1>10, <1>11 DEF Next

-----------------------------------------------------------------------------
(* The theorems *)

\* No link has connected, and all tables are empty.
LEMMA InitEstablishes == Init => IndInv
<1> SUFFICES ASSUME Init
             PROVE  IndInv
  OBVIOUS
<1> USE DEF Init
<1>1. TypeOK /\ Life
  BY ThreadsAre, MatchmakerConstants DEF TypeOK, Life, Rec
<1>2. \A l \in Link, r \in Rec : ~Has(l, r)
  BY ThreadStates, MarksAreNoRecs DEF Has, InTable, Entering
<1>3. IdsUsedOnce
  BY ThreadStates DEF IdsUsedOnce
<1>4. \A r \in Rec : ~(r <= made)
  BY MatchmakerConstants DEF Rec
<1>5. Numbered /\ OutIsKnown /\ EndedIsOver /\ MatchedIsOwed
  BY <1>2, <1>4, MarksAreNoRecs DEF Numbered, OutIsKnown, EndedIsOver, MatchedIsOwed
<1> QED
  BY <1>1, <1>3, <1>5 DEF IndInv, TablesInv, FlowsInv

\* The invariant is inductive.
LEMMA NextKeeps ==
    ASSUME IndInv, [Next]_vars
    PROVE  IndInv'
<1>1. CASE UNCHANGED vars
  <2>1. Quiet
    BY <1>1 DEF vars, history, removals, Quiet, Has, InTable, Entering, Listed
  <2> QED
    BY <2>1, QuietKeeps, TypeKept, LifeKept, IdsKept, MatchedKept DEF IndInv, TablesInv, FlowsInv
<1>2. ASSUME NEW l \in Link,
             \/ \E id \in Id, m \in MTuple : PonderFlow(l, id, m)
             \/ \E id \in Id : DeleteFlow(l, id) \/ Dangling(l, id)
             \/ Connect(l) \/ RegisterFlow(l)
             \/ StopListening(l) \/ LinkClosed(l) \/ PurgeFlows(l) \/ PurgeDone(l)
      PROVE  Numbered' /\ OutIsKnown' /\ EndedIsOver'
  BY <1>2, QuietSteps, QuietKeeps
<1>3. ASSUME NEW l \in Link, RemoveFlow(l)
      PROVE  Numbered' /\ OutIsKnown' /\ EndedIsOver'
  <2> DEFINE r == thread[l].rec
  <2>1. r \in Rec /\ Has(l, r)
    BY <1>3, RemovingIs DEF Has, IndInv, TablesInv
  <2>2. RemoveFlowFromMatchmaker(l, r) /\ UNCHANGED <<made, m_tuple, stage>>
    BY <1>3 DEF RemoveFlow
  <2> HIDE DEF r
  <2>3. ASSUME NEW k \in Link, NEW q \in Rec
        PROVE  /\ Has(k, q)' => Has(k, q)
               /\ InTable(k, q)' \/ Entering(k, q)' => InTable(k, q) \/ Entering(k, q)
    <3>1. GetsNothing(l)
      BY <1>3 DEF GetsNothing
    <3> QED
      BY <3>1, LinksGetNothing
  <2> QED
    BY <2>1, <2>2, <2>3, RemovingKeeps
<1>4. ASSUME NEW l \in Link, NEW r \in Rec, PurgeFlow(l, r)
      PROVE  Numbered' /\ OutIsKnown' /\ EndedIsOver'
  <2>1. /\ Has(l, r) /\ RemoveFlowFromMatchmaker(l, r)
        /\ UNCHANGED <<made, m_tuple, stage>>
    BY <1>4 DEF PurgeFlow, Has
  <2>2. ASSUME NEW k \in Link, NEW q \in Rec
        PROVE  /\ Has(k, q)' => Has(k, q)
               /\ InTable(k, q)' \/ Entering(k, q)' => InTable(k, q) \/ Entering(k, q)
    <3>1. GetsNothing(l)
      BY <1>4 DEF GetsNothing
    <3> QED
      BY <3>1, LinksGetNothing
  <2> QED
    BY <2>1, <2>2, RemovingKeeps
<1>5. CASE Next
  BY <1>2, <1>3, <1>4, <1>5, AddFlowKeeps, TypeKept, LifeKept, IdsKept, MatchedKept
     DEF Next, IndInv, TablesInv, FlowsInv
<1> QED
  BY <1>1, <1>5

\* The inductive invariant.
LEMMA IndInvHolds == Spec => []IndInv
  BY InitEstablishes, NextKeeps, PTL DEF Spec

\* The tables only ever hold what they are meant to.
THEOREM TablesTyped == Spec => []TypeOK
<1>1. IndInv => TypeOK
  BY DEF IndInv, TablesInv
<1> QED
  BY <1>1, IndInvHolds, PTL

\* Two links that both have the flow of an m-tuple have one Reconciliator,
\* unless the other end has ended it or it was taken out by mistake.
THEOREM ReportsMeet == Spec => []SharedAccount
<1>1. IndInv => SharedAccount
  <2> USE DEF IndInv, TablesInv, FlowsInv
  <2> SUFFICES ASSUME IndInv, NEW l \in Alice, NEW k \in Bob, NEW r \in Rec, NEW q \in Rec,
                      Listed(l), Listed(k), InTable(l, r), InTable(k, q),
                      m_tuple[r] = m_tuple[q], r # q
               PROVE  \/ \E b \in Bob : <<b, r>> \in ended
                      \/ \E a \in Alice : <<a, q>> \in ended
                      \/ r \in mistaken \/ q \in mistaken
    BY DEF SharedAccount
  <2>1. l \in Link /\ k \in Link /\ r <= made /\ q <= made
    BY DEF Link, Numbered, Has
  <2>2. ASSUME flow_matchmaker[m_tuple[r]] # r, r \notin mistaken
        PROVE  \E b \in Bob : <<b, r>> \in ended
    <3>1. PICK h \in Link : <<h, r>> \in ended
      BY <2>1, <2>2 DEF OutIsKnown
    <3>2. h \notin Alice
      BY <3>1, Sides DEF EndedIsOver
    <3> QED
      BY <3>1, <3>2, Sides
  <2>3. ASSUME flow_matchmaker[m_tuple[q]] # q, q \notin mistaken
        PROVE  \E a \in Alice : <<a, q>> \in ended
    <3>1. PICK h \in Link : <<h, q>> \in ended
      BY <2>1, <2>3 DEF OutIsKnown
    <3>2. h \notin Bob
      BY <3>1, Sides DEF EndedIsOver
    <3> QED
      BY <3>1, <3>2, Sides
  <2> QED
    BY <2>2, <2>3
<1> QED
  BY <1>1, IndInvHolds, PTL

\* What is in the Matchmaker, somebody will take out, unless the flow dangled
\* or was entered after its link had been closed.
THEOREM NothingIsForgotten == Spec => []EveryRecHasAnOwner
<1>1. IndInv => EveryRecHasAnOwner
  BY DEF IndInv, TablesInv, FlowsInv, TypeOK, MatchedIsOwed, EveryRecHasAnOwner
<1> QED
  BY <1>1, IndInvHolds, PTL
=============================================================================
