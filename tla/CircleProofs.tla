---------------------------- MODULE CircleProofs ----------------------------
(***************************************************************************)
(* Proofs about Circle: two members of which neither came or left while    *)
(* the other was joining know each other, and a member does not wait for   *)
(* packets of one that has left, for any number of clients that come and   *)
(* go any number of times, whatever is on its way to them.                 *)
(***************************************************************************)
EXTENDS Circle, SequenceTheorems, TLAPS

CircleTypes ==
    /\ phase \in [Ip -> Phases] /\ members \in [Ip -> SUBSET Ip]
    /\ inbox \in [Ip -> Seq(Msg)]
    /\ client_ready \in [Ip -> BOOLEAN]
    /\ member_queue \in [Ip -> SUBSET Ip] /\ peers \in [Ip -> SUBSET Ip]

\* A client hears its address before anything but farewells: nothing is kept
\* for later, and it knows nobody before.
Hears(i) ==
    /\ member_queue[i] = {}
    /\ ~client_ready[i] =>
          /\ peers[i] = {}
          /\ \A n \in DOMAIN inbox[i] : inbox[i][n].type = "new-members" =>
                \E k \in DOMAIN inbox[i] : k < n /\ inbox[i][k].type = "public-ip"
          /\ Introduced(i) => \E k \in DOMAIN inbox[i] : inbox[i][k].type = "public-ip"

Starts(i) ==
    /\ phase[i] = "connected" =>
          ~client_ready[i] /\ \A n \in DOMAIN inbox[i] : inbox[i][n].type = "farewell"
    /\ phase[i] # "listing" => members[i] = {}

\* Of two links that are joining, one began while the other was at it.
Apart(i, j) == Joining(i) /\ Joining(j) => {i, j} \in together

\* Who is listed is told of j, or j of it when j joins, and either remembers.
Knows(i, j) ==
    /\ phase[i] = "listing" /\ Introduced(j) => j \in members[i]
    /\ phase[i] \in {"listed", "welcomed", "ready"} /\ phase[j] \in {"welcomed", "ready"}
          => j \in Believed(i)

Mutual(i, j) == {i, j} \in together \/ Knows(i, j)

\* Whom a link has listed or its client believes in is there.
Genuine(i) ==
    Present(i) => \A j \in members[i] \cup Believed(i) : {i, j} \in together \/ Present(j)

CircleInv ==
    /\ CircleTypes
    /\ \A i \in Ip : Hears(i) /\ Starts(i) /\ Genuine(i)
    /\ \A i, j \in Ip : i # j => Apart(i, j) /\ Mutual(i, j)

-----------------------------------------------------------------------------
(* Messages *)

LEMMA Messages ==
    ASSUME NEW i \in Ip, NEW s \in SUBSET Ip
    PROVE  /\ PublicIp \in Msg /\ PublicIp.type = "public-ip"
           /\ NewMembers(s) \in Msg /\ NewMembers(s).type = "new-members"
           /\ NewMembers(s).who = s
           /\ Farewell(i) \in Msg /\ Farewell(i).type = "farewell" /\ Farewell(i).who = {i}
BY DEF Msg, PublicIp, NewMembers, Farewell

\* What a client that is sent a message will believe.
LEMMA AppendedBelief ==
    ASSUME CircleTypes, NEW i \in Ip, NEW j \in Ip, NEW m \in Msg,
           inbox'[i] = Append(inbox[i], m),
           peers'[i] = peers[i], member_queue'[i] = member_queue[i]
    PROVE  j \in Believed(i)' <=>
              \/ m.type = "new-members" /\ j \in m.who
              \/ j \in Believed(i) /\ ~(m.type = "farewell" /\ j \in m.who)
<1> PICK n \in Nat : n = Len(inbox[i])
  BY DEF CircleTypes
<1>1. /\ inbox[i] \in Seq(Msg) /\ DOMAIN inbox[i] = 1..n
      /\ DOMAIN inbox'[i] = 1..(n + 1)
      /\ \A k \in 1..n : inbox'[i][k] = inbox[i][k]
      /\ inbox'[i][n + 1] = m
  BY DEF CircleTypes
<1>2. ASSUME NEW l \in 0..n
      PROVE  LeavesAfter(i, l, j)' <=>
                LeavesAfter(i, l, j) \/ (m.type = "farewell" /\ j \in m.who)
  BY <1>1 DEF LeavesAfter, Told
<1>3. ~LeavesAfter(i, n + 1, j)'
  BY <1>1 DEF LeavesAfter, Told
<1>4. OnceReady(i)' = OnceReady(i)
  BY DEF OnceReady
<1>5. (\E l \in DOMAIN inbox'[i] : Told(i, l, "new-members", j)' /\ ~LeavesAfter(i, l, j)') <=>
         \/ m.type = "new-members" /\ j \in m.who
         \/ /\ \E l \in DOMAIN inbox[i] :
                  Told(i, l, "new-members", j) /\ ~LeavesAfter(i, l, j)
            /\ ~(m.type = "farewell" /\ j \in m.who)
  <2>1. \A l \in 1..n : Told(i, l, "new-members", j)' <=> Told(i, l, "new-members", j)
    BY <1>1 DEF Told
  <2>2. Told(i, n + 1, "new-members", j)' <=> m.type = "new-members" /\ j \in m.who
    BY <1>1 DEF Told
  <2>3. 1..(n + 1) = 1..n \cup {n + 1} /\ 1..n \subseteq 0..n
    BY <1>1
  <2> QED
    BY <1>1, <1>2, <1>3, <2>1, <2>2, <2>3
<1>6. LeavesAfter(i, 0, j)' <=>
         LeavesAfter(i, 0, j) \/ (m.type = "farewell" /\ j \in m.who)
  BY <1>1, <1>2
<1> QED
  BY <1>4, <1>5, <1>6 DEF Believed

\* One that is sent nothing believes what it did.
LEMMA SameBelief ==
    ASSUME NEW i \in Ip, inbox'[i] = inbox[i],
           peers'[i] = peers[i], member_queue'[i] = member_queue[i]
    PROVE  Believed(i)' = Believed(i)
BY DEF Believed, OnceReady, LeavesAfter, Told

\* One that has just started, or has heard farewells only, believes in nobody.
LEMMA NoBelief ==
    ASSUME NEW i \in Ip, peers[i] = {}, member_queue[i] = {},
           \A n \in DOMAIN inbox[i] : inbox[i][n].type = "farewell"
    PROVE  Believed(i) = {}
BY DEF Believed, OnceReady, Told

\* A message that has nothing to do with the order in which a client hears
\* what it must, or comes after its address.
LEMMA AppendedHears ==
    ASSUME CircleTypes, NEW i \in Ip, NEW m \in Msg, Hears(i),
           inbox'[i] = Append(inbox[i], m),
           client_ready'[i] = client_ready[i],
           peers'[i] = peers[i], member_queue'[i] = member_queue[i],
           m.type = "new-members" => Introduced(i),
           Introduced(i)' => Introduced(i) \/ m.type = "public-ip"
    PROVE  Hears(i)'
<1> PICK n \in Nat : n = Len(inbox[i])
  BY DEF CircleTypes
<1>1. /\ inbox[i] \in Seq(Msg) /\ DOMAIN inbox[i] = 1..n
      /\ DOMAIN inbox'[i] = 1..(n + 1)
      /\ \A k \in 1..n : inbox'[i][k] = inbox[i][k]
      /\ inbox'[i][n + 1] = m
  BY DEF CircleTypes
<1>2. ASSUME ~client_ready[i], NEW k \in DOMAIN inbox'[i], inbox'[i][k].type = "new-members"
      PROVE  \E l \in DOMAIN inbox'[i] : l < k /\ inbox'[i][l].type = "public-ip"
  <2>1. CASE k \in 1..n
    BY <1>1, <1>2, <2>1 DEF Hears
  <2>2. CASE k = n + 1
    BY <1>1, <1>2, <2>2 DEF Hears
  <2> QED
    BY <1>1, <2>1, <2>2
<1>3. ASSUME ~client_ready[i], Introduced(i)'
      PROVE  \E l \in DOMAIN inbox'[i] : inbox'[i][l].type = "public-ip"
  BY <1>1, <1>3 DEF Hears
<1> QED
  BY <1>2, <1>3 DEF Hears

LEMMA SameHears ==
    ASSUME NEW i \in Ip, Hears(i), inbox'[i] = inbox[i],
           client_ready'[i] = client_ready[i],
           peers'[i] = peers[i], member_queue'[i] = member_queue[i],
           Introduced(i)' => Introduced(i)
    PROVE  Hears(i)'
BY DEF Hears

-----------------------------------------------------------------------------
(* The steps of the server *)

LEMMA PairsOf ==
    ASSUME NEW i \in Ip, NEW j \in Ip \ {i}, Joining(j)
    PROVE  {i, j} \in Interrupting(i) /\ {j, i} \in Interrupting(i)
<1>1. {i, j} = {j, i} /\ j \in {k \in Ip \ {i} : Joining(k)}
  OBVIOUS
<1> QED
  BY <1>1 DEF Interrupting

\* What the invariant says of a client that nothing happens to, and of two of
\* them.
Idle(i) ==
    /\ phase'[i] = phase[i] /\ members'[i] = members[i] /\ inbox'[i] = inbox[i]
    /\ client_ready'[i] = client_ready[i]
    /\ member_queue'[i] = member_queue[i] /\ peers'[i] = peers[i]

LEMMA BelievesClients ==
    ASSUME CircleTypes, NEW i \in Ip
    PROVE  Believed(i) \subseteq Ip
BY DEF CircleTypes, Believed, OnceReady

LEMMA IdleKeeps ==
    ASSUME NEW i \in Ip, Idle(i), Hears(i), Starts(i)
    PROVE  Hears(i)' /\ Starts(i)' /\ Believed(i)' = Believed(i)
<1>1. Introduced(i)' <=> Introduced(i)
  BY DEF Idle, Introduced
<1>2. Hears(i)' /\ Believed(i)' = Believed(i)
  BY <1>1, SameHears, SameBelief DEF Idle
<1> QED
  BY <1>2 DEF Idle, Starts

\* Whom it believes in is still there, or has been here together with it.
LEMMA GenuineStays ==
    ASSUME CircleInv, NEW i \in Ip, Present(i)' => Present(i),
           \A j \in members'[i] \cup Believed(i)' :
              /\ j \in members[i] \cup Believed(i)
              /\ {i, j} \in together => {i, j} \in together'
              /\ Present(j) => Present(j)' \/ {i, j} \in together'
    PROVE  Genuine(i)'
<1> SUFFICES ASSUME Present(i)', NEW j \in members'[i] \cup Believed(i)'
             PROVE  {i, j} \in together' \/ Present(j)'
  BY DEF Genuine
<1>1. {i, j} \in together \/ Present(j)
  BY DEF CircleInv, Genuine
<1> QED
  BY <1>1

LEMMA PairStays ==
    ASSUME CircleInv, NEW i \in Ip, NEW j \in Ip, i # j,
           phase'[i] = phase[i], phase'[j] = phase[j],
           {i, j} \in together => {i, j} \in together',
           j \in members[i] => j \in members'[i],
           j \in Believed(i) => j \in Believed(i)'
    PROVE  Apart(i, j)' /\ Mutual(i, j)'
<1>1. Apart(i, j) /\ Mutual(i, j)
  BY DEF CircleInv
<1> QED
  BY <1>1 DEF Apart, Mutual, Knows, Joining, Introduced

\* handle_myip
LEMMA MyIpKeeps ==
    ASSUME CircleInv, NEW a \in Ip, MyIp(a)
    PROVE  CircleInv'
<1>1. /\ phase[a] = "connected" /\ phase' = [phase EXCEPT ![a] = "introduced"]
      /\ phase'[a] = "introduced" /\ \A i \in Ip \ {a} : phase'[i] = phase[i] /\ Idle(i)
      /\ UNCHANGED <<members, client>> /\ together' = together \cup Interrupting(a)
      /\ inbox'[a] = Append(inbox[a], PublicIp)
      /\ inbox' = [i \in Ip |-> IF i = a THEN Append(inbox[i], PublicIp) ELSE inbox[i]]
  BY DEF MyIp, Goto, SendTo, CircleInv, CircleTypes, Idle, client
<1>2. PublicIp \in Msg /\ PublicIp.type = "public-ip"
  BY Messages
<1>3. CircleTypes /\ CircleTypes'
  <2>1. phase' \in [Ip -> Phases]
    BY <1>1 DEF CircleInv, CircleTypes, Phases
  <2>2. inbox' \in [Ip -> Seq(Msg)]
    BY <1>1, <1>2 DEF CircleInv, CircleTypes
  <2> QED
    BY <1>1, <2>1, <2>2 DEF CircleInv, CircleTypes, client
<1>4. \A i \in Ip : Believed(i)' = Believed(i) /\ Believed(i) \subseteq Ip
  <2>1. ASSUME NEW j \in Ip
        PROVE  j \in Believed(a)' <=> j \in Believed(a)
    BY <1>1, <1>2, <1>3, AppendedBelief DEF client
  <2>2. Believed(a)' \subseteq Ip /\ \A i \in Ip : Believed(i) \subseteq Ip
    <3>1. ASSUME CircleTypes' PROVE Believed(a)' \subseteq Ip
      BY <3>1 DEF CircleTypes, Believed, OnceReady
    <3> QED
      BY <1>3, <3>1, BelievesClients
  <2>3. \A i \in Ip \ {a} : Believed(i)' = Believed(i)
    BY <1>1, IdleKeeps DEF CircleInv
  <2> QED
    BY <2>1, <2>2, <2>3
<1>5. ASSUME NEW i \in Ip
      PROVE  Hears(i)' /\ Starts(i)'
  <2>1. CASE i = a
    <3>1. Hears(a)'
      BY <1>1, <1>2, <1>3, AppendedHears DEF CircleInv, client
    <3>2. Starts(a)'
      BY <1>1 DEF Starts, CircleInv
    <3> QED
      BY <2>1, <3>1, <3>2
  <2> QED
    BY <1>1, <2>1, IdleKeeps DEF CircleInv
<1>6. ASSUME NEW i \in Ip
      PROVE  Genuine(i)'
  <2>1. members'[i] \cup Believed(i)' = members[i] \cup Believed(i)
    BY <1>1, <1>4
  <2>2. \A j \in members[i] \cup Believed(i) : Present(j) => Present(j)'
    BY <1>1, <1>3, <1>4 DEF Present, CircleTypes
  <2>3. Present(i)' => Present(i)
    BY <1>1 DEF Present
  <2> QED
    BY <1>1, <2>1, <2>2, <2>3, GenuineStays
<1>7. ASSUME NEW i \in Ip, NEW j \in Ip, i # j
      PROVE  Apart(i, j)' /\ Mutual(i, j)'
  <2>1. CASE i = a \/ j = a
    <3>1. Apart(i, j)'
      BY <1>1, <1>7, <2>1, PairsOf DEF Apart, Joining, Introduced
    <3>2. Mutual(i, j)'
      BY <1>1, <1>7, <2>1, PairsOf DEF Mutual, Knows, Joining, Introduced
    <3> QED
      BY <3>1, <3>2
  <2>2. CASE i # a /\ j # a
    BY <1>1, <1>4, <1>7, <2>2, PairStays
  <2> QED
    BY <2>1, <2>2
<1> QED
  BY <1>3, <1>5, <1>6, <1>7 DEF CircleInv

\* new_link
LEMMA ConnectKeeps ==
    ASSUME CircleInv, NEW a \in Ip, Connect(a)
    PROVE  CircleInv'
<1>1. /\ phase[a] = "absent" /\ phase'[a] = "connected" /\ members' = members
      /\ inbox'[a] = <<>> /\ client_ready'[a] = FALSE
      /\ member_queue'[a] = {} /\ peers'[a] = {}
      /\ \A i \in Ip \ {a} : Idle(i)
      /\ \A p \in together : a \notin p => p \in together'
  BY DEF Connect, Present, Goto, CircleInv, CircleTypes, Idle
<1>2. CircleTypes'
  BY DEF Connect, Goto, CircleInv, CircleTypes, Phases
<1>3. Believed(a)' = {}
  <2>1. ASSUME NEW S, NEW s \in Seq(S), s = <<>> PROVE DOMAIN s = {}
    BY <2>1
  <2> QED
    BY <1>1 DEF Believed, OnceReady, Told
<1>4. \A i \in Ip \ {a} : Hears(i)' /\ Starts(i)' /\ Believed(i)' = Believed(i)
  BY <1>1, IdleKeeps DEF CircleInv
<1>5. members[a] = {}
  BY <1>1 DEF CircleInv, Starts
<1>6. Hears(a)' /\ Starts(a)'
  BY <1>1, <1>5 DEF Hears, Starts, Introduced
<1>7. ASSUME NEW i \in Ip
      PROVE  Genuine(i)'
  <2>1. CASE i = a
    BY <1>1, <1>3, <1>5, <2>1 DEF Genuine
  <2>2. CASE i # a
    <3>1. \A j \in members[i] \cup Believed(i) : j \in Ip
      BY BelievesClients DEF CircleInv, CircleTypes
    <3>2. \A j \in Ip \ {a} : {i, j} \in together => {i, j} \in together'
      BY <1>1, <2>2
    <3>3. \A j \in Ip : Present(j) \/ j = a => Present(j)'
      BY <1>1 DEF Present, Idle
    <3>4. Present(i)' => Present(i)
      BY <1>1, <2>2 DEF Present, Idle
    <3> SUFFICES ASSUME Present(i)', NEW j \in members'[i] \cup Believed(i)'
                 PROVE  {i, j} \in together' \/ Present(j)'
      BY DEF Genuine
    <3>5. j \in members[i] \cup Believed(i) /\ j \in Ip
      BY <1>1, <1>4, <2>2, <3>1
    <3>6. {i, j} \in together \/ Present(j)
      BY <3>4, <3>5 DEF CircleInv, Genuine
    <3> QED
      BY <3>2, <3>3, <3>5, <3>6
  <2> QED
    BY <2>1, <2>2
<1>8. ASSUME NEW i \in Ip, NEW j \in Ip, i # j
      PROVE  Apart(i, j)' /\ Mutual(i, j)'
  <2>1. CASE i = a \/ j = a
    BY <1>1, <2>1 DEF Apart, Mutual, Knows, Joining, Introduced
  <2>2. CASE i # a /\ j # a
    <3>1. {i, j} \in together => {i, j} \in together'
      BY <1>1, <2>2
    <3> QED
      BY <1>1, <1>4, <1>8, <2>2, <3>1, PairStays DEF Idle
  <2> QED
    BY <2>1, <2>2
<1> QED
  BY <1>2, <1>4, <1>6, <1>7, <1>8 DEF CircleInv

\* peers_of
LEMMA ListMembersKeeps ==
    ASSUME CircleInv, NEW a \in Ip, ListMembers(a)
    PROVE  CircleInv'
<1>1. /\ phase[a] = "introduced" /\ phase'[a] = "listing" /\ members'[a] = PeersOf(a)
      /\ UNCHANGED <<inbox, client, together>>
      /\ \A i \in Ip \ {a} : Idle(i)
  BY DEF ListMembers, Goto, CircleInv, CircleTypes, Idle, client
<1>2. CircleTypes'
  BY DEF ListMembers, Goto, PeersOf, CircleInv, CircleTypes, Phases, client
<1>3. Believed(a)' = Believed(a) /\ Hears(a)' /\ Starts(a)'
  <2>1. Believed(a)' = Believed(a)
    BY <1>1, SameBelief DEF client
  <2>2. Hears(a)'
    BY <1>1, SameHears DEF CircleInv, client, Introduced
  <2> QED
    BY <1>1, <2>1, <2>2 DEF Starts
<1>4. \A i \in Ip \ {a} : Hears(i)' /\ Starts(i)' /\ Believed(i)' = Believed(i)
  BY <1>1, IdleKeeps DEF CircleInv
<1>5. \A i \in Ip : /\ Present(i)' <=> Present(i)
                    /\ Introduced(i)' <=> Introduced(i)
                    /\ Joining(i)' <=> Joining(i)
  BY <1>1 DEF Present, Joining, Introduced, Idle
<1>6. ASSUME NEW i \in Ip
      PROVE  Genuine(i)'
  <2>1. CASE i = a
    <3> SUFFICES ASSUME Present(a)', NEW j \in members'[a] \cup Believed(a)'
                 PROVE  {a, j} \in together' \/ Present(j)'
      BY <2>1 DEF Genuine
    <3>1. CASE j \in PeersOf(a)
      BY <1>5, <3>1 DEF PeersOf, Present, Introduced
    <3>2. CASE j \in Believed(a)
      <4>1. j \in Ip
        BY <3>2, BelievesClients DEF CircleInv
      <4> QED
        BY <1>1, <1>5, <3>2, <4>1 DEF CircleInv, Genuine
    <3> QED
      BY <1>1, <1>3, <3>1, <3>2
  <2>2. CASE i # a
    <3>1. members'[i] \cup Believed(i)' = members[i] \cup Believed(i)
      BY <1>1, <1>4, <2>2 DEF Idle
    <3>2. members[i] \cup Believed(i) \subseteq Ip
      BY BelievesClients DEF CircleInv, CircleTypes
    <3> QED
      BY <1>1, <1>5, <3>1, <3>2, GenuineStays
  <2> QED
    BY <2>1, <2>2
<1>7. ASSUME NEW i \in Ip, NEW j \in Ip, i # j
      PROVE  Apart(i, j)' /\ Mutual(i, j)'
  <2>1. Apart(i, j)'
    BY <1>1, <1>5, <1>7 DEF CircleInv, Apart
  <2>2. CASE i = a
    <3>1. Introduced(j)' => j \in members'[a]
      BY <1>1, <1>5, <1>7, <2>2 DEF PeersOf
    <3>2. Knows(a, j)'
      BY <1>1, <3>1 DEF Knows
    <3> QED
      BY <2>1, <2>2, <3>2 DEF Mutual
  <2>3. CASE j = a
    <3>1. phase'[i] = phase[i] /\ members'[i] = members[i]
      BY <1>1, <1>7, <2>3 DEF Idle
    <3>2. Mutual(i, a)
      BY <1>7, <2>3 DEF CircleInv
    <3>3. Knows(i, a) => Knows(i, a)'
      BY <1>1, <1>5, <3>1 DEF Knows
    <3> QED
      <4>1. Mutual(i, a)'
        <5>1. together' = together
          BY <1>1
        <5> QED
          BY <3>2, <3>3, <5>1 DEF Mutual
      <4> QED
        BY <2>1, <2>3, <4>1
  <2>4. CASE i # a /\ j # a
    BY <1>1, <1>4, <1>7, <2>4, PairStays DEF Idle
  <2> QED
    BY <2>1, <2>2, <2>3, <2>4
<1> QED
  BY <1>2, <1>3, <1>4, <1>6, <1>7 DEF CircleInv

\* What the end of peers_of sends.
LEMMA SendMembersKeeps ==
    ASSUME CircleInv, NEW a \in Ip, SendMembers(a)
    PROVE  CircleInv'
<1> DEFINE msg == NewMembers(members[a])
<1>1. /\ phase[a] = "listing" /\ phase'[a] = "listed" /\ members'[a] = {}
      /\ UNCHANGED <<client, together>>
      /\ inbox' = [i \in Ip |-> IF i = a THEN Append(inbox[i], msg) ELSE inbox[i]]
      /\ inbox'[a] = Append(inbox[a], msg)
      /\ \A i \in Ip \ {a} : Idle(i)
  BY DEF SendMembers, SendTo, Goto, CircleInv, CircleTypes, Idle, client
<1>2. msg \in Msg /\ msg.type = "new-members" /\ msg.who = members[a] /\ members[a] \subseteq Ip
  BY Messages DEF CircleInv, CircleTypes
<1> HIDE DEF msg
<1>3. CircleTypes /\ CircleTypes'
  <2>1. inbox' \in [Ip -> Seq(Msg)]
    BY <1>1, <1>2 DEF CircleInv, CircleTypes
  <2>2. phase' \in [Ip -> Phases] /\ members' \in [Ip -> SUBSET Ip]
    BY DEF SendMembers, Goto, CircleInv, CircleTypes, Phases
  <2> QED
    BY <1>1, <2>1, <2>2 DEF CircleInv, CircleTypes, client
<1>4. Believed(a)' = Believed(a) \cup members[a]
  <2>1. Believed(a)' \subseteq Ip
    BY <1>3 DEF CircleTypes, Believed, OnceReady
  <2>2. Believed(a) \cup members[a] \subseteq Ip
    BY <1>2, <1>3, BelievesClients
  <2>3. ASSUME NEW j \in Ip
        PROVE  j \in Believed(a)' <=> j \in Believed(a) \cup members[a]
    BY <1>1, <1>2, <1>3, AppendedBelief DEF client
  <2> QED
    BY <2>1, <2>2, <2>3
<1>5. \A i \in Ip \ {a} : Hears(i)' /\ Starts(i)' /\ Believed(i)' = Believed(i)
  BY <1>1, IdleKeeps DEF CircleInv
<1>6. Hears(a)' /\ Starts(a)'
  <2>1. Introduced(a)
    BY <1>1 DEF Introduced
  <2>2. Hears(a)'
    BY <1>1, <1>2, <1>3, <2>1, AppendedHears DEF CircleInv, client
  <2> QED
    BY <1>1, <2>2 DEF Starts
<1>7. \A i \in Ip : /\ Present(i)' <=> Present(i)
                    /\ Introduced(i)' <=> Introduced(i)
                    /\ Joining(i)' <=> Joining(i)
  BY <1>1 DEF Present, Joining, Introduced, Idle
<1>8. ASSUME NEW i \in Ip
      PROVE  Genuine(i)'
  <2>1. members'[i] \cup Believed(i)' \subseteq members[i] \cup Believed(i)
    BY <1>1, <1>4, <1>5 DEF Idle
  <2>2. members[i] \cup Believed(i) \subseteq Ip
    BY <1>3, BelievesClients DEF CircleTypes
  <2> QED
    BY <1>1, <1>7, <2>1, <2>2, GenuineStays
<1>9. ASSUME NEW i \in Ip, NEW j \in Ip, i # j
      PROVE  Apart(i, j)' /\ Mutual(i, j)'
  <2>1. Apart(i, j)'
    BY <1>1, <1>7, <1>9 DEF CircleInv, Apart
  <2>2. CASE i = a
    <3>1. Mutual(a, j)
      BY <1>9, <2>2 DEF CircleInv
    <3>2. phase'[j] = phase[j]
      BY <1>1, <1>9, <2>2 DEF Idle
    <3>3. Knows(a, j) => Knows(a, j)'
      BY <1>1, <1>4, <3>2 DEF Knows, Introduced
    <3> QED
      BY <1>1, <2>1, <2>2, <3>1, <3>3 DEF Mutual
  <2>3. CASE j = a
    <3>1. phase'[i] = phase[i] /\ members'[i] = members[i]
      BY <1>1, <1>9, <2>3 DEF Idle
    <3>2. Mutual(i, a)
      BY <1>9, <2>3 DEF CircleInv
    <3>3. Knows(i, a) => Knows(i, a)'
      <4>1. phase'[a] = "listed" /\ (Introduced(a)' => Introduced(a))
        BY <1>1, <1>7
      <4> QED
        BY <3>1, <4>1 DEF Knows
    <3> QED
      <4>1. Mutual(i, a)'
        <5>1. together' = together
          BY <1>1
        <5> QED
          BY <3>2, <3>3, <5>1 DEF Mutual
      <4> QED
        BY <2>1, <2>3, <4>1
  <2>4. CASE i # a /\ j # a
    <3>1. Idle(i) /\ Idle(j) /\ Believed(i)' = Believed(i) /\ together' = together
      BY <1>1, <1>5, <1>9, <2>4
    <3> QED
      BY <1>9, <3>1, PairStays DEF Idle
  <2> QED
    BY <2>1, <2>2, <2>3, <2>4
<1> QED
  BY <1>3, <1>5, <1>6, <1>8, <1>9 DEF CircleInv

\* joining_circle
LEMMA JoiningCircleKeeps ==
    ASSUME CircleInv, NEW a \in Ip, JoiningCircle(a)
    PROVE  CircleInv'
<1> DEFINE msg == NewMembers({a})
           Ready(i) == i # a /\ phase[i] = "ready"
<1>1. /\ phase[a] = "listed" /\ phase'[a] = "welcomed"
      /\ UNCHANGED <<members, client, together>>
      /\ inbox' = [i \in Ip |-> IF Ready(i) THEN Append(inbox[i], msg) ELSE inbox[i]]
      /\ \A i \in Ip \ {a} : phase'[i] = phase[i]
  BY DEF JoiningCircle, SendTo, Goto, CircleInv, CircleTypes
<1>2. msg \in Msg /\ msg.type = "new-members" /\ msg.who = {a}
  BY Messages
<1> HIDE DEF msg
<1>3. CircleTypes /\ CircleTypes'
  <2>1. inbox' \in [Ip -> Seq(Msg)]
    BY <1>1, <1>2 DEF CircleInv, CircleTypes
  <2>2. phase' \in [Ip -> Phases]
    BY DEF JoiningCircle, Goto, CircleInv, CircleTypes, Phases
  <2> QED
    BY <1>1, <2>1, <2>2 DEF CircleInv, CircleTypes, client
<1>4. \A i \in Ip : /\ Present(i)' <=> Present(i)
                    /\ Introduced(i)' <=> Introduced(i)
                    /\ Joining(i)' <=> Joining(i)
  BY <1>1 DEF Present, Joining, Introduced
<1>5. ASSUME NEW i \in Ip
      PROVE  Believed(i)' = IF Ready(i) THEN Believed(i) \cup {a} ELSE Believed(i)
  <2>1. CASE Ready(i)
    <3>1. Believed(i)' \subseteq Ip
      BY <1>3 DEF CircleTypes, Believed, OnceReady
    <3>2. Believed(i) \cup {a} \subseteq Ip
      BY <1>3, BelievesClients
    <3>3. inbox'[i] = Append(inbox[i], msg) /\ peers'[i] = peers[i]
          /\ member_queue'[i] = member_queue[i]
      BY <1>1, <2>1 DEF client
    <3> HIDE DEF Ready
    <3>4. ASSUME NEW j \in Ip
          PROVE  j \in Believed(i)' <=> j \in Believed(i) \cup {a}
      BY <1>2, <1>3, <3>3, AppendedBelief
    <3> QED
      BY <2>1, <3>1, <3>2, <3>4
  <2>2. CASE ~Ready(i)
    <3>1. inbox'[i] = inbox[i]
      BY <1>1, <2>2
    <3>2. Believed(i)' = Believed(i)
      BY <1>1, <3>1, SameBelief DEF client
    <3> QED
      BY <2>2, <3>2
  <2> QED
    BY <2>1, <2>2
<1>6. ASSUME NEW i \in Ip
      PROVE  Hears(i)' /\ Starts(i)'
  <2>1. CASE Ready(i)
    <3>1. Introduced(i) /\ phase'[i] = "ready"
      BY <1>1, <2>1 DEF Introduced
    <3>2. inbox'[i] = Append(inbox[i], msg)
      BY <1>1, <2>1
    <3>3. Hears(i)'
      BY <1>1, <1>2, <1>3, <3>1, <3>2, AppendedHears DEF CircleInv, client
    <3> QED
      BY <1>1, <2>1, <3>1, <3>3 DEF CircleInv, Starts
  <2>2. CASE ~Ready(i)
    <3>1. inbox'[i] = inbox[i]
      BY <1>1, <2>2
    <3>2. Hears(i)'
      BY <1>1, <1>4, <3>1, SameHears DEF CircleInv, client
    <3>3. phase'[i] = phase[i] \/ (i = a /\ phase[i] = "listed" /\ phase'[i] = "welcomed")
      BY <1>1
    <3>4. Starts(i)'
      BY <1>1, <3>1, <3>3 DEF CircleInv, Starts, client
    <3> QED
      BY <3>2, <3>4
  <2> QED
    BY <2>1, <2>2
<1> HIDE DEF Ready
<1>7. ASSUME NEW i \in Ip
      PROVE  Genuine(i)'
  <2> SUFFICES ASSUME Present(i)', NEW j \in members'[i] \cup Believed(i)'
               PROVE  {i, j} \in together' \/ Present(j)'
    BY DEF Genuine
  <2>1. CASE j = a
    BY <1>1, <1>4, <2>1 DEF Present
  <2>2. CASE j # a
    <3>1. j \in members[i] \cup Believed(i)
      BY <1>1, <1>5, <2>2
    <3>2. j \in Ip
      BY <1>3, <3>1, BelievesClients DEF CircleTypes
    <3> QED
      BY <1>1, <1>4, <3>1, <3>2 DEF CircleInv, Genuine
  <2> QED
    BY <2>1, <2>2
<1>8. ASSUME NEW i \in Ip, NEW j \in Ip, i # j
      PROVE  Apart(i, j)' /\ Mutual(i, j)'
  <2>1. Apart(i, j)'
    BY <1>1, <1>4, <1>8 DEF CircleInv, Apart
  <2>2. CASE i = a
    <3>1. Mutual(a, j) /\ phase'[j] = phase[j]
      BY <1>1, <1>8, <2>2 DEF CircleInv
    <3>2. Knows(a, j) => Knows(a, j)'
      BY <1>1, <1>5, <3>1 DEF Knows, Ready
    <3> QED
      BY <1>1, <2>1, <2>2, <3>1, <3>2 DEF Mutual
  <2>3. CASE j = a
    <3>1. phase'[i] = phase[i] /\ phase[i] \in Phases
      BY <1>1, <1>3, <1>8, <2>3 DEF CircleTypes
    <3>2. CASE phase[i] = "ready"
      <4>1. Ready(i)
        BY <1>8, <2>3, <3>2 DEF Ready
      <4>2. Knows(i, a)'
        BY <1>5, <3>1, <3>2, <4>1 DEF Knows
      <4> QED
        BY <2>1, <2>3, <4>2 DEF Mutual
    <3>3. CASE Joining(i)
      <4>1. Joining(a)
        BY <1>1 DEF Joining, Introduced
      <4>2. {i, a} \in together
        BY <1>8, <2>3, <3>3, <4>1 DEF CircleInv, Apart
      <4> QED
        BY <1>1, <2>1, <2>3, <4>2 DEF Mutual
    <3>4. CASE phase[i] \in {"absent", "connected"}
      <4>1. Knows(i, a)'
        BY <3>1, <3>4 DEF Knows
      <4> QED
        BY <2>1, <2>3, <4>1 DEF Mutual
    <3> QED
      BY <3>1, <3>2, <3>3, <3>4 DEF Joining, Introduced, Phases
  <2>4. CASE i # a /\ j # a
    <3>1. j \in Believed(i) => j \in Believed(i)'
      BY <1>5
    <3> QED
      BY <1>1, <1>8, <2>4, <3>1, PairStays
  <2> QED
    BY <2>2, <2>3, <2>4
<1> QED
  BY <1>3, <1>6, <1>7, <1>8 DEF CircleInv

\* now_ready
LEMMA NowReadyKeeps ==
    ASSUME CircleInv, NEW a \in Ip, NowReady(a)
    PROVE  CircleInv'
<1>1. /\ phase[a] = "welcomed" /\ phase'[a] = "ready"
      /\ UNCHANGED <<members, inbox, client, together>>
      /\ \A i \in Ip \ {a} : Idle(i)
  BY DEF NowReady, Goto, CircleInv, CircleTypes, Idle, client
<1>2. CircleTypes'
  BY DEF NowReady, Goto, CircleInv, CircleTypes, Phases, client
<1>3. Believed(a)' = Believed(a) /\ Hears(a)' /\ Starts(a)'
  <2>1. Believed(a)' = Believed(a)
    BY <1>1, SameBelief DEF client
  <2>2. Hears(a)'
    BY <1>1, SameHears DEF CircleInv, client, Introduced
  <2> QED
    BY <1>1, <2>1, <2>2 DEF CircleInv, Starts
<1>4. \A i \in Ip \ {a} : Hears(i)' /\ Starts(i)' /\ Believed(i)' = Believed(i)
  BY <1>1, IdleKeeps DEF CircleInv
<1>5. \A i \in Ip : /\ Present(i)' <=> Present(i)
                    /\ Introduced(i)' <=> Introduced(i)
                    /\ Joining(i)' => Joining(i)
  BY <1>1 DEF Present, Joining, Introduced, Idle
<1>6. ASSUME NEW i \in Ip
      PROVE  Genuine(i)'
  <2>1. members'[i] \cup Believed(i)' = members[i] \cup Believed(i)
    BY <1>1, <1>3, <1>4
  <2>2. members[i] \cup Believed(i) \subseteq Ip
    BY BelievesClients DEF CircleInv, CircleTypes
  <2> QED
    BY <1>1, <1>5, <2>1, <2>2, GenuineStays
<1>7. ASSUME NEW i \in Ip, NEW j \in Ip, i # j
      PROVE  Apart(i, j)' /\ Mutual(i, j)'
  <2>1. Apart(i, j)' /\ Mutual(i, j)
    BY <1>1, <1>5, <1>7 DEF CircleInv, Apart
  <2>2. /\ phase[i] \in {"listed", "welcomed", "ready"} <=> phase'[i] \in {"listed", "welcomed", "ready"}
        /\ phase[j] \in {"welcomed", "ready"} <=> phase'[j] \in {"welcomed", "ready"}
        /\ phase[i] = "listing" <=> phase'[i] = "listing"
    BY <1>1, <1>7 DEF Idle
  <2>3. Believed(i)' = Believed(i)
    BY <1>3, <1>4
  <2>4. Knows(i, j) => Knows(i, j)'
    BY <1>1, <1>5, <2>2, <2>3 DEF Knows
  <2> QED
    BY <1>1, <2>1, <2>4 DEF Mutual
<1> QED
  BY <1>2, <1>3, <1>4, <1>6, <1>7 DEF CircleInv

\* link_closed
LEMMA LinkClosedKeeps ==
    ASSUME CircleInv, NEW a \in Ip, LinkClosed(a)
    PROVE  CircleInv'
<1> DEFINE msg == Farewell(a)
           Hearer(i) == i # a /\ Present(i)
<1>1. /\ phase'[a] = "absent" /\ members'[a] = {} /\ inbox'[a] = <<>>
      /\ UNCHANGED client /\ together' = together \cup Interrupting(a)
      /\ \A i \in Ip \ {a} :
            /\ phase'[i] = phase[i] /\ members'[i] = members[i]
            /\ inbox'[i] = IF Hearer(i) THEN Append(inbox[i], msg) ELSE inbox[i]
  BY DEF LinkClosed, Goto, CircleInv, CircleTypes
<1>2. msg \in Msg /\ msg.type = "farewell" /\ msg.who = {a}
  BY Messages
<1>3. CircleTypes /\ CircleTypes'
  <2>1. \A i \in Ip : inbox[i] \in Seq(Msg)
    BY DEF CircleInv, CircleTypes
  <2>2. inbox' \in [Ip -> Seq(Msg)]
    <3> HIDE DEF msg
    <3>1. ASSUME NEW s \in Seq(Msg) PROVE Append(s, msg) \in Seq(Msg)
      BY <1>2
    <3>2. <<>> \in Seq(Msg)
      OBVIOUS
    <3> QED
      BY <2>1, <3>1, <3>2 DEF LinkClosed, msg
  <2>3. phase' \in [Ip -> Phases] /\ members' \in [Ip -> SUBSET Ip]
    BY DEF LinkClosed, Goto, CircleInv, CircleTypes, Phases
  <2> QED
    BY <1>1, <2>2, <2>3 DEF CircleInv, CircleTypes, client
<1> HIDE DEF msg
<1>4. \A i \in Ip \ {a} : /\ Present(i)' <=> Present(i)
                          /\ Introduced(i)' <=> Introduced(i)
                          /\ Joining(i)' <=> Joining(i)
  BY <1>1 DEF Present, Joining, Introduced
<1>5. ASSUME NEW i \in Ip \ {a}
      PROVE  Believed(i)' = IF Hearer(i) THEN Believed(i) \ {a} ELSE Believed(i)
  <2>1. CASE Hearer(i)
    <3>1. Believed(i)' \subseteq Ip
      BY <1>3 DEF CircleTypes, Believed, OnceReady
    <3>2. Believed(i) \ {a} \subseteq Ip
      BY <1>3, BelievesClients
    <3>3. inbox'[i] = Append(inbox[i], msg) /\ peers'[i] = peers[i]
          /\ member_queue'[i] = member_queue[i]
      BY <1>1, <2>1 DEF client
    <3> HIDE DEF Hearer
    <3>4. ASSUME NEW j \in Ip
          PROVE  j \in Believed(i)' <=> j \in Believed(i) \ {a}
      BY <1>2, <1>3, <3>3, AppendedBelief
    <3> QED
      BY <2>1, <3>1, <3>2, <3>4
  <2>2. CASE ~Hearer(i)
    <3>1. inbox'[i] = inbox[i]
      BY <1>1, <2>2
    <3>2. Believed(i)' = Believed(i)
      BY <1>1, <3>1, SameBelief DEF client
    <3> QED
      BY <2>2, <3>2
  <2> QED
    BY <2>1, <2>2
<1>6. ASSUME NEW i \in Ip
      PROVE  Hears(i)' /\ Starts(i)'
  <2>1. CASE i = a
    <3>1. DOMAIN inbox'[a] = {} /\ ~Introduced(a)'
      BY <1>1 DEF Introduced
    <3>2. Hears(a)'
      BY <1>1, <3>1 DEF CircleInv, Hears, client
    <3>3. Starts(a)'
      BY <1>1 DEF Starts
    <3> QED
      BY <2>1, <3>2, <3>3
  <2>2. CASE i # a /\ Hearer(i)
    <3>1. inbox'[i] = Append(inbox[i], msg)
      BY <1>1, <2>2
    <3>2. Hears(i)'
      BY <1>1, <1>2, <1>3, <1>4, <2>2, <3>1, AppendedHears DEF CircleInv, client
    <3>3. /\ DOMAIN inbox'[i] = DOMAIN inbox[i] \cup {Len(inbox[i]) + 1}
          /\ \A n \in DOMAIN inbox[i] : inbox'[i][n] = inbox[i][n]
          /\ inbox'[i][Len(inbox[i]) + 1] = msg
      BY <1>2, <1>3, <3>1 DEF CircleTypes
    <3>4. Starts(i)'
      BY <1>1, <1>2, <2>2, <3>3 DEF CircleInv, Starts, client
    <3> QED
      BY <3>2, <3>4
  <2>3. CASE i # a /\ ~Hearer(i)
    <3>1. Idle(i)
      BY <1>1, <2>3 DEF Idle, client
    <3> QED
      BY <3>1, IdleKeeps DEF CircleInv
  <2> QED
    BY <2>1, <2>2, <2>3
<1>7. ASSUME NEW i \in Ip
      PROVE  Genuine(i)'
  <2> SUFFICES ASSUME Present(i)', NEW j \in members'[i] \cup Believed(i)'
               PROVE  {i, j} \in together' \/ Present(j)'
    BY DEF Genuine
  <2>1. i # a /\ Hearer(i)
    BY <1>1, <1>4 DEF Present
  <2>2. j \in members[i] \cup (Believed(i) \ {a})
    BY <1>1, <1>5, <2>1
  <2>3. CASE j = a
    <3>1. phase[i] = "listing"
      BY <2>2, <2>3 DEF CircleInv, Starts
    <3>2. Joining(i)
      BY <3>1 DEF Joining, Introduced
    <3>3. {i, a} \in Interrupting(a)
      BY <2>1, <3>2, PairsOf
    <3> QED
      BY <1>1, <2>3, <3>3
  <2>4. CASE j # a
    <3>1. j \in Ip
      BY <1>3, <2>2, BelievesClients DEF CircleTypes
    <3>2. {i, j} \in together \/ Present(j)
      BY <2>1, <2>2 DEF CircleInv, Genuine
    <3> QED
      BY <1>1, <1>4, <2>4, <3>1, <3>2
  <2> QED
    BY <2>3, <2>4
<1>8. ASSUME NEW i \in Ip, NEW j \in Ip, i # j
      PROVE  Apart(i, j)' /\ Mutual(i, j)'
  <2>1. CASE i = a \/ j = a
    BY <1>1, <2>1 DEF Apart, Mutual, Knows, Joining, Introduced
  <2>2. CASE i # a /\ j # a
    <3>1. j \in Believed(i) => j \in Believed(i)'
      BY <1>5, <2>2
    <3> QED
      BY <1>1, <1>8, <2>2, <3>1, PairStays
  <2> QED
    BY <2>1, <2>2
<1> QED
  BY <1>3, <1>6, <1>7, <1>8 DEF CircleInv

-----------------------------------------------------------------------------
(* The steps of the clients *)

\* What a client believes does not change with a message that it reads.
LEMMA ReadBelief ==
    ASSUME CircleTypes, CircleTypes', NEW i \in Ip, inbox[i] # <<>>, inbox'[i] = Tail(inbox[i]),
           OnceReady(i)' = Heed(OnceReady(i), Head(inbox[i]))
    PROVE  Believed(i)' = Believed(i)
<1> PICK n \in Nat : n = Len(inbox[i])
  BY DEF CircleTypes
<1>1. /\ inbox[i] \in Seq(Msg) /\ n > 0 /\ DOMAIN inbox[i] = 1..n
      /\ DOMAIN inbox'[i] = 1..(n - 1)
      /\ \A k \in 1..(n - 1) : inbox'[i][k] = inbox[i][k + 1]
      /\ Head(inbox[i]) = inbox[i][1] /\ inbox[i][1] \in Msg
  BY DEF CircleTypes
<1>2. ASSUME NEW j \in Ip, NEW l \in 0..(n - 1)
      PROVE  LeavesAfter(i, l, j)' <=> LeavesAfter(i, l + 1, j)
  <2>1. ASSUME LeavesAfter(i, l, j)'
        PROVE  LeavesAfter(i, l + 1, j)
    <3>1. PICK k \in DOMAIN inbox'[i] : k > l /\ Told(i, k, "farewell", j)'
      BY <2>1 DEF LeavesAfter
    <3>2. k + 1 \in DOMAIN inbox[i] /\ k + 1 > l + 1 /\ Told(i, k + 1, "farewell", j)
      BY <1>1, <3>1 DEF Told
    <3> QED
      BY <3>2 DEF LeavesAfter
  <2>2. ASSUME LeavesAfter(i, l + 1, j)
        PROVE  LeavesAfter(i, l, j)'
    <3>1. PICK k \in DOMAIN inbox[i] : k > l + 1 /\ Told(i, k, "farewell", j)
      BY <2>2 DEF LeavesAfter
    <3>2. k - 1 \in 1..(n - 1) /\ k - 1 > l
      BY <1>1, <3>1
    <3>3. inbox'[i][k - 1] = inbox[i][k]
      BY <1>1, <3>1, <3>2
    <3>4. Told(i, k - 1, "farewell", j)'
      BY <3>1, <3>3 DEF Told
    <3> QED
      BY <1>1, <3>2, <3>4 DEF LeavesAfter
  <2> QED
    BY <2>1, <2>2
<1>3. ASSUME NEW j \in Ip
      PROVE  LeavesAfter(i, 0, j) <=> LeavesAfter(i, 1, j) \/ Told(i, 1, "farewell", j)
  BY <1>1 DEF LeavesAfter
<1>4. ASSUME NEW j \in Ip
      PROVE  (\E l \in DOMAIN inbox[i] : Told(i, l, "new-members", j) /\ ~LeavesAfter(i, l, j)) <=>
                \/ Told(i, 1, "new-members", j) /\ ~LeavesAfter(i, 1, j)
                \/ \E l \in DOMAIN inbox'[i] :
                      Told(i, l, "new-members", j)' /\ ~LeavesAfter(i, l, j)'
  <2>1. \A l \in 1..(n - 1) : Told(i, l, "new-members", j)' <=> Told(i, l + 1, "new-members", j)
    BY <1>1 DEF Told
  <2>2. \A l \in 1..(n - 1) : LeavesAfter(i, l, j)' <=> LeavesAfter(i, l + 1, j)
    BY <1>2
  <2> DEFINE Tells(l) == Told(i, l, "new-members", j) /\ ~LeavesAfter(i, l, j)
             Stays(l) == Told(i, l, "new-members", j)' /\ ~LeavesAfter(i, l, j)'
  <2>3. \A l \in 1..(n - 1) : Stays(l) <=> Tells(l + 1)
    BY <2>1, <2>2
  <2> HIDE DEF Tells, Stays
  <2>4. (\E l \in 1..n : Tells(l)) <=> Tells(1) \/ \E l \in 1..(n - 1) : Stays(l)
    <3>1. ASSUME NEW l \in 1..n, Tells(l)
          PROVE  Tells(1) \/ \E k \in 1..(n - 1) : Stays(k)
      <4>1. CASE l = 1
        BY <3>1, <4>1
      <4>2. CASE l # 1
        <5>1. l - 1 \in 1..(n - 1) /\ (l - 1) + 1 = l
          BY <4>2
        <5>2. Stays(l - 1)
          BY <2>3, <3>1, <5>1
        <5> QED
          BY <5>1, <5>2
      <4> QED
        BY <4>1, <4>2
    <3>2. ASSUME NEW l \in 1..(n - 1), Stays(l)
          PROVE  \E k \in 1..n : Tells(k)
      <4>1. l + 1 \in 1..n
        OBVIOUS
      <4> QED
        BY <2>3, <3>2, <4>1
    <3>3. 1 \in 1..n
      BY <1>1
    <3> QED
      BY <3>1, <3>2, <3>3
  <2> QED
    BY <1>1, <2>4 DEF Tells, Stays
<1>5. ASSUME NEW j \in Ip
      PROVE  j \in OnceReady(i)' <=> \/ j \in OnceReady(i) /\ ~Told(i, 1, "farewell", j)
                                     \/ Told(i, 1, "new-members", j)
  BY <1>1 DEF Heed, Told
<1>6. ASSUME NEW j \in Ip
      PROVE  j \in Believed(i)' <=> j \in Believed(i)
  <2>1. LeavesAfter(i, 0, j)' <=> LeavesAfter(i, 1, j)
    <3>1. 0 \in 0..(n - 1) /\ 0 + 1 = 1
      BY <1>1
    <3> QED
      BY <1>2, <3>1
  <2>2. ~(Told(i, 1, "farewell", j) /\ Told(i, 1, "new-members", j))
    BY DEF Told
  <2> QED
    BY <1>3, <1>4, <1>5, <2>1, <2>2 DEF Believed
<1>7. Believed(i) \subseteq Ip /\ Believed(i)' \subseteq Ip
  BY BelievesClients DEF CircleTypes, Believed, OnceReady
<1> QED
  BY <1>6, <1>7

\* determine_response of AliceLink
LEMMA ReceiveKeeps ==
    ASSUME CircleInv, NEW a \in Ip, Receive(a)
    PROVE  CircleInv'
<1> DEFINE m == Head(inbox[a])
<1>1. /\ inbox[a] # <<>> /\ inbox'[a] = Tail(inbox[a]) /\ phase' = phase /\ members' = members
      /\ together' = together /\ \A i \in Ip \ {a} : Idle(i)
  BY DEF Receive, server, CircleInv, CircleTypes, Idle
<1>2. PICK n \in Nat : n = Len(inbox[a])
  BY DEF CircleInv, CircleTypes
<1>3. /\ n > 0 /\ DOMAIN inbox[a] = 1..n /\ DOMAIN inbox'[a] = 1..(n - 1)
      /\ \A k \in 1..(n - 1) : inbox'[a][k] = inbox[a][k + 1]
      /\ m = inbox[a][1] /\ m \in Msg /\ Tail(inbox[a]) \in Seq(Msg)
  BY <1>1, <1>2 DEF CircleInv, CircleTypes
<1>4. /\ m.type \in {"public-ip", "new-members", "farewell"}
      /\ m.type # "public-ip" => m.who \subseteq Ip
  BY <1>3 DEF Msg, PublicIp, NewMembers, Farewell
<1>5. member_queue[a] = {} /\ (~client_ready[a] => peers[a] = {} /\ m.type # "new-members")
  <2>1. ASSUME ~client_ready[a], m.type = "new-members" PROVE FALSE
    <3>1. 1 \in DOMAIN inbox[a]
      BY <1>3
    <3>2. PICK k \in DOMAIN inbox[a] : k < 1
      BY <1>3, <2>1, <3>1 DEF CircleInv, Hears
    <3> QED
      BY <1>3, <3>2
  <2> QED
    BY <2>1 DEF CircleInv, Hears
<1>6. /\ member_queue' = member_queue
      /\ client_ready' = [client_ready EXCEPT ![a] = @ \/ m.type = "public-ip"]
      /\ peers' = [peers EXCEPT ![a] = Heed(@, m)]
  <2>1. CASE m.type = "public-ip"
    BY <1>5, <2>1 DEF Receive, OnceReady, Heed, CircleInv, CircleTypes
  <2>2. CASE m.type # "public-ip"
    BY <1>5, <2>2 DEF Receive, CircleInv, CircleTypes
  <2> QED
    BY <2>1, <2>2
<1>7. CircleTypes'
  <2>1. inbox' \in [Ip -> Seq(Msg)]
    BY <1>3 DEF Receive, CircleInv, CircleTypes
  <2>2. Heed(peers[a], m) \subseteq Ip
    BY <1>4 DEF Heed, CircleInv, CircleTypes
  <2> HIDE DEF m
  <2>3. peers' \in [Ip -> SUBSET Ip] /\ client_ready' \in [Ip -> BOOLEAN]
    BY <1>6, <2>2 DEF CircleInv, CircleTypes
  <2> QED
    BY <1>1, <1>6, <2>1, <2>3 DEF CircleInv, CircleTypes
<1>8. \A i \in Ip : Believed(i)' = Believed(i)
  <2>1. OnceReady(a)' = Heed(OnceReady(a), m)
    BY <1>5, <1>6 DEF OnceReady, CircleInv, CircleTypes
  <2>2. Believed(a)' = Believed(a)
    BY <1>1, <1>7, <2>1, ReadBelief DEF CircleInv
  <2> QED
    BY <1>1, <2>2, IdleKeeps DEF CircleInv
<1> HIDE DEF m
<1>9. Hears(a)'
  <2>1. member_queue'[a] = {}
    BY <1>5, <1>6
  <2>2. CASE client_ready'[a]
    BY <2>1, <2>2 DEF Hears
  <2>3. CASE ~client_ready'[a]
    <3>1. ~client_ready[a] /\ m.type # "public-ip" /\ m.type = "farewell"
      BY <1>4, <1>5, <1>6, <2>3 DEF CircleInv, CircleTypes
    <3>2. peers'[a] = {}
      BY <1>5, <1>6, <3>1 DEF CircleInv, CircleTypes, Heed
    <3>3. ASSUME NEW k \in DOMAIN inbox[a], inbox[a][k].type = "public-ip"
          PROVE  k - 1 \in DOMAIN inbox'[a] /\ inbox'[a][k - 1].type = "public-ip"
      BY <1>3, <3>1, <3>3
    <3>4. ASSUME NEW l \in DOMAIN inbox'[a], inbox'[a][l].type = "new-members"
          PROVE  \E k \in DOMAIN inbox'[a] : k < l /\ inbox'[a][k].type = "public-ip"
      <4>1. l + 1 \in DOMAIN inbox[a] /\ inbox[a][l + 1].type = "new-members"
        BY <1>3, <3>4
      <4>2. PICK k \in DOMAIN inbox[a] : k < l + 1 /\ inbox[a][k].type = "public-ip"
        BY <3>1, <4>1 DEF CircleInv, Hears
      <4>3. k - 1 < l
        BY <1>3, <3>4, <4>2
      <4> QED
        BY <3>3, <4>2, <4>3
    <3>5. Introduced(a)' => \E k \in DOMAIN inbox'[a] : inbox'[a][k].type = "public-ip"
      BY <1>1, <3>1, <3>3 DEF CircleInv, Hears, Introduced
    <3> QED
      BY <2>1, <3>2, <3>4, <3>5 DEF Hears
  <2> QED
    BY <2>2, <2>3
<1>10. Starts(a)'
  <2>1. ASSUME phase[a] = "connected"
        PROVE  /\ ~client_ready'[a]
               /\ \A k \in DOMAIN inbox'[a] : inbox'[a][k].type = "farewell"
    <3>1. ~client_ready[a] /\ \A k \in DOMAIN inbox[a] : inbox[a][k].type = "farewell"
      BY <2>1 DEF CircleInv, Starts
    <3>2. m.type = "farewell"
      BY <1>3, <3>1
    <3>3. \A k \in DOMAIN inbox'[a] : k + 1 \in DOMAIN inbox[a]
      BY <1>3
    <3> QED
      BY <1>3, <1>6, <3>1, <3>2, <3>3 DEF CircleInv, CircleTypes
  <2> QED
    BY <1>1, <2>1 DEF CircleInv, Starts
<1>11. \A i \in Ip : Hears(i)' /\ Starts(i)'
  BY <1>1, <1>9, <1>10, IdleKeeps DEF CircleInv
<1>12. ASSUME NEW i \in Ip
       PROVE  Genuine(i)'
  BY <1>1, <1>8, GenuineStays, BelievesClients DEF CircleInv, CircleTypes, Present
<1>13. ASSUME NEW i \in Ip, NEW j \in Ip, i # j
       PROVE  Apart(i, j)' /\ Mutual(i, j)'
  BY <1>1, <1>8, <1>13, PairStays
<1> QED
  BY <1>7, <1>11, <1>12, <1>13 DEF CircleInv

-----------------------------------------------------------------------------
LEMMA InitCircle == Init => CircleInv
<1> SUFFICES ASSUME Init PROVE CircleInv
  OBVIOUS
<1>1. CircleTypes
  <2>1. <<>> \in Seq(Msg)
    OBVIOUS
  <2> QED
    BY <2>1 DEF Init, CircleTypes, Phases
<1>2. ASSUME NEW i \in Ip
      PROVE  /\ phase[i] = "absent" /\ members[i] = {} /\ DOMAIN inbox[i] = {}
             /\ member_queue[i] = {} /\ peers[i] = {}
  BY DEF Init
<1> QED
  BY <1>1, <1>2 DEF CircleInv, Hears, Starts, Genuine, Apart, Mutual, Knows,
                    Present, Joining, Introduced

LEMMA CircleNext == CircleInv /\ [Next]_vars => CircleInv'
<1> SUFFICES ASSUME CircleInv, [Next]_vars PROVE CircleInv'
  OBVIOUS
<1>1. CASE UNCHANGED vars
  <2>1. \A i \in Ip : Idle(i)
    BY <1>1 DEF vars, server, client, Idle
  <2>2. \A i \in Ip : Hears(i)' /\ Starts(i)' /\ Believed(i)' = Believed(i)
    BY <2>1, IdleKeeps DEF CircleInv
  <2>3. CircleTypes'
    BY <1>1 DEF vars, server, client, CircleInv, CircleTypes
  <2>4. \A i \in Ip : Genuine(i)'
    BY <1>1, <2>2, GenuineStays DEF vars, server, Present
  <2>5. ASSUME NEW i \in Ip, NEW j \in Ip, i # j
        PROVE  Apart(i, j)' /\ Mutual(i, j)'
    BY <1>1, <2>2, <2>5, PairStays DEF vars, server
  <2> QED
    BY <2>2, <2>3, <2>4, <2>5 DEF CircleInv
<1>2. CASE Next
  BY <1>2, ConnectKeeps, MyIpKeeps, ListMembersKeeps, SendMembersKeeps, JoiningCircleKeeps,
     NowReadyKeeps, LinkClosedKeeps, ReceiveKeeps DEF Next, Handler
<1> QED
  BY <1>1, <1>2

\* What the next theorems rest on: however often clients come and go, and with
\* any number of messages on their way.
THEOREM CircleHolds == Spec => []CircleInv
<1>1. Init => CircleInv
  BY InitCircle
<1>2. CircleInv /\ [Next]_vars => CircleInv'
  BY CircleNext
<1> QED
  BY <1>1, <1>2, PTL DEF Spec

\* Although peers_of and joining_circle are two turns of peer_lock, two members
\* that are ready know each other, unless one came or left while the other was
\* joining.
THEOREM MembersAreMutual == Spec => []MutualUnlessTogether
<1>1. CircleInv => MutualUnlessTogether
  <2> SUFFICES ASSUME CircleInv, NEW i \in Ip, NEW j \in Ip, i # j,
                      {i, j} \notin together, phase[i] = "ready", phase[j] = "ready"
               PROVE  j \in Believed(i)
    BY DEF MutualUnlessTogether
  <2>1. Mutual(i, j)
    BY DEF CircleInv
  <2> QED
    BY <2>1 DEF Mutual, Knows
<1> QED
  BY <1>1, CircleHolds, PTL

\* No member waits for traffic of a client that has left, as farewells go to
\* all who may have been told of it.
THEOREM NobodyIsPhantom == Spec => []NoPhantoms
<1>1. CircleInv => NoPhantoms
  <2> SUFFICES ASSUME CircleInv, NEW i \in Ip, phase[i] = "ready", NEW j \in Believed(i)
               PROVE  {i, j} \in together \/ Present(j)
    BY DEF NoPhantoms
  <2>1. Genuine(i) /\ Present(i)
    BY DEF CircleInv, Present
  <2> QED
    BY <2>1 DEF Genuine
<1> QED
  BY <1>1, CircleHolds, PTL
=============================================================================
