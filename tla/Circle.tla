------------------------------- MODULE Circle -------------------------------
(***************************************************************************)
(* Who knows whom.  A client that connects is told which clients are in    *)
(* the circle, they are told of it, and when it leaves they are told so;   *)
(* only traffic with known peers is captured.  The handler of a client's   *)
(* my-ip message (handle_myip) takes peer_lock twice, for peers_of and for *)
(* joining_circle, and lets go of it in between; every listener thread of  *)
(* the server runs it for its own client.                                  *)
(*                                                                         *)
(* One link per address at a time (is_duplicate_alice has a second one     *)
(* closed as soon as it would be ready), and a handler whose link is       *)
(* closed comes to nothing: its sends find the link closed, and            *)
(* joining_circle asserts that the address is in peer_ips.  Messages to    *)
(* one client keep their order.                                            *)
(***************************************************************************)
EXTENDS Naturals, Sequences

CONSTANTS
    Ip,             \* addresses of clients
    MaxSessions     \* BOUND: connections made from one address

VARIABLES
    phase,          \* address -> how far its link has come, see Phases
    members,        \* address -> the result of peers_of, until it is sent
    inbox,          \* address -> messages on their way to the client
    client_ready,   \* address -> the client has had its public-ip
    member_queue,   \* address -> peers the client keeps until it is ready
    peers,          \* address -> peers whose traffic the client captures
    together,       \* history: pairs {i, j} one of which ran handle_myip
                    \* while the other was introduced or closed
    sessions        \* history: connections made

server == <<phase, members>>
client == <<client_ready, member_queue, peers>>
vars   == <<server, inbox, client, together, sessions>>

Phases == {"absent", "connected", "introduced", "listing", "listed",
           "welcomed", "ready"}

\* Links in peer_ips; those among them with an attribute alice_firewalled;
\* those with a handle_myip in progress.
Present(i)    == phase[i] # "absent"
Introduced(i) == phase[i] \notin {"absent", "connected"}
Joining(i)    == Introduced(i) /\ phase[i] # "ready"

PublicIp      == [type |-> "public-ip"]
NewMembers(s) == [type |-> "new-members", who |-> s]
Farewell(i)   == [type |-> "farewell", who |-> {i}]

\* Append message msg to the inboxes of the clients in s.
SendTo(s, msg) ==
    inbox' = [i \in Ip |-> IF i \in s THEN Append(inbox[i], msg) ELSE inbox[i]]

Goto(i, p) == phase' = [phase EXCEPT ![i] = p]

\* Pairs of i with the links that are in the middle of handle_myip.
Interrupting(i) == {{i, j} : j \in {k \in Ip \ {i} : Joining(k)}}

-----------------------------------------------------------------------------
Init ==
    /\ phase = [i \in Ip |-> "absent"]
    /\ members = [i \in Ip |-> {}]
    /\ inbox = [i \in Ip |-> <<>>]
    /\ client_ready = [i \in Ip |-> FALSE]
    /\ member_queue = [i \in Ip |-> {}]
    /\ peers = [i \in Ip |-> {}]
    /\ together = {}
    /\ sessions = [i \in Ip |-> 0]

\* new_link, for a client that has just started.   BOUND: MaxSessions
Connect(i) ==
    /\ ~Present(i) /\ sessions[i] < MaxSessions
    /\ sessions' = [sessions EXCEPT ![i] = @ + 1]
    /\ Goto(i, "connected")
    /\ inbox' = [inbox EXCEPT ![i] = <<>>]
    /\ client_ready' = [client_ready EXCEPT ![i] = FALSE]
    /\ member_queue' = [member_queue EXCEPT ![i] = {}]
    /\ peers' = [peers EXCEPT ![i] = {}]
    /\ together' = {p \in together : i \notin p}
    /\ UNCHANGED members

\* Bug: the client is not told its address.
MyIpSilently(i) ==
    /\ phase[i] = "connected"
    /\ Goto(i, "introduced")
    /\ together' = together \cup Interrupting(i)
    /\ UNCHANGED <<inbox, members, client, sessions>>

\* handle_myip: the link has an alice_firewalled from here on, and the client
\* is told its address.
MyIp(i) ==
    /\ phase[i] = "connected"
    /\ Goto(i, "introduced")
    /\ SendTo({i}, PublicIp)
    /\ together' = together \cup Interrupting(i)
    /\ UNCHANGED <<members, client, sessions>>

\* peers_of, under peer_lock.
PeersOf(i) == {j \in Ip \ {i} : Introduced(j)}

ListMembers(i) ==
    /\ phase[i] = "introduced"
    /\ Goto(i, "listing")
    /\ members' = [members EXCEPT ![i] = PeersOf(i)]
    /\ UNCHANGED <<inbox, client, together, sessions>>

\* The message is sent after peer_lock has been released.
SendMembers(i) ==
    /\ phase[i] = "listing"
    /\ Goto(i, "listed")
    /\ SendTo({i}, NewMembers(members[i]))
    /\ members' = [members EXCEPT ![i] = {}]
    /\ UNCHANGED <<client, together, sessions>>

\* Bug: tells nobody.
JoiningCircleQuietly(i) ==
    /\ phase[i] = "listed"
    /\ Goto(i, "welcomed")
    /\ UNCHANGED <<members, inbox, client, together, sessions>>

\* joining_circle, under peer_lock: every link that is ready is told.
JoiningCircle(i) ==
    /\ phase[i] = "listed"
    /\ Goto(i, "welcomed")
    /\ SendTo({j \in Ip \ {i} : phase[j] = "ready"}, NewMembers({i}))
    /\ UNCHANGED <<members, client, together, sessions>>

NowReady(i) ==
    /\ phase[i] = "welcomed"
    /\ Goto(i, "ready")
    /\ UNCHANGED <<members, inbox, client, together, sessions>>

\* Bug: leaves without a farewell.
LinkClosedQuietly(i) ==
    /\ Present(i)
    /\ Goto(i, "absent")
    /\ together' = together \cup Interrupting(i)
    /\ members' = [members EXCEPT ![i] = {}]
    /\ inbox' = [inbox EXCEPT ![i] = <<>>]
    /\ UNCHANGED <<client, sessions>>

\* link_closed and send_farewells, under peer_lock: every link is told,
\* ready or not, whether or not it was told of i.
LinkClosed(i) ==
    /\ Present(i)
    /\ Goto(i, "absent")
    /\ together' = together \cup Interrupting(i)
    /\ members' = [members EXCEPT ![i] = {}]
    /\ inbox' = [j \in Ip |-> IF j = i THEN <<>>
                              ELSE IF Present(j) THEN Append(inbox[j], Farewell(i))
                              ELSE inbox[j]]
    /\ UNCHANGED <<client, sessions>>

-----------------------------------------------------------------------------
(* The client: determine_response of AliceLink, and FlowManager. *)

\* listen_for and farewell, as what a message makes of the set of peers.
Heed(known, msg) ==
    CASE msg.type = "new-members" -> known \cup msg.who
      [] msg.type = "farewell"    -> known \ msg.who
      [] OTHER                    -> known

\* What handle_public_ip makes of the peers that were told before it.
OnceReady(i) == peers[i] \cup member_queue[i]

Receive(i) ==
    /\ Present(i) /\ inbox[i] # <<>>
    /\ inbox' = [inbox EXCEPT ![i] = Tail(@)]
    /\ LET msg == Head(inbox[i])
       IN  CASE msg.type = "public-ip" ->
                  /\ client_ready' = [client_ready EXCEPT ![i] = TRUE]
                  /\ peers' = [peers EXCEPT ![i] = OnceReady(i)]
                  /\ UNCHANGED member_queue
             [] msg.type = "new-members" /\ ~client_ready[i] ->
                  /\ member_queue' = [member_queue EXCEPT ![i] = @ \cup msg.who]
                  /\ UNCHANGED <<client_ready, peers>>
             [] OTHER ->
                  /\ peers' = [peers EXCEPT ![i] = Heed(@, msg)]
                  /\ UNCHANGED <<client_ready, member_queue>>
    /\ UNCHANGED <<server, together, sessions>>

Handler(i) == MyIp(i) \/ ListMembers(i) \/ SendMembers(i)
              \/ JoiningCircle(i) \/ NowReady(i)

Next ==
    \E i \in Ip : Connect(i) \/ Handler(i) \/ LinkClosed(i) \/ Receive(i)

\* Threads that have something to do get to do it; nobody has to connect or
\* to leave.
Fairness == \A i \in Ip : WF_vars(Handler(i)) /\ WF_vars(Receive(i))

Spec == Init /\ [][Next]_vars /\ Fairness

-----------------------------------------------------------------------------
(* Properties *)

Msg == {PublicIp} \cup {NewMembers(s) : s \in SUBSET Ip} \cup {Farewell(i) : i \in Ip}

TypeOK ==
    /\ phase \in [Ip -> Phases]
    /\ members \in [Ip -> SUBSET Ip]
    /\ inbox \in [Ip -> Seq(Msg)]
    /\ client_ready \in [Ip -> BOOLEAN]
    /\ member_queue \in [Ip -> SUBSET Ip] /\ peers \in [Ip -> SUBSET Ip]
    /\ together \subseteq SUBSET Ip
    /\ sessions \in [Ip -> 0..MaxSessions]

\* The peers a client will have once it has read all its messages: those that
\* it has now or that one of them tells it of, unless a later one is their
\* farewell.
Told(i, k, type, j) == inbox[i][k].type = type /\ j \in inbox[i][k].who

LeavesAfter(i, n, j) == \E k \in DOMAIN inbox[i] : k > n /\ Told(i, k, "farewell", j)

Believed(i) ==
    {j \in OnceReady(i) : ~LeavesAfter(i, 0, j)}
    \cup {j \in Ip : \E n \in DOMAIN inbox[i] :
             Told(i, n, "new-members", j) /\ ~LeavesAfter(i, n, j)}

\* The same of two members neither of which came or went while the other was
\* joining, however often they have been here before and whatever is still
\* on its way to them.
MutualUnlessTogether ==
    \A i, j \in Ip :
        i # j /\ {i, j} \notin together /\ phase[i] = "ready" /\ phase[j] = "ready"
            => j \in Believed(i)

\* No member goes on expecting traffic from a client that left before the
\* member began to join or after it was ready.
NoPhantoms ==
    \A i \in Ip : phase[i] = "ready" =>
        \A j \in Believed(i) : {i, j} \in together \/ Present(j)

\* Members that stay, and did not join together, come to capture each
\* other's traffic.
EventuallyMutual ==
    \A i, j \in Ip : i # j =>
        (<>[](phase[i] = "ready" /\ phase[j] = "ready" /\ {i, j} \notin together)
            => <>[](j \in peers[i]))
=============================================================================
