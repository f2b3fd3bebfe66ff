------------------------------- MODULE Client -------------------------------
(***************************************************************************)
(* The flows of a client: how captured packets become batches and batches  *)
(* become reports.  Four threads share the FlowManager and its lock:       *)
(* PacketListener brings packets, the link's listener brings and takes     *)
(* peers, Reporter announces flows and sends batches, Cleaner removes      *)
(* flows and batches that are old.  Each holds the lock for the whole of   *)
(* what is one action here.                                                *)
(*                                                                         *)
(* Of the server there is only the set of flow ids that it has been told   *)
(* of, and what has been reported on each: messages keep their order, and  *)
(* of an active-flows message it handles the deleted flows first.  It may  *)
(* ask for the context of forgeries, which module Context looks for.       *)
(***************************************************************************)
EXTENDS Context

CONSTANTS
    Addr,           \* flow addresses: both ends' addresses and ports
    Peer,           \* other clients
    peer_of,        \* flow address -> the peer at its other end
    batch_size,     \* packets that make a batch full
    batch_timeout,  \* PacketBatch.timeout
    time_to_keep_packets,       \* PacketQueue
    flow_timeout,               \* Flow.timeout
    flow_activity_interval,     \* Reporter
    MaxPackets,     \* BOUND: packets captured
    MaxFlows,       \* BOUND: flows created
    Horizon,        \* BOUND: time
    NoFlow

\* A captured packet, and a flow with the batches of its PacketQueue.
Packet == [n : Nat, at : Nat]
Flow   == [id : Nat, in_circle : BOOLEAN, reported : BOOLEAN, marked : BOOLEAN,
           active : Nat, sent : Seq(Seq(Packet)), unsent : Seq(Seq(Packet))]

\* A unit of time is batch_wait_timeout of Reporter.  Its round comes round
\* at least that often, so batches and flows live long enough to be sent.
ASSUME ClientConstants ==
    /\ peer_of \in [Addr -> Peer]
    /\ batch_size \in Nat \ {0}
    /\ batch_timeout \in Nat /\ flow_activity_interval \in Nat
    /\ time_to_keep_packets \in Nat /\ time_to_keep_packets > batch_timeout
    /\ flow_timeout \in Nat /\ flow_timeout > batch_timeout
    /\ MaxPackets \in Nat /\ MaxFlows \in Nat /\ Horizon \in Nat
    /\ NoFlow \notin Flow

VARIABLES
    now,
    round_done,     \* Reporter has had its round in this unit of time
    peers,          \* peers in the circle
    flows,          \* address -> the flow, or NoFlow
    new_flows, deleted_flows,   \* ids to be announced
    unique_id,      \* id of the next flow
    last_update,    \* last_flow_activity_update + 1, or 0 for None
    server_flows,   \* ids in the server's flow_table
    reported,       \* id -> packets reported, in this order, each with the
                    \* timestamp of its batch
    queued,         \* history: id -> how many packets went into its queue
    unborn          \* history: flows deleted before they were announced

table   == <<flows, unique_id>>
news    == <<new_flows, deleted_flows, last_update>>
server  == <<server_flows, reported>>
time    == <<now, round_done>>
history == <<queued, unborn>>
vars    == <<time, peers, table, news, server, history>>

Id == 0..(MaxFlows - 1)

Live == {a \in Addr : flows[a] # NoFlow}

Captured == FoldFunction(+, 0, queued)

-----------------------------------------------------------------------------
(* PacketQueue and PacketBatch: a batch is the sequence of its packets. *)

Full(batch) == Len(batch) = batch_size

\* PacketQueue.append.
EnqueuePacket(unsent, p) ==
    IF unsent = <<>> \/ Full(Last(unsent))
      THEN Append(unsent, <<p>>)
      ELSE [unsent EXCEPT ![Len(unsent)] = Append(@, p)]

\* Bug: only batches that are full are sent.
DueIfFull(batch) == Full(batch)

\* Reporter sends a batch that is full or has been open for long enough.
Due(batch) == Full(batch) \/ now - Oldest(batch) > batch_timeout

\* Bug: goes by the oldest packet, and does not keep batches for long.
StaleEarly(batch) == now - Oldest(batch) > batch_timeout

\* Cleaner throws away a batch whose packets are all old.
Stale(batch) == now - Newest(batch) > time_to_keep_packets

\* Both go through batches from the oldest on and stop at the first one that
\* is not due, or stale.
HowManyDue(batches) ==
    Max({k \in 0..Len(batches) : \A i \in 1..k : Due(batches[i])})
HowManyStale(batches) ==
    Max({k \in 0..Len(batches) : \A i \in 1..k : Stale(batches[i])})

\* The packets of these batches, by number.
Numbers(batches) ==
    LET packets == AllPackets(batches)
    IN  [k \in DOMAIN packets |-> packets[k].n]

\* What the server is sent of these batches.
Reports(batches) ==
    FlattenSeq([i \in DOMAIN batches |->
                   [k \in DOMAIN batches[i] |->
                       [n |-> batches[i][k].n, timestamp |-> Newest(batches[i])]]])

First(batches, k)   == SubSeq(batches, 1, k)
Without(batches, k) == SubSeq(batches, k + 1, Len(batches))
Fresh(batches)      == Without(batches, HowManyStale(batches))

-----------------------------------------------------------------------------
Init ==
    /\ now = 0 /\ round_done = FALSE
    /\ peers = {}
    /\ flows = [a \in Addr |-> NoFlow] /\ unique_id = 0
    /\ new_flows = {} /\ deleted_flows = {} /\ last_update = 0
    /\ server_flows = {} /\ reported = [i \in Id |-> <<>>]
    /\ queued = [i \in Id |-> 0] /\ unborn = {}

\* A flow that begins now; its queue is empty.
AliceFlow(id, in_circle) ==
    [id |-> id, in_circle |-> in_circle, reported |-> FALSE, marked |-> FALSE,
     active |-> now, sent |-> <<>>, unsent |-> <<>>]

\* handle_packet for the first packet of a flow: create_flow, which decides
\* for good whether the flow is in the circle.
NewFlow(a) == AliceFlow(unique_id, peer_of[a] \in peers)

\* BOUNDS: MaxPackets, MaxFlows
HandlePacket(a) ==
    LET new  == flows[a] = NoFlow
        flow == IF new THEN NewFlow(a) ELSE flows[a]
        p    == [n |-> queued[flow.id] + 1, at |-> now]
    IN  /\ new => unique_id < MaxFlows
        /\ flow.in_circle => Captured < MaxPackets
        /\ unique_id' = IF new THEN unique_id + 1 ELSE unique_id
        /\ new_flows' = IF new /\ flow.in_circle THEN new_flows \cup {flow.id}
                                                 ELSE new_flows
        /\ IF flow.in_circle
             THEN /\ flows' = [flows EXCEPT ![a] = [flow EXCEPT
                                  !.active = now,
                                  !.unsent = EnqueuePacket(@, p)]]
                  /\ queued' = [queued EXCEPT ![flow.id] = p.n]
             ELSE /\ flows' = [flows EXCEPT ![a] = [flow EXCEPT !.active = now]]
                  /\ UNCHANGED queued
    /\ UNCHANGED <<time, peers, deleted_flows, last_update, server, unborn>>

ListenFor(p) ==
    /\ peers' = peers \cup {p}
    /\ UNCHANGED <<time, table, news, server, history>>

\* farewell: the peer's flows will be deleted, whether it is known or not.
Farewell(p) ==
    /\ peers' = peers \ {p}
    /\ flows' = [a \in Addr |->
                    IF flows[a] # NoFlow /\ peer_of[a] = p
                      THEN [flows[a] EXCEPT !.marked = TRUE] ELSE flows[a]]
    /\ UNCHANGED <<time, unique_id, news, server, history>>

Expired(f) == f.marked \/ now - f.active > flow_timeout

\* AliceFlow.clean, once for each of the two lists of its queue.
Cleaned(f) == [f EXCEPT !.sent = Fresh(@), !.unsent = Fresh(@)]

\* clean: flows that are marked or have been quiet for long go, and so do old
\* batches of the others, sent or not.
Clean ==
    LET expired    == {a \in Live : Expired(flows[a])}
        told       == {flows[a].id : a \in {e \in expired : flows[e].in_circle}}
    IN  /\ flows' = [a \in Addr |-> IF a \in Live \ expired
                                      THEN Cleaned(flows[a]) ELSE NoFlow]
        /\ deleted_flows' = deleted_flows \cup told
        /\ unborn' = unborn \cup (told \cap new_flows)
        /\ UNCHANGED <<time, peers, unique_id, new_flows, last_update, server,
                       queued>>

\* Bug: announces what is new and does not say what has gone.
AnnounceNew(told) == IF told THEN server_flows \cup new_flows ELSE server_flows

\* What the server makes of an active-flows message.
Announce(told) ==
    IF told THEN (server_flows \ deleted_flows) \cup new_flows ELSE server_flows

\* Bug: batches go out before their flow has been announced.
MustAnnounceNever(sending) == FALSE

\* send_batch announces all there is to announce if the flow is not reported.
MustAnnounce(sending) == \E a \in sending : ~flows[a].reported

\* One round of Reporter.run: every batch that is due, of every flow, and
\* then the announcements, unless they have been sent lately.
Report ==
    LET due(a)   == HowManyDue(flows[a].unsent)
        sending  == {a \in Live : due(a) > 0}
        periodic == last_update = 0
                    \/ now - (last_update - 1) > flow_activity_interval
        told     == periodic \/ MustAnnounce(sending)
    IN  /\ server_flows' = Announce(told)
        /\ new_flows' = IF told THEN {} ELSE new_flows
        /\ deleted_flows' = IF told THEN {} ELSE deleted_flows
        /\ last_update' = IF periodic THEN now + 1 ELSE last_update
        /\ flows' = [a \in Addr |->
                        IF a \in Live
                          THEN [flows[a] EXCEPT
                                   !.sent = @ \o First(flows[a].unsent, due(a)),
                                   !.unsent = Without(@, due(a)),
                                   !.reported = @ \/ (told /\ flows[a].id \in new_flows)]
                          ELSE NoFlow]
        /\ reported' = [i \in Id |->
                           IF \E a \in sending : flows[a].id = i
                             THEN LET a == CHOOSE s \in sending : flows[s].id = i
                                  IN  reported[i]
                                      \o Reports(First(flows[a].unsent, due(a)))
                             ELSE reported[i]]
    /\ round_done' = TRUE
    /\ UNCHANGED <<now, peers, unique_id, history>>

\* batch_wait_timeout: Reporter does not sleep through a unit of time.
\* BOUND: Horizon
Tick ==
    /\ round_done /\ now < Horizon
    /\ now' = now + 1 /\ round_done' = FALSE
    /\ UNCHANGED <<peers, table, news, server, history>>

Next ==
    \/ \E a \in Addr : HandlePacket(a)
    \/ \E p \in Peer : ListenFor(p) \/ Farewell(p)
    \/ Clean
    \/ Report
    \/ Tick

Spec == Init /\ [][Next]_vars

-----------------------------------------------------------------------------
(* Properties *)

Batch == Seq([n : 1..MaxPackets, at : 0..Horizon])

Queue(f) == f.sent \o f.unsent

\* Types; two flows never have the same id.
TypeOK ==
    /\ now \in 0..Horizon /\ round_done \in BOOLEAN /\ peers \subseteq Peer
    /\ flows \in [Addr -> {NoFlow} \cup
                    [id : Id, in_circle : BOOLEAN, reported : BOOLEAN,
                     marked : BOOLEAN, active : 0..Horizon,
                     sent : Seq(Batch), unsent : Seq(Batch)]]
    /\ \A a, b \in Live : flows[a].id = flows[b].id => a = b
    /\ unique_id \in 0..MaxFlows /\ last_update \in 0..(Horizon + 1)
    /\ new_flows \subseteq Id /\ deleted_flows \subseteq Id
    /\ server_flows \subseteq Id /\ unborn \subseteq Id
    /\ reported \in [Id -> Seq([n : 1..MaxPackets, timestamp : 0..Horizon])] /\ queued \in [Id -> Nat]

\* The packets of a flow are reported in the order of their capture, each
\* once and none left out, for as long as the flow is there, although batches
\* are cut by three threads, and Cleaner throws away unsent ones too.
ReportedInOrder ==
    \A a \in Live :
        LET f    == flows[a]
            sent == reported[f.id]
        IN  [k \in DOMAIN sent |-> sent[k].n] \o Numbers(f.unsent)
                = [k \in 1..queued[f.id] |-> k]

\* Nothing waits for long: once Reporter has had its round no packet that is
\* still unsent is older than batch_timeout.
NothingWaits ==
    round_done =>
        \A a \in Live : \A i \in DOMAIN flows[a].unsent :
            now - Oldest(flows[a].unsent[i]) <= batch_timeout

\* No batch reaches the server before the flow has ("have to report flow
\* before sending batches from it").
AnnouncedFirst ==
    [][\A i \in Id : reported'[i] # reported[i] => i \in server_flows']_vars

\* The server has no flow that the client has deleted, or it will be told so,
\* except for flows that were deleted before they were announced.
ServerForgets ==
    \A i \in server_flows :
        i \in deleted_flows \cup unborn \/ \E a \in Live : flows[a].id = i

\* The server may ask for the context of any packet that has been reported,
\* until time_to_keep_packets after the timestamp it was reported with:
\* get_fi_context finds a packet of that hash.
ContextIsThere ==
    \A a \in Live : \A k \in DOMAIN reported[flows[a].id] :
        LET report  == reported[flows[a].id][k]
            hash    == hash_of[report.n]
            context == FiContext(Queue(flows[a]), report.timestamp, hash, {})
        IN  now - report.timestamp <= time_to_keep_packets =>
                context # <<>> /\ hash_of[context[1].n] = hash

\* What get_fi_context finds by going through batches are the neighbours of
\* the packet, and of two contexts the second has no packet of the first again
\* except the one that it was asked for.
ContextIsAround ==
    \A a \in Live :
        LET queue  == Queue(flows[a])
            all    == AllPackets(queue)
            asks   == UNION {{<<Newest(b), hash_of[b[k].n]>> : k \in DOMAIN b} :
                                b \in {queue[i] : i \in DOMAIN queue}}
            at(p)  == CHOOSE k \in DOMAIN all : all[k] = p
            set(c) == {c[k] : k \in DOMAIN c}
        IN  \A x, y \in asks :
                LET first  == FiContext(queue, x[1], x[2], {})
                    second == FiContext(queue, y[1], y[2], set(first))
                IN  /\ set(first) = Neighbourhood(all, at(first[1]), x[1])
                    /\ set(second) = {second[1]} \cup
                           (Neighbourhood(all, at(second[1]), y[1]) \ set(first))
                    /\ Len(second) = Cardinality(set(second))

\* Whatever packets match a forgery, get_fo_context_and_diff returns them and
\* the first fo_context_max that lie between them, in order.
FoContextIsSpan ==
    \A a \in Live :
        LET queue == Queue(flows[a])
            all   == AllPackets(queue)
        IN  \A matching \in SUBSET {all[k] : k \in DOMAIN all} :
                FoContext(queue, matching) = Span(all, matching)

\* What the server is told of a forgery's surroundings is right: a packet that
\* has been reported is found again while it is kept, its context is its
\* neighbourhood, and what it may have been comes with all that lies between.
ContextsAreRight ==
    /\ ContextIsThere
    /\ ContextIsAround
    /\ FoContextIsSpan
=============================================================================
