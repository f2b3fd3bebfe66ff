---------------------------- MODULE ServerLocks ----------------------------
(***************************************************************************)
(* The locks of the server and the order in which its threads take them.   *)
(*                                                                         *)
(* Locks: peer_lock, global_flow_lock, the lock of a Reconciliator, and    *)
(* for every link its status_lock, ack_lock and flow_lock.  All of them    *)
(* are RLocks: a thread may take one again that it has.  What an operation *)
(* does is here only the sequence of locks it takes and releases; what it  *)
(* computes meanwhile is in the other modules.                             *)
(*                                                                         *)
(* Threads: per link a listener, which handles the client's messages, and  *)
(* one that runs check_ack_deadlines; the pinger; the flow printer.        *)
(***************************************************************************)
EXTENDS Naturals, Sequences, FiniteSets, SequencesExt

CONSTANTS
    Link,
    Troubles    \* what goes wrong in this run, a subset of Trouble

Trouble == {"ping timeout", "late ack", "dangling flow", "lost socket",
            "protocol error"}

ASSUME ServerLocksConstants == Troubles \subseteq Trouble

Peer      == [lock |-> "peer_lock"]
Global    == [lock |-> "global_flow_lock"]
Rec       == [lock |-> "Reconciliator.lock"]
Status(l) == [lock |-> "status_lock", link |-> l]
Ack(l)    == [lock |-> "ack_lock", link |-> l]
FlowLock(l) == [lock |-> "flow_lock", link |-> l]

Lock == {Peer, Global, Rec}
        \cup UNION {{Status(l), Ack(l), FlowLock(l)} : l \in Link}

Listener(l) == [runs |-> "listen", link |-> l]
Checker(l)  == [runs |-> "check_ack_deadlines", link |-> l]
Pinger      == [runs |-> "pinger"]
Printer     == [runs |-> "flow_printer"]

Thread == {Pinger, Printer} \cup {Listener(l) : l \in Link}
          \cup {Checker(l) : l \in Link}

VARIABLES
    rest,       \* thread -> what is left of its operation
    owner,      \* lock -> the thread that has it, or Nobody
    depth       \* lock -> how many times

locksVars == <<rest, owner, depth>>

Nobody == [runs |-> "nobody"]

-----------------------------------------------------------------------------
(* Operations, as sequences of steps. *)

Acquire(k) == [do |-> "acquire", lock |-> k]
Release(k) == [do |-> "release", lock |-> k]

With(k, body) == <<Acquire(k)>> \o body \o <<Release(k)>>
Alone(k)      == With(k, <<>>)

\* One after the other for the links of a set, in some order.
ForEach(S, Op(_)) == FlattenSeq([i \in 1..Cardinality(S) |-> Op(SetToSeq(S)[i])])

Others(l) == Link \ {l}

\* send_message, and of a message that expects an ack: register_ack.
SendMessage(l)      == Alone(Status(l))
SendAcked(l) == With(Status(l), Alone(Ack(l)))

Close(l) == Alone(Status(l))

\* link_closed with send_farewells.
LinkClosed(l) == With(Peer, ForEach(Others(l), SendAcked))
                 \o With(FlowLock(l), Alone(Global))

\* joining_circle.
JoiningCircle(l) == With(Peer, ForEach(Others(l), SendAcked))

\* handle_myip: public-ip, peers_of, new-members, joining_circle, now_ready.
HandleMyIp(l) == SendMessage(l) \o Alone(Peer) \o SendAcked(l) \o JoiningCircle(l)
                 \o Alone(Status(l))

\* ponder_flow and add_flow; add_link asks every link of the flow for its
\* clock dispersion, under that link's status_lock.
AddFlow(l) == Alone(Peer) \o With(Global, With(Rec, ForEach(Link, SendMessage)))
              \o Alone(FlowLock(l))

DeleteFlow(l) == Alone(FlowLock(l)) \o Alone(Global)

\* handle_sent_or_recd, and spotted_forgeries if there are any: the receiver
\* d of the flow is asked for the context.
SentOrRecd(l, d) == Alone(FlowLock(l)) \o Alone(Rec) \o With(Rec, SendMessage(d))

\* ... of a flow that is dangling.
SentDangling(l) == Alone(FlowLock(l)) \o With(Rec, SendMessage(l) \o Alone(FlowLock(l)))

\* ... when the other client's socket turns out to be dead: the exception in
\* send_other_message closes that link here and now.
SentToLost(l) ==
    LET lost(k) == Alone(Status(k)) \o Close(k) \o LinkClosed(k)
    IN  Alone(FlowLock(l)) \o Alone(Rec) \o With(Rec, ForEach(Others(l), lost))

ProcessAck(l) == Alone(Ack(l))

\* process_ack of an ack that nobody waits for any more.  protocol_error
\* closes the link; then the deletion raises KeyError, which leaves ack_lock
\* taken, and the listener closes what is closed already and ends.
ProcessLateAck(l) ==
    <<Acquire(Ack(l))>> \o With(Status(l), LinkClosed(l) \o Close(l)) \o Close(l)

\* protocol_error, for a message that makes no sense: status_lock is kept
\* throughout.  The exception that follows closes what is closed already.
ProtocolError(l) == With(Status(l), LinkClosed(l) \o Close(l)) \o Close(l)

\* The client has closed the connection.
Hangup(l) == Close(l) \o LinkClosed(l)

\* prettyprint_flows with flow status updates.
PrettyprintFlows == With(Global, Alone(Rec) \o ForEach(Link, SendMessage))

PingAll == ForEach(Link, SendAcked)

\* A round of check_ack_deadlines; and one with a ping overdue: bye is the
\* callback, and it is called with ack_lock held.
CheckDeadlines(l) == Alone(Ack(l))
Bye(l)            == With(Ack(l), LinkClosed(l) \o Close(l))

Operations(t) ==
    CASE t = Pinger  -> {PingAll}
      [] t = Printer -> {PrettyprintFlows}
      [] t.runs = "check_ack_deadlines" ->
            {CheckDeadlines(t.link)}
            \cup (IF "ping timeout" \in Troubles THEN {Bye(t.link)} ELSE {})
      [] t.runs = "listen" ->
            {HandleMyIp(t.link), AddFlow(t.link), DeleteFlow(t.link),
             ProcessAck(t.link), Hangup(t.link)}
            \cup {SentOrRecd(t.link, d) : d \in Link}
            \cup (IF "late ack" \in Troubles THEN {ProcessLateAck(t.link)} ELSE {})
            \cup (IF "protocol error" \in Troubles THEN {ProtocolError(t.link)} ELSE {})
            \cup (IF "dangling flow" \in Troubles THEN {SentDangling(t.link)} ELSE {})
            \cup (IF "lost socket" \in Troubles THEN {SentToLost(t.link)} ELSE {})

-----------------------------------------------------------------------------
LocksInit ==
    /\ rest = [t \in Thread |-> <<>>]
    /\ owner = [k \in Lock |-> Nobody]
    /\ depth = [k \in Lock |-> 0]

Idle(t) == rest[t] = <<>>

\* Lock k is free or t's own, and t takes it.
Acquires(t, k) ==
    /\ owner[k] \in {Nobody, t}
    /\ owner' = [owner EXCEPT ![k] = t]
    /\ depth' = [depth EXCEPT ![k] = @ + 1]

\* A thread begins an operation, with its first lock.
Begin(t) ==
    /\ Idle(t)
    /\ \E op \in Operations(t) :
          /\ Acquires(t, Head(op).lock)
          /\ rest' = [rest EXCEPT ![t] = Tail(op)]

\* The next step of a thread: acquire...
Take(t) ==
    /\ ~Idle(t) /\ Head(rest[t]).do = "acquire"
    /\ Acquires(t, Head(rest[t]).lock)
    /\ rest' = [rest EXCEPT ![t] = Tail(@)]

\* ... or release.
Drop(t) ==
    /\ ~Idle(t) /\ Head(rest[t]).do = "release"
    /\ LET k == Head(rest[t]).lock
       IN  /\ depth' = [depth EXCEPT ![k] = @ - 1]
           /\ owner' = IF depth[k] = 1 THEN [owner EXCEPT ![k] = Nobody]
                                       ELSE owner
    /\ rest' = [rest EXCEPT ![t] = Tail(@)]

LocksNext == \E t \in Thread : Begin(t) \/ Take(t) \/ Drop(t)

LocksSpec == LocksInit /\ [][LocksNext]_locksVars

-----------------------------------------------------------------------------
(* Properties *)

LocksTypeOK ==
    /\ \A t \in Thread : \A i \in DOMAIN rest[t] :
          rest[t][i].do \in {"acquire", "release"} /\ rest[t][i].lock \in Lock
    /\ owner \in [Lock -> Thread \cup {Nobody}]
    /\ depth \in [Lock -> Nat]
    /\ \A k \in Lock : depth[k] = 0 <=> owner[k] = Nobody

\* t waits for a lock that a thread of T has.
WaitsFor(t, T) ==
    /\ ~Idle(t) /\ Head(rest[t]).do = "acquire"
    /\ owner[Head(rest[t]).lock] \in T \ {t}

\* No threads wait for each other in a circle.
NoCircularWait ==
    \A T \in SUBSET Thread \ {{}} : \E t \in T : ~WaitsFor(t, T)

=============================================================================
