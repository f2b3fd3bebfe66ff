-------------------------------- MODULE Link --------------------------------
(***************************************************************************)
(* The link between a client and the server: the Protocol object at each   *)
(* end, from the handshake to its end.                                     *)
(*                                                                         *)
(* Threads: each end's listener, which handles messages one after the      *)
(* other; at the client everybody else who sends (Alice); at the server    *)
(* whoever sends to this client from elsewhere (pinger), and the checker   *)
(* of overdue acks.  A sender holds status_lock until its message is on    *)
(* the wire.  TCP keeps the order of messages, or is cut and then carries  *)
(* no more of them and tells nobody.                                       *)
(*                                                                         *)
(* A unit of time is a round of check_ack_deadlines (13 seconds).          *)
(***************************************************************************)
EXTENDS Messages, Sequences, FiniteSets, SequencesExt

CONSTANTS
    AliceSends, PingerSends,    \* the kinds of messages they send
    timeout_period, client_contact_period,
    MaxNumber,      \* BOUND: messages with numbers, per end
    Horizon,        \* BOUND: time
    Nobody

ASSUME LinkConstants ==
    /\ AliceSends \subseteq Sendable["alice"] \ ({"ack"} \cup IsReply)
    /\ PingerSends \subseteq Sendable["server"] \ ({"ack"} \cup IsReply)
    /\ timeout_period \in Nat \ {0} /\ client_contact_period \in Nat
    /\ MaxNumber \in Nat /\ Horizon \in Nat

VARIABLES
    now,
    checked,        \* check_ack_deadlines has had its round in this unit
    wire,           \* end -> messages on their way to it
    cut,            \* the network has stopped to carry them
    port,           \* end -> its Protocol object
    status_lock, ack_lock,      \* end -> the thread that has it, or Nobody
    thread,         \* thread -> its state
    todo,           \* thread -> what it has yet to do, a sequence of steps
    refused,        \* the server has turned the client down at new_link
    compatible,     \* the client's protocol version is supported
    freed,          \* SwitzerlandLink.freed
    quit_event,     \* of the client
    given_up        \* history: numbers of the server's overdue messages

locks  == <<status_lock, ack_lock>>
time   == <<now, checked>>
fixed  == <<refused, compatible>>
others == <<fixed, given_up>>
ends   == <<freed, quit_event>>
vars   == <<time, wire, cut, port, locks, thread, todo, others, ends>>

Listener == [e \in End |-> IF e = "alice" THEN "AliceLink" ELSE "SwitzerlandLink"]
Thread   == {"AliceLink", "SwitzerlandLink", "Alice", "pinger", "checker"}
EndOf    == [t \in Thread |-> IF t \in {"AliceLink", "Alice"} THEN "alice" ELSE "server"]

ASSUME NobodyIsNoThread == Nobody \notin Thread

\* Only the server looks at the time.
Clock == [e \in End |-> IF e = "server" THEN now ELSE 0]
Deadline == [e \in End |-> Clock[e] + timeout_period]

\* The numbers of the messages whose acks are not in yet, oldest first.
Entry(deadline, no, bye) == [deadline |-> deadline, no |-> no, bye |-> bye]
Outstanding(p) == {p.ack_timeouts[k].no : k \in DOMAIN p.ack_timeouts}

-----------------------------------------------------------------------------
(* Steps of threads *)

Send(type, reply_no) == [do |-> "send", msg |-> Message(type, NoNumber, reply_no)]
Register(m) == [do |-> "register", msg |-> m]
Dump(m)     == [do |-> "dump", msg |-> m]
Do(what)    == [do |-> what]

\* Bug: does not wait for the lock.
MayLockAlways(lock, t) == TRUE

MayLock(lock, t) == lock[EndOf[t]] \in {Nobody, t}

Lock(lock, t)   == [lock EXCEPT ![EndOf[t]] = t]
Unlock(lock, t) == [lock EXCEPT ![EndOf[t]] = Nobody]

ToDo(t, what) == todo[t] # <<>> /\ Head(todo[t]).do = what
Done(t)        == [todo EXCEPT ![t] = Tail(@)]
Replace(t, st) == [todo EXCEPT ![t] = <<st>> \o Tail(@)]

\* close(), and the end of a thread: what happens at the end of a listener.
Closed(p, e) == [p EXCEPT ![e].closed = TRUE]
Ended(ts)    == [x \in Thread |-> IF x \in ts THEN "ended" ELSE thread[x]]
Dropped(ts)  == [x \in Thread |-> IF x \in ts THEN <<>> ELSE todo[x]]

\* What ends with a listener: the client, which sees quit_event, or on the
\* server this client's place (free_resources).
EndsOf(e) == IF e = "alice" THEN quit_event' = TRUE /\ UNCHANGED freed
                            ELSE freed' = TRUE /\ UNCHANGED quit_event

-----------------------------------------------------------------------------
NewPort == [sequence_no |-> 0, ready |-> FALSE, closed |-> FALSE,
            bailout_waiting |-> FALSE, bailing_out |-> FALSE,
            ack_timeouts |-> <<>>, expected |-> {}, reply_data_table |-> {},
            last_sent |-> 0]

Init ==
    /\ now = 0 /\ checked = FALSE
    /\ wire = [e \in End |-> IF e = "server" THEN <<Message("WellHello", NoNumber, NoNumber)>>
                                             ELSE <<>>]
    /\ cut = FALSE
    /\ refused \in BOOLEAN /\ compatible \in BOOLEAN
    /\ port = [e \in End |-> [NewPort EXCEPT !.bailout_waiting = e = "server" /\ refused]]
    /\ status_lock = [e \in End |-> Nobody] /\ ack_lock = [e \in End |-> Nobody]
    /\ thread = [t \in Thread |-> CASE t \in {"AliceLink", "SwitzerlandLink"} -> "handshake"
                                    [] t = "checker" -> "waiting"
                                    [] OTHER -> "running"]
    /\ todo = [t \in Thread |-> <<>>]
    /\ freed = FALSE /\ quit_event = FALSE /\ given_up = {}

-----------------------------------------------------------------------------
(* The wire.  What nobody will read is not kept. *)

Unread == [e \in End |-> cut \/ thread[Listener[e]] \in {"ended", "died"}]

Carried(e, m) == IF Unread[e] THEN wire ELSE [wire EXCEPT ![e] = Append(@, m)]

\* The first message for a listener is of this type.
Arrives(e, type) == wire[e] # <<>> /\ Head(wire[e]).type = type

-----------------------------------------------------------------------------
(* Handshake *)

NoSockfile(e) == thread[Listener[e]] \in {"handshake", "died"}

Shaking(e) == thread[Listener[e]] = "handshake"

\* SwitzerlandLink.handshake and setup.
ServerHandshake ==
    /\ Shaking("server") /\ Arrives("server", "WellHello")
    /\ LET answer == IF compatible THEN "Switzerland" ELSE "Incompatible"
       IN  wire' = [Carried("alice", Message(answer, NoNumber, NoNumber))
                       EXCEPT !["server"] = Tail(@)]
    /\ IF compatible
         THEN /\ thread' = [thread EXCEPT !["SwitzerlandLink"] = "listening",
                                          !["checker"] = "running"]
              /\ UNCHANGED <<port, freed>>
         ELSE /\ MayLock(status_lock, "SwitzerlandLink")
              /\ thread' = Ended({"SwitzerlandLink"})
              /\ port' = Closed(port, "server") /\ freed' = TRUE
    /\ UNCHANGED <<time, cut, locks, todo, others, quit_event>>

\* AliceLink.handshake and setup.
AliceHandshake ==
    /\ Shaking("alice") /\ Arrives("alice", "Switzerland")
    /\ wire' = [wire EXCEPT !["alice"] = Tail(@)]
    /\ thread' = [thread EXCEPT !["AliceLink"] = "listening"]
    /\ todo' = [todo EXCEPT !["AliceLink"] = <<Send("my-ip", NoNumber)>>]
    /\ UNCHANGED <<time, cut, port, locks, others, ends>>

\* The handshake fails: no answer in time, or one that is no good.
HandshakeFails(e) ==
    /\ Shaking(e) /\ MayLock(status_lock, Listener[e])
    /\ wire[e] = <<>> \/ Arrives(e, "Incompatible")
    /\ thread' = Ended({Listener[e]})
    /\ port' = Closed(port, e) /\ EndsOf(e)
    /\ UNCHANGED <<time, wire, cut, locks, todo, others>>

\* The client is gone before it has been heard: recv raises socket.error, and
\* the thread dies without closing or freeing anything.
HandshakeReset ==
    /\ Shaking("server") /\ port["alice"].closed
    /\ thread' = [thread EXCEPT !["SwitzerlandLink"] = "died"]
    /\ UNCHANGED <<time, wire, cut, port, locks, todo, others, ends>>

-----------------------------------------------------------------------------
(* send_message *)

\* What is expected in return is kept under the message's number.
Registered(p, m, e) ==
    IF m.type \in ExpectsAck
      THEN [p EXCEPT !.ack_timeouts = Append(@, Entry(Deadline[e], p.sequence_no,
                                                      m.type = "ping")),
                     !.expected = @ \cup {p.sequence_no},
                     !.sequence_no = @ + 1]
    ELSE IF m.type \in ExpectsReply
      THEN [p EXCEPT !.reply_data_table = @ \cup {p.sequence_no},
                     !.sequence_no = @ + 1]
    ELSE p

\* Bug: counts before it looks.
WithNextNumber(p, m) ==
    IF m.type \in Numbered THEN [m EXCEPT !.no = p.sequence_no + 1] ELSE m

WithNumber(p, m) == IF m.type \in Numbered THEN [m EXCEPT !.no = p.sequence_no] ELSE m

\* A message goes onto the wire.
Dumped(t, m) ==
    /\ ~NoSockfile(EndOf[t])
    /\ wire' = Carried(Other(EndOf[t]), m)
    /\ todo' = Done(t)

\* A message that expects no ack: all under status_lock.  If the link is
\* closed there is nothing to do.
SendPlain(t) ==
    LET e == EndOf[t]
        m == Head(todo[t]).msg
    IN  /\ ToDo(t, "send") /\ m.type \notin ExpectsAck
        /\ MayLock(status_lock, t)
        /\ IF port[e].closed THEN todo' = Done(t) /\ UNCHANGED <<wire, port>>
           ELSE /\ Dumped(t, WithNumber(port[e], m))
                /\ port' = [port EXCEPT ![e] = [Registered(@, m, e) EXCEPT !.last_sent = Clock[e]]]
        /\ UNCHANGED <<time, cut, locks, thread, others, ends>>

\* One that does: its sender takes status_lock...
SendLock(t) ==
    LET m == Head(todo[t]).msg
    IN  /\ ToDo(t, "send") /\ m.type \in ExpectsAck
        /\ MayLock(status_lock, t)
        /\ IF port[EndOf[t]].closed
             THEN todo' = Done(t) /\ UNCHANGED status_lock
             ELSE /\ status_lock' = Lock(status_lock, t)
                  /\ todo' = Replace(t, Register(m))
        /\ UNCHANGED <<time, wire, cut, port, ack_lock, thread, others, ends>>

\* ... and, in register_ack, ack_lock for a moment...
SendRegister(t) ==
    LET e == EndOf[t]
        m == Head(todo[t]).msg
    IN  /\ ToDo(t, "register") /\ MayLock(ack_lock, t)
        /\ port' = [port EXCEPT ![e] = Registered(@, m, e)]
        /\ todo' = Replace(t, Dump(WithNumber(port[e], m)))
        /\ UNCHANGED <<time, wire, cut, locks, thread, others, ends>>

\* ... and releases status_lock when it is on the wire.
SendDump(t) ==
    /\ ToDo(t, "dump") /\ Dumped(t, Head(todo[t]).msg)
    /\ port' = [port EXCEPT ![EndOf[t]].last_sent = Clock[EndOf[t]]]
    /\ status_lock' = Unlock(status_lock, t)
    /\ UNCHANGED <<time, cut, ack_lock, thread, others, ends>>

\* It cannot: there is no sockfile yet, or the other end is gone.  A listener
\* frees, closes and ends; send_other_message closes and frees; another
\* thread of the client takes the client down with it.
SendFails(t) ==
    LET e == EndOf[t]
    IN  /\ \/ ToDo(t, "dump")
           \/ /\ ToDo(t, "send") /\ Head(todo[t]).msg.type \notin ExpectsAck
              /\ MayLock(status_lock, t) /\ ~port[e].closed
        /\ port[Other(e)].closed \/ NoSockfile(e)
        /\ port' = Closed(port, e) /\ EndsOf(e)
        /\ status_lock' = Unlock(status_lock, t)
        /\ todo' = Dropped({t})
        /\ thread' = IF t = Listener[e] THEN Ended({t}) ELSE thread
        /\ UNCHANGED <<time, wire, cut, ack_lock, others>>

-----------------------------------------------------------------------------
(* listen: process_inbound_message and determine_response.  What is in the *)
(* buffer of sockfile is still handled after the link has been closed.     *)

Listening(e) == thread[Listener[e]] = "listening" /\ todo[Listener[e]] = <<>>

\* The listener takes a message of this type: accounting_in wants status_lock.
Receives(e, type) ==
    /\ Listening(e) /\ Arrives(e, type)
    /\ MayLock(status_lock, Listener[e])
    /\ wire' = [wire EXCEPT ![e] = Tail(@)]
Then(e, steps) == todo' = [todo EXCEPT ![Listener[e]] = steps]

\* The first entry with this number, of which there is only one.
Place(entries, no) ==
    CHOOSE k \in DOMAIN entries :
        entries[k].no = no /\ \A j \in 1..(k - 1) : entries[j].no # no

Acked(p, no) ==
    [p EXCEPT !.ack_timeouts = RemoveAt(@, Place(@, no)),
              !.expected = @ \ {no}]

\* process_ack.  An ack that nobody waits for is a protocol error, and then
\* an exception, with ack_lock held.
ProcessAck(e) ==
    LET no == Head(wire[e]).reply_no
    IN  /\ Receives(e, "ack") /\ MayLock(ack_lock, Listener[e])
        /\ IF no \in Outstanding(port[e])
             THEN /\ port' = [port EXCEPT ![e] = Acked(@, no)]
                  /\ UNCHANGED <<ack_lock, todo>>
             ELSE /\ ack_lock' = Lock(ack_lock, Listener[e])
                  /\ Then(e, <<Do("protocol_error")>>)
                  /\ UNCHANGED port
        /\ UNCHANGED <<time, cut, status_lock, thread, others, ends>>

\* protocol_error, and the KeyError that ends the listener.
ProtocolError(e) ==
    /\ ToDo(Listener[e], "protocol_error") /\ MayLock(status_lock, Listener[e])
    /\ port' = Closed(port, e) /\ EndsOf(e)
    /\ thread' = Ended({Listener[e]}) /\ todo' = Dropped({Listener[e]})
    /\ UNCHANGED <<time, wire, cut, locks, others>>

\* Messages that want nothing but an ack, sent when they have been handled.
HandleAndAck(e) ==
    /\ \E type \in {"ping", "error-cont", "new-members"} : Receives(e, type)
    /\ Then(e, <<Send("ack", Head(wire[e]).no)>>)
    /\ UNCHANGED <<time, cut, port, locks, thread, others, ends>>

\* handle_myip
HandleMyIp ==
    /\ Receives("server", "my-ip")
    /\ Then("server", <<Send("public-ip", Head(wire["server"]).no),
                        Send("new-members", NoNumber), Do("now_ready")>>)
    /\ UNCHANGED <<time, cut, port, locks, thread, others, ends>>

\* handle_public_ip; without what was kept for the reply it is an exception.
HandlePublicIp ==
    LET no == Head(wire["alice"]).reply_no
    IN  /\ Receives("alice", "public-ip")
        /\ IF no \in port["alice"].reply_data_table
             THEN /\ port' = [port EXCEPT !["alice"].reply_data_table = @ \ {no}]
                  /\ Then("alice", <<Do("now_ready")>>)
                  /\ UNCHANGED <<thread, ends>>
             ELSE /\ port' = Closed(port, "alice") /\ EndsOf("alice")
                  /\ thread' = Ended({"AliceLink"}) /\ UNCHANGED todo
        /\ UNCHANGED <<time, cut, locks, others>>

\* Bug: a bailout that waits is put off again.
BailoutUnforced(p) == p

\* bailout of what has been waiting: error-bye, and close.
Bailout(p) ==
    IF ~p.bailout_waiting THEN p
    ELSE [p EXCEPT !.bailing_out = TRUE, !.closed = TRUE]

\* now_ready: status_lock is held for the whole of it.
NowReady(e) ==
    LET p == Bailout(port[e])
    IN  /\ ToDo(Listener[e], "now_ready") /\ MayLock(status_lock, Listener[e])
        /\ port' = [port EXCEPT ![e] = [p EXCEPT !.ready = TRUE]]
        /\ wire' = IF p.bailing_out /\ ~port[e].closed
                     THEN Carried(Other(e), Message("error-bye", NoNumber, NoNumber))
                     ELSE wire
        /\ todo' = Done(Listener[e])
        /\ UNCHANGED <<time, cut, locks, thread, others, ends>>

\* handle_error_bye.  thread.exit does not end a listener, which goes on to
\* find its sockfile closed.
HandleErrorBye(e) ==
    /\ Receives(e, "error-bye")
    /\ port' = Closed(port, e) /\ EndsOf(e)
    /\ UNCHANGED <<time, cut, locks, thread, todo, others>>

HandleSignoff(e) ==
    /\ Receives(e, "signoff")
    /\ port' = Closed(port, e)
    /\ UNCHANGED <<time, cut, locks, thread, todo, others, ends>>

\* The end of the connection, or of this end of it: free_resources, and the
\* listener returns.
ListenEnds(e) ==
    /\ Listening(e) /\ MayLock(status_lock, Listener[e])
    /\ port[e].closed \/ (port[Other(e)].closed /\ ~cut)
    /\ port' = Closed(port, e) /\ EndsOf(e)
    /\ thread' = Ended({Listener[e]}) /\ wire' = [wire EXCEPT ![e] = <<>>]
    /\ UNCHANGED <<time, cut, locks, todo, others>>

-----------------------------------------------------------------------------
(* Others who send, and the checker *)

\* Messages with numbers are bounded.
MaySend(e, type) == type \in Numbered => port[e].sequence_no < MaxNumber

\* Reporter, PacketListener and others at the client, once it is ready.  No
\* thread of the client keeps its locks, so the whole of send_message is one
\* step.
AliceSend ==
    /\ thread["Alice"] = "running" /\ todo["Alice"] = <<>>
    /\ port["alice"].ready /\ ~port["alice"].closed
    /\ MayLock(status_lock, "Alice") /\ MayLock(ack_lock, "Alice")
    /\ \E type \in AliceSends :
          LET m == Message(type, NoNumber, NoNumber)
          IN  /\ MaySend("alice", type)
              /\ wire' = Carried("server", WithNumber(port["alice"], m))
              /\ port' = [port EXCEPT !["alice"] = Registered(@, m, "alice")]
    /\ UNCHANGED <<time, cut, locks, thread, todo, others, ends>>

\* The user has had enough.
AliceShutdown ==
    /\ thread["Alice"] = "running" /\ todo["Alice"] = <<>>
    /\ port["alice"].ready
    /\ thread' = [thread EXCEPT !["Alice"] = "exiting"]
    /\ todo' = [todo EXCEPT !["Alice"] = <<Send("signoff", NoNumber)>>]
    /\ UNCHANGED <<time, wire, cut, port, locks, others, ends>>

\* The client ends: at quit_event, on a whim, or because the link has not
\* become ready.  With the process go its threads, its socket and its tables.
AliceExits ==
    /\ thread["Alice"] # "ended"
    /\ port' = Closed([port EXCEPT !["alice"] = NewPort], "alice") /\ quit_event' = TRUE
    /\ thread' = Ended({"Alice", "AliceLink"})
    /\ todo' = Dropped({"Alice", "AliceLink"})
    /\ wire' = [wire EXCEPT !["alice"] = <<>>]
    /\ UNCHANGED <<time, cut, locks, others, freed>>

PingDue == ~freed /\ ~port["server"].closed /\ now - port["server"].last_sent > client_contact_period

\* pinger, and links that have news for this client.  On a link that is closed
\* already send_message does nothing.
PingerSend ==
    /\ todo["pinger"] = <<>> /\ ~freed /\ ~port["server"].closed
    /\ \E type \in PingerSends :
          /\ type = "ping" => PingDue
          /\ type = "new-members" => port["server"].ready
          /\ MaySend("server", type)
          /\ todo' = [todo EXCEPT !["pinger"] = <<Send(type, NoNumber)>>]
    /\ UNCHANGED <<time, wire, cut, port, locks, thread, others, ends>>

Overdue(x) == now >= x.deadline

\* Bug: stops at an entry without a callback.
HandlesCallbacks(entries, n) ==
    /\ \A j \in 1..n : 2 * j - 1 \in DOMAIN entries /\ Overdue(entries[2 * j - 1])
                       /\ entries[2 * j - 1].bye
    /\ 2 * n + 1 \in DOMAIN entries =>
          ~Overdue(entries[2 * n + 1]) \/ ~entries[2 * n + 1].bye

\* A round handles n entries, and deletes them.  As it deletes from the list
\* that it goes through, it passes over every second one: it sees the first,
\* the third, and so on until one that is not overdue.
Handles(entries, n) ==
    /\ \A j \in 1..n : 2 * j - 1 \in DOMAIN entries /\ Overdue(entries[2 * j - 1])
    /\ 2 * n + 1 \in DOMAIN entries => ~Overdue(entries[2 * n + 1])

Examined(entries, n) == {entries[2 * j - 1] : j \in 1..n}

\* What is left of the list.
Kept(entries, n) ==
    [i \in 1..(Len(entries) - n) |-> entries[IF i <= n THEN 2 * i ELSE i + n]]

\* The numbers that it gives up.
GivenUp(p, n) == {x.no : x \in Examined(p.ack_timeouts, n)}

Checked(p, n) ==
    [p EXCEPT !.ack_timeouts = Kept(@, n), !.expected = @ \ GivenUp(p, n)]

\* A round of check_ack_deadlines.  The callback of a ping, bye, is called
\* with ack_lock held.
CheckAckDeadlines ==
    LET p == port["server"]
    IN  /\ thread["checker"] = "running" /\ todo["checker"] = <<>> /\ ~checked
        /\ MayLock(ack_lock, "checker")
        /\ checked' = TRUE
        /\ \E n \in 0..Len(p.ack_timeouts) :
              /\ Handles(p.ack_timeouts, n)
              /\ IF \E x \in Examined(p.ack_timeouts, n) : x.bye
                   THEN /\ ack_lock' = Lock(ack_lock, "checker")
                        /\ todo' = [todo EXCEPT !["checker"] = <<Do("bye")>>]
                        /\ UNCHANGED <<port, thread, given_up>>
                   ELSE /\ port' = [port EXCEPT !["server"] = Checked(@, n)]
                        /\ given_up' = given_up \cup GivenUp(p, n)
                        /\ thread' = IF p.closed THEN Ended({"checker"}) ELSE thread
                        /\ UNCHANGED <<ack_lock, todo>>
        /\ UNCHANGED <<now, wire, cut, status_lock, fixed, ends>>

\* bye frees and closes; then the round ends, and the thread with it.
Bye ==
    /\ ToDo("checker", "bye") /\ MayLock(status_lock, "checker")
    /\ \E n \in 0..Len(port["server"].ack_timeouts) :
          /\ Handles(port["server"].ack_timeouts, n)
          /\ port' = [port EXCEPT !["server"] = [Checked(@, n) EXCEPT !.closed = TRUE]]
          /\ given_up' = given_up \cup GivenUp(port["server"], n)
    /\ freed' = TRUE /\ UNCHANGED quit_event
    /\ ack_lock' = Unlock(ack_lock, "checker")
    /\ thread' = Ended({"checker"}) /\ todo' = Done("checker")
    /\ UNCHANGED <<time, wire, cut, status_lock, fixed>>

-----------------------------------------------------------------------------
\* One thread has ack_lock and wants status_lock, and another the reverse.
CircularWait(e) ==
    \E t, u \in Thread :
        /\ EndOf[t] = e /\ EndOf[u] = e
        /\ status_lock[e] = t /\ ToDo(t, "register") /\ ~MayLock(ack_lock, t)
        /\ ack_lock[e] = u /\ todo[u] # <<>> /\ Head(todo[u]).do \in {"bye", "protocol_error"}

\* Locks are not held for long, unless for ever.
Quiet == CircularWait("server") \/ port["server"].closed
         \/ (status_lock["server"] = Nobody /\ ack_lock["server"] = Nobody)

\* pinger and the checker have their rounds in every unit of time, which is of
\* no account when the checker has ended, as it does after the link.
Tick ==
    /\ now < Horizon /\ Quiet /\ thread["checker"] # "ended"
    /\ \/ checked
       \/ thread["checker"] # "running" \/ todo["checker"] # <<>>
       \/ ~MayLock(ack_lock, "checker")
    /\ ~PingDue \/ todo["pinger"] # <<>> \/ ~MaySend("server", "ping")
    /\ now' = now + 1 /\ checked' = FALSE
    /\ UNCHANGED <<wire, cut, port, locks, thread, todo, others, ends>>

Cut ==
    /\ ~cut /\ cut' = TRUE
    /\ wire' = [e \in End |-> <<>>]
    /\ UNCHANGED <<time, port, locks, thread, todo, others, ends>>

Handshakes ==
    \/ ServerHandshake \/ AliceHandshake \/ HandshakeReset
    \/ \E e \in End : HandshakeFails(e)

Listens ==
    \/ HandleMyIp \/ HandlePublicIp
    \/ \E e \in End : \/ ProcessAck(e) \/ ProtocolError(e) \/ HandleAndAck(e)
                      \/ NowReady(e) \/ HandleErrorBye(e) \/ HandleSignoff(e)
                      \/ ListenEnds(e)

Sends == \E t \in Thread : SendPlain(t) \/ SendLock(t) \/ SendRegister(t)
                           \/ SendDump(t) \/ SendFails(t)

Next ==
    \/ Handshakes \/ Listens \/ Sends
    \/ AliceSend \/ AliceShutdown \/ AliceExits \/ PingerSend
    \/ CheckAckDeadlines \/ Bye \/ Tick \/ Cut

\* Threads go on with what they have begun while one of them can (messages
\* are bounded, so each comes to its turn); a client that is to quit does.
Fairness ==
    /\ WF_vars(Handshakes \/ Listens \/ Sends)
    /\ WF_vars(quit_event /\ AliceExits)

Spec == Init /\ [][Next]_vars /\ Fairness

-----------------------------------------------------------------------------
(* Properties *)

\* What is expected and what has a deadline are the same messages (send_message
\* and process_ack keep two tables), and every ack or reply on its way finds
\* its message there, unless its deadline has passed.
AnswersAreExpected ==
    \A e \in End :
        /\ port[e].expected = Outstanding(port[e])
        /\ \A k \in DOMAIN wire[e] :
              LET m == wire[e][k]
              IN  /\ m.type = "ack" =>
                        m.reply_no \in Outstanding(port[e])
                                       \cup (IF e = "server" THEN given_up ELSE {})
                  /\ m.type \in IsReply => m.reply_no \in port[e].reply_data_table

\* "sequence_no consistency": whoever sends, messages are on the wire in the
\* order of their numbers.
NumbersInOrder ==
    \A e \in End : \A i, j \in DOMAIN wire[e] :
        i < j /\ {wire[e][i].type, wire[e][j].type} \subseteq Numbered
            => wire[e][i].no < wire[e][j].no

\* A message that is not answered is noticed in the round of its deadline, or
\* in a later one, as a round passes over every second message; but every round
\* takes at least one of those that were sent before it.  A ping that is
\* noticed closes the link, unless the checker and a sender wait for each
\* other.
OverdueAreNoticed ==
    LET p == port["server"]
    IN  \A k \in DOMAIN p.ack_timeouts :
            LET x == p.ack_timeouts[k]
            IN  \/ now + k <= x.deadline + x.no + 1
                \/ p.closed \/ CircularWait("server")

\* While the network lasts neither end outlives the other: when one has closed,
\* or the server will not have the client because of its address or version,
\* the client quits and its place on the server is freed; unless threads wait
\* for each other.  (Only the pinger, later, frees the place of a client that
\* goes before it has been heard.)
PartingIsMutual ==
    refused \/ ~compatible \/ (\E e \in End : port[e].closed)
        ~> \/ quit_event /\ freed
           \/ cut \/ CircularWait("server") \/ thread["SwitzerlandLink"] = "died"
=============================================================================
