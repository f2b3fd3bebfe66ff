----------------------------- MODULE LinkProofs -----------------------------
(***************************************************************************)
(* Proofs about Link: whoever sends and whenever a thread is interrupted,  *)
(* messages with numbers are on the wire in the order of their numbers,    *)
(* every ack and every reply finds what its message left in the tables of  *)
(* its sender, and no message is overdue for longer than the rounds of     *)
(* check_ack_deadlines take to come to it.                                 *)
(*                                                                         *)
(* A question of an end is a message of it that has a number; it is about  *)
(* to be dumped, then on the wire to the other end, then the listener      *)
(* there is about to answer it, and then its answer is on the wire.  The   *)
(* invariant says that a question which is further on than another has a   *)
(* smaller number, so that no two answers are to one question.             *)
(***************************************************************************)
EXTENDS Link, SequenceTheorems, TLAPS

Answer == {"ack", "public-ip"}

Kind   == Common \cup FromAlice \cup FromServer
          \cup {"WellHello", "Switzerland", "Incompatible"}
Number == Nat \cup {NoNumber}
Msg    == [type : Kind, no : Number, reply_no : Number]
Step   == [do : {"send", "register", "dump"}, msg : Msg]
          \cup [do : {"now_ready", "protocol_error", "bye"}]
Entries == [deadline : Nat, no : Nat, bye : BOOLEAN]
Port   == [sequence_no : Nat, ready : BOOLEAN, closed : BOOLEAN,
           bailout_waiting : BOOLEAN, bailing_out : BOOLEAN,
           ack_timeouts : Seq(Entries), expected : SUBSET Nat,
           reply_data_table : SUBSET Nat, last_sent : Nat]
States == {"handshake", "listening", "waiting", "running", "exiting", "ended", "died"}

Elements(s) == {s[k] : k \in DOMAIN s}

\* The types of the variables that the properties are about.
LinkTypes ==
    /\ now \in Nat /\ checked \in BOOLEAN /\ cut \in BOOLEAN
    /\ wire \in [End -> Seq(Msg)]
    /\ port \in [End -> Port]
    /\ status_lock \in [End -> Thread \cup {Nobody}]
    /\ ack_lock \in [End -> Thread \cup {Nobody}]
    /\ thread \in [Thread -> States]
    /\ todo \in [Thread -> Seq(Step)]
    /\ given_up \subseteq Nat

\* Messages that have a number, or answer one.
Right(s) ==
    \A k \in DOMAIN s :
        /\ s[k].type \in Numbered => s[k].no \in Nat
        /\ s[k].type \in Answer => s[k].reply_no \in Nat
        /\ s[k].type \in IsReply => s[k].type \in Answer

Numbers == \A e \in End : Right(wire[e])

\* What a thread may have to do as its i-th step: only the first can be in the
\* middle of a send or an answer.
MayDo(t, i, s) ==
    /\ i > 1 => s.do \in {"send", "now_ready"}
    /\ s.do \in {"register", "dump"} => s.msg.type \in ExpectsAck
    /\ s.do = "dump" => s.msg.no \in Nat
    /\ s.do \in {"send", "register", "dump"} =>
          /\ s.msg.type \in IsReply => s.msg.type \in Answer
          /\ s.msg.type \in Answer =>
                i = 1 /\ s.do = "send" /\ t = Listener[EndOf[t]] /\ s.msg.reply_no \in Nat
    /\ s.do \in {"now_ready", "protocol_error"} => t = Listener[EndOf[t]]
    /\ s.do = "bye" => t = "checker"

MayDoAll(t, s) == \A i \in DOMAIN s : MayDo(t, i, s[i])

Shapes == \A t \in Thread : MayDoAll(t, todo[t])

\* Which threads may have anything to do.
Idlers ==
    /\ \A e \in End : thread[Listener[e]] # "listening" => todo[Listener[e]] = <<>>
    /\ thread["Alice"] = "ended" =>
          /\ todo["Alice"] = <<>> /\ thread["AliceLink"] = "ended"
          /\ wire["alice"] = <<>> /\ port["alice"].closed
    /\ todo["checker"] # <<>> => todo["checker"] = <<Do("bye")>>
    /\ thread["checker"] = "waiting" =>
          thread["SwitzerlandLink"] \in {"handshake", "died"} \/ port["server"].closed

\* Who is in the middle of a send has status_lock, and who is about to close
\* the link because of an ack has ack_lock.
Locked ==
    /\ \A e \in End : status_lock[e] # Nobody => EndOf[status_lock[e]] = e
    /\ \A t \in Thread : todo[t] # <<>> =>
          /\ Head(todo[t]).do \in {"register", "dump"} => status_lock[EndOf[t]] = t
          /\ Head(todo[t]).do \in {"protocol_error", "bye"} => ack_lock[EndOf[t]] = t

\* The two tables of acks agree; entries are in the order of their numbers and
\* deadlines.
Ordered(p) ==
    LET s == p.ack_timeouts
    IN  /\ p.expected = Outstanding(p)
        /\ Len(s) <= p.sequence_no
        /\ \A k \in DOMAIN s : k - 1 <= s[k].no /\ s[k].no < p.sequence_no
        /\ \A j, k \in DOMAIN s :
              j < k => s[j].no < s[k].no /\ s[j].deadline <= s[k].deadline

\* No deadline is further away than a message that is sent now has it.
Timely(p, e) ==
    \A k \in DOMAIN p.ack_timeouts : p.ack_timeouts[k].deadline <= Clock[e] + timeout_period

Tables == \A e \in End : Ordered(port[e]) /\ Timely(port[e], e)

\* The questions of an end, and their answers, on their way.
Dumping(e)   == {Head(todo[t]).msg : t \in {u \in Thread : EndOf[u] = e /\ ToDo(u, "dump")}}
Questions(e) == {m \in Elements(wire[Other(e)]) : m.type \in Numbered}
Answering(e) == {Head(todo[t]).msg : t \in {u \in {Listener[Other(e)]} :
                    ToDo(u, "send") /\ Head(todo[u]).msg.type \in Answer}}
Answers(e)   == {m \in Elements(wire[e]) : m.type \in Answer}

\* The process of the client has ended, and its tables with it.
Gone(e) == e = "alice" /\ thread["Alice"] = "ended"

Chained(e) ==
    /\ \A q \in Questions(e) \cup Dumping(e) : q.no < port[e].sequence_no
    /\ \A q \in Questions(e), d \in Dumping(e) : q.no < d.no
    /\ \A a \in Answers(e) \cup Answering(e) :
          /\ a.reply_no < port[e].sequence_no
          /\ \A q \in Questions(e) \cup Dumping(e) : a.reply_no < q.no
    /\ \A a \in Answers(e), b \in Answering(e) : a.reply_no < b.reply_no

Chain == \A e \in End : ~Gone(e) => Chained(e)

Increasing(s) ==
    \A i, j \in DOMAIN s : i < j =>
        /\ s[i].type \in Numbered /\ s[j].type \in Numbered => s[i].no < s[j].no
        /\ s[i].type \in Answer /\ s[j].type \in Answer => s[i].reply_no < s[j].reply_no

InOrder == \A e \in End : Increasing(wire[e])

\* The ack of a message with this number is expected, or has been given up.
Due(e, no) == no \in Outstanding(port[e]) \cup (IF e = "server" THEN given_up ELSE {})

Expected(e) ==
    /\ \A q \in Questions(e) \cup Dumping(e) :
          /\ q.type \in ExpectsAck => Due(e, q.no)
          /\ q.type \in ExpectsReply => q.no \in port[e].reply_data_table
    /\ \A a \in Answers(e) \cup Answering(e) :
          /\ a.type = "ack" => Due(e, a.reply_no)
          /\ a.type \in IsReply => a.reply_no \in port[e].reply_data_table

Expectations == \A e \in End : ~Gone(e) => Expected(e)

\* Every round takes one of those that were sent before: what is left of the
\* time of a message shrinks no faster than its place in the list.
Notice ==
    LET p == port["server"]
    IN  p.closed \/ CircularWait("server") \/
        \A k \in DOMAIN p.ack_timeouts :
            LET x == p.ack_timeouts[k]
            IN  now + k <= x.deadline + x.no
                           + IF checked /\ todo["checker"] = <<>> THEN 0 ELSE 1

\* The checker waits for the handshake, before which nothing is sent.
Silence ==
    LET p == port["server"]
    IN  /\ thread["checker"] \in {"waiting", "running", "ended"}
        /\ thread["checker"] = "waiting" /\ ~p.closed /\ status_lock["server"] = Nobody
              => p.ack_timeouts = <<>>

LinkInv ==
    /\ LinkTypes /\ Numbers /\ Shapes /\ Idlers /\ Locked /\ Tables
    /\ Chain /\ InOrder /\ Expectations /\ Silence /\ Notice

-----------------------------------------------------------------------------
(* Sequences *)

\* What a message is added to.
LEMMA Appended ==
    ASSUME NEW S, NEW s \in Seq(S), NEW x \in S
    PROVE  LET r == Append(s, x)
           IN  /\ r \in Seq(S) /\ Len(r) = Len(s) + 1
               /\ DOMAIN r = 1..(Len(s) + 1) /\ DOMAIN s = 1..Len(s) /\ Len(s) \in Nat
               /\ \A i \in 1..Len(s) : r[i] = s[i]
               /\ r[Len(s) + 1] = x
               /\ Elements(r) = Elements(s) \cup {x}
<1>1. LET r == Append(s, x)
      IN  /\ r \in Seq(S) /\ Len(r) = Len(s) + 1
          /\ DOMAIN r = 1..(Len(s) + 1) /\ DOMAIN s = 1..Len(s) /\ Len(s) \in Nat
          /\ \A i \in 1..Len(s) : r[i] = s[i]
          /\ r[Len(s) + 1] = x
  OBVIOUS
<1> QED
  BY <1>1 DEF Elements

\* What is left of a sequence without its head.
LEMMA Tailed ==
    ASSUME NEW S, NEW s \in Seq(S), s # <<>>
    PROVE  /\ Tail(s) \in Seq(S) /\ Len(s) \in Nat \ {0} /\ Len(Tail(s)) = Len(s) - 1
           /\ DOMAIN s = 1..Len(s) /\ DOMAIN Tail(s) = 1..(Len(s) - 1)
           /\ \A i \in 1..(Len(s) - 1) : Tail(s)[i] = s[i + 1]
           /\ Head(s) = s[1] /\ Head(s) \in S /\ Head(s) \in Elements(s)
           /\ Elements(Tail(s)) \subseteq Elements(s)
<1>1. /\ Tail(s) \in Seq(S) /\ Len(s) \in Nat \ {0} /\ Len(Tail(s)) = Len(s) - 1
      /\ DOMAIN s = 1..Len(s) /\ DOMAIN Tail(s) = 1..(Len(s) - 1)
      /\ \A i \in 1..(Len(s) - 1) : Tail(s)[i] = s[i + 1]
      /\ Head(s) = s[1] /\ Head(s) \in S
  BY HeadTailProperties
<1> QED
  BY <1>1 DEF Elements

\* A sequence with another head.
LEMMA Replaced ==
    ASSUME NEW S, NEW s \in Seq(S), s # <<>>, NEW x \in S
    PROVE  LET r == <<x>> \o Tail(s)
           IN  /\ r \in Seq(S) /\ r # <<>> /\ Len(r) = Len(s) /\ DOMAIN r = 1..Len(s)
               /\ DOMAIN s = 1..Len(s) /\ Len(s) \in Nat \ {0}
               /\ r[1] = x /\ Head(r) = x
               /\ \A i \in 2..Len(s) : r[i] = s[i]
<1>1. <<x>> \in Seq(S) /\ Len(<<x>>) = 1 /\ <<x>>[1] = x
  OBVIOUS
<1>2. /\ Tail(s) \in Seq(S) /\ Len(s) \in Nat \ {0} /\ Len(Tail(s)) = Len(s) - 1
      /\ DOMAIN s = 1..Len(s)
      /\ \A i \in 1..(Len(s) - 1) : Tail(s)[i] = s[i + 1]
  BY Tailed
<1> DEFINE r == <<x>> \o Tail(s)
<1>3. /\ r \in Seq(S) /\ Len(r) = Len(s)
      /\ \A i \in 1..Len(s) : r[i] = IF i <= 1 THEN <<x>>[i] ELSE Tail(s)[i - 1]
  BY <1>1, <1>2, ConcatProperties
<1> HIDE DEF r
<1>4. r[1] = x /\ DOMAIN r = 1..Len(s) /\ r # <<>> /\ Head(r) = r[1]
  BY <1>1, <1>2, <1>3
<1>5. \A i \in 2..Len(s) : r[i] = s[i]
  BY <1>2, <1>3
<1> QED
  BY <1>2, <1>3, <1>4, <1>5 DEF r

\* A sequence without its k-th element.
LEMMA Removed ==
    ASSUME NEW S, NEW s \in Seq(S), NEW k \in DOMAIN s
    PROVE  LET r == RemoveAt(s, k)
           IN  /\ r \in Seq(S) /\ Len(s) \in Nat /\ Len(r) = Len(s) - 1
               /\ DOMAIN s = 1..Len(s) /\ DOMAIN r = 1..(Len(s) - 1)
               /\ \A i \in DOMAIN r : r[i] = s[IF i < k THEN i ELSE i + 1]
<1>1. Len(s) \in Nat /\ DOMAIN s = 1..Len(s) /\ k \in 1..Len(s) /\ \A i \in 1..Len(s) : s[i] \in S
  OBVIOUS
<1> DEFINE a == SubSeq(s, 1, k - 1)
           b == SubSeq(s, k + 1, Len(s))
<1>2. a \in Seq(S) /\ Len(a) = k - 1 /\ \A i \in 1..(k - 1) : a[i] = s[i]
  BY <1>1, SubSeqProperties
<1>3. b \in Seq(S) /\ Len(b) = Len(s) - k /\ \A i \in 1..(Len(s) - k) : b[i] = s[k + i]
  BY <1>1, SubSeqProperties
<1> HIDE DEF a, b
<1> DEFINE r == a \o b
<1>4. /\ r \in Seq(S) /\ Len(r) = Len(a) + Len(b)
      /\ \A i \in 1..(Len(a) + Len(b)) : r[i] = IF i <= Len(a) THEN a[i] ELSE b[i - Len(a)]
  BY <1>2, <1>3, ConcatProperties
<1> HIDE DEF r
<1>5. Len(a) + Len(b) = Len(s) - 1 /\ k \in Nat
  BY <1>1, <1>2, <1>3
<1>6. Len(r) = Len(s) - 1 /\ DOMAIN r = 1..(Len(s) - 1)
  <2>1. Len(r) = Len(s) - 1
    BY <1>4, <1>5
  <2>2. DOMAIN r = 1..Len(r)
    BY <1>4, LenProperties
  <2> QED
    BY <2>1, <2>2
<1>7. ASSUME NEW i \in 1..(Len(s) - 1)
      PROVE  r[i] = s[IF i < k THEN i ELSE i + 1]
  <2>1. r[i] = IF i <= k - 1 THEN a[i] ELSE b[i - (k - 1)]
    BY <1>2, <1>4, <1>5
  <2>2. CASE i < k
    BY <1>1, <1>2, <2>1, <2>2
  <2>3. CASE ~(i < k)
    <3>1. i - (k - 1) \in 1..(Len(s) - k)
      BY <1>1, <2>3
    <3>2. b[i - (k - 1)] = s[k + (i - (k - 1))] /\ k + (i - (k - 1)) = i + 1
      BY <1>1, <1>3, <3>1
    <3>3. ~(i <= k - 1)
      BY <1>1, <2>3
    <3> QED
      BY <2>1, <2>3, <3>2, <3>3
  <2> QED
    BY <2>2, <2>3
<1>8. RemoveAt(s, k) = r
  BY DEF RemoveAt, a, b, r
<1> QED
  BY <1>1, <1>4, <1>6, <1>7, <1>8

\* What a round of check_ack_deadlines leaves of a list.
LEMMA KeptIs ==
    ASSUME NEW S, NEW s \in Seq(S), NEW n \in 0..Len(s), \A j \in 1..n : 2 * j - 1 \in DOMAIN s
    PROVE  LET r == Kept(s, n)
           IN  /\ r \in Seq(S) /\ Len(s) \in Nat /\ Len(r) = Len(s) - n
               /\ DOMAIN s = 1..Len(s) /\ DOMAIN r = 1..(Len(s) - n)
               /\ \A i \in DOMAIN r : /\ (IF i <= n THEN 2 * i ELSE i + n) \in DOMAIN s
                                       /\ r[i] = s[IF i <= n THEN 2 * i ELSE i + n]
<1>1. Len(s) \in Nat /\ DOMAIN s = 1..Len(s) /\ \A i \in 1..Len(s) : s[i] \in S
  OBVIOUS
<1>2. n = 0 \/ 2 * n - 1 <= Len(s)
  BY <1>1
<1>3. ASSUME NEW i \in 1..(Len(s) - n)
      PROVE  (IF i <= n THEN 2 * i ELSE i + n) \in DOMAIN s
  BY <1>1, <1>2
<1> QED
  BY <1>1, <1>3 DEF Kept

-----------------------------------------------------------------------------
(* Types *)

\* Ends and their threads.
LEMMA Ends ==
    /\ "alice" \in End /\ "server" \in End
    /\ Other("alice") = "server" /\ Other("server") = "alice"
    /\ \A e \in End : /\ e = "alice" \/ e = "server"
                      /\ Other(e) \in End /\ Other(e) # e /\ Other(Other(e)) = e
                      /\ Listener[e] \in Thread /\ EndOf[Listener[e]] = e
                      /\ Clock[e] \in {0, now}
    /\ Listener["alice"] = "AliceLink" /\ Listener["server"] = "SwitzerlandLink"
    /\ \A t \in Thread : EndOf[t] \in End
    /\ EndOf["AliceLink"] = "alice" /\ EndOf["Alice"] = "alice" /\ EndOf["pinger"] = "server"
    /\ EndOf["checker"] = "server" /\ EndOf["SwitzerlandLink"] = "server"
    /\ \A t \in Thread : t \in {"AliceLink", "SwitzerlandLink", "Alice", "pinger", "checker"}
    /\ "Alice" \in Thread /\ "AliceLink" \in Thread /\ "SwitzerlandLink" \in Thread
    /\ "pinger" \in Thread /\ "checker" \in Thread
    /\ Nobody \notin Thread
BY NobodyIsNoThread DEF End, Other, Listener, EndOf, Thread, Clock

\* Kinds of messages.
LEMMA Kinds ==
    /\ Answer \cap ExpectsAck = {} /\ Answer \cap Numbered = {} /\ ExpectsReply \cap ExpectsAck = {}
    /\ \A x \in Numbered : x \in ExpectsAck \/ x \in ExpectsReply
    /\ ExpectsAck \subseteq Numbered /\ ExpectsReply \subseteq Numbered
    /\ "ack" \in Answer /\ "ack" \notin IsReply /\ "ack" \notin ExpectsAck
    /\ "public-ip" \in Answer /\ "public-ip" \in IsReply
    /\ {"ping", "error-cont", "new-members"} \subseteq ExpectsAck
    /\ \A x \in {"Switzerland", "Incompatible", "WellHello", "signoff", "error-bye"} :
          x \notin Numbered /\ x \notin Answer /\ x \notin IsReply
    /\ "my-ip" \in ExpectsReply /\ "my-ip" \notin Answer /\ "my-ip" \notin IsReply
    /\ \A x \in {"ping", "error-cont", "new-members"} : x \notin IsReply /\ x \notin Answer
BY DEF Answer, ExpectsAck, ExpectsReply, Numbered, IsReply

\* Kinds are what is sent.
LEMMA KindsAre ==
    {"ack", "public-ip", "ping", "error-cont", "new-members", "Switzerland", "Incompatible",
     "WellHello", "signoff", "error-bye", "my-ip"} \subseteq Kind
BY DEF Kind, Common, FromAlice, FromServer

\* Messages that threads other than listeners send.
LEMMA OthersSend ==
    \A x \in AliceSends \cup PingerSends : x \in Kind /\ x \notin IsReply /\ x \notin Answer
<1>1. /\ AliceSends \subseteq Sendable["alice"] \ ({"ack"} \cup IsReply)
      /\ PingerSends \subseteq Sendable["server"] \ ({"ack"} \cup IsReply)
  BY LinkConstants
<1>2. \A x \in Sendable["alice"] \cup Sendable["server"] : x \in Kind
  BY Understood DEF OutMessages, End, Kind
<1>3. "public-ip" \in IsReply
  BY DEF IsReply
<1> QED
  BY <1>1, <1>2, <1>3 DEF Answer

\* What a step has.
LEMMA StepParts ==
    /\ \A x \in Step : x.do \in {"send", "register", "dump"} => x.msg \in Msg
    /\ \A m \in Msg : Register(m) \in Step /\ Dump(m) \in Step
    /\ \A x \in Kind, no \in Number : Send(x, no) \in Step /\ Send(x, no).do = "send"
                 /\ Send(x, no).msg.type = x /\ Send(x, no).msg.reply_no = no
    /\ \A x \in {"now_ready", "protocol_error", "bye"} : Do(x) \in Step /\ Do(x).do = x
BY DEF Step, Send, Register, Dump, Do, Msg, Message, Number

\* What a message has.
LEMMA MsgParts ==
    /\ \A x \in Kind, i, j \in Number :
          /\ Message(x, i, j) \in Msg /\ Message(x, i, j).type = x
          /\ Message(x, i, j).no = i /\ Message(x, i, j).reply_no = j
    /\ \A m \in Msg : m.type \in Kind /\ m.no \in Number /\ m.reply_no \in Number
BY DEF Msg, Message

\* The parts of a port.
LEMMA PortParts ==
    ASSUME NEW p \in Port
    PROVE  /\ p.sequence_no \in Nat /\ p.ack_timeouts \in Seq(Entries)
           /\ p.expected \subseteq Nat /\ p.reply_data_table \subseteq Nat
           /\ p.closed \in BOOLEAN
BY DEF Port

\* Times.
LEMMA Clocks ==
    ASSUME now \in Nat, NEW e \in End
    PROVE  Clock[e] \in Nat /\ Deadline[e] \in Nat /\ Deadline[e] = Clock[e] + timeout_period
BY LinkConstants DEF Clock, Deadline, End

\* A message that is to be sent has its number, and its sender what it needs
\* for the answer.
LEMMA RegisteredIs ==
    ASSUME now \in Nat, NEW p \in Port, NEW m \in Msg, NEW e \in End
    PROVE  LET q == Registered(p, m, e)
               w == WithNumber(p, m)
           IN  /\ q \in Port
               /\ m.type \in ExpectsAck =>
                     /\ q.ack_timeouts = Append(p.ack_timeouts,
                                                Entry(Deadline[e], p.sequence_no, m.type = "ping"))
                     /\ q.expected = p.expected \cup {p.sequence_no}
               /\ m.type \notin ExpectsAck =>
                     q.ack_timeouts = p.ack_timeouts /\ q.expected = p.expected
               /\ q.reply_data_table =
                     IF m.type \in ExpectsReply THEN p.reply_data_table \cup {p.sequence_no}
                                                ELSE p.reply_data_table
               /\ q.sequence_no = IF m.type \in Numbered THEN p.sequence_no + 1 ELSE p.sequence_no
               /\ q.closed = p.closed
               /\ w \in Msg /\ w.type = m.type /\ w.reply_no = m.reply_no
               /\ m.type \in Numbered => w.no = p.sequence_no
<1> DEFINE x == Entry(Deadline[e], p.sequence_no, m.type = "ping")
<1>1. x \in Entries
  BY Clocks, PortParts DEF Entry, Entries
<1> HIDE DEF x
<1>2. Append(p.ack_timeouts, x) \in Seq(Entries)
  BY <1>1, PortParts, AppendProperties
<1>3. CASE m.type \in ExpectsAck
  <2>1. Registered(p, m, e) = [p EXCEPT !.ack_timeouts = Append(p.ack_timeouts, x),
                                        !.expected = p.expected \cup {p.sequence_no},
                                        !.sequence_no = p.sequence_no + 1]
    BY <1>3 DEF Registered, x, Port
  <2>2. WithNumber(p, m) = [m EXCEPT !.no = p.sequence_no] /\ m.type \in Numbered /\ m.type \notin ExpectsReply
    BY <1>3, Kinds DEF WithNumber
  <2>3. WithNumber(p, m) \in Msg /\ WithNumber(p, m).type = m.type
        /\ WithNumber(p, m).reply_no = m.reply_no /\ WithNumber(p, m).no = p.sequence_no
    BY <2>2 DEF Msg, Number, Port
  <2>4. /\ Registered(p, m, e) \in Port
        /\ Registered(p, m, e).ack_timeouts = Append(p.ack_timeouts, x)
        /\ Registered(p, m, e).expected = p.expected \cup {p.sequence_no}
        /\ Registered(p, m, e).reply_data_table = p.reply_data_table
        /\ Registered(p, m, e).sequence_no = p.sequence_no + 1
        /\ Registered(p, m, e).closed = p.closed
    <3>1. p.expected \cup {p.sequence_no} \subseteq Nat /\ p.sequence_no + 1 \in Nat
      BY PortParts
    <3> QED
      BY <1>2, <2>1, <3>1 DEF Port
  <2>5. Append(p.ack_timeouts, x) = Append(p.ack_timeouts,
                                           Entry(Deadline[e], p.sequence_no, m.type = "ping"))
    BY DEF x
  <2> HIDE DEF x
  <2> QED
    BY <1>3, <2>2, <2>3, <2>4, <2>5
<1>4. CASE m.type \in ExpectsReply /\ m.type \notin ExpectsAck
  <2>1. Registered(p, m, e) = [p EXCEPT !.reply_data_table = p.reply_data_table \cup {p.sequence_no},
                                        !.sequence_no = p.sequence_no + 1]
    BY <1>4 DEF Registered, Port
  <2>2. WithNumber(p, m) = [m EXCEPT !.no = p.sequence_no] /\ m.type \in Numbered
    BY <1>4, Kinds DEF WithNumber
  <2>3. WithNumber(p, m) \in Msg /\ WithNumber(p, m).type = m.type
        /\ WithNumber(p, m).reply_no = m.reply_no /\ WithNumber(p, m).no = p.sequence_no
    BY <2>2 DEF Msg, Number, Port
  <2>4. /\ Registered(p, m, e) \in Port
        /\ Registered(p, m, e).ack_timeouts = p.ack_timeouts
        /\ Registered(p, m, e).expected = p.expected
        /\ Registered(p, m, e).reply_data_table = p.reply_data_table \cup {p.sequence_no}
        /\ Registered(p, m, e).sequence_no = p.sequence_no + 1
        /\ Registered(p, m, e).closed = p.closed
    <3>1. p.reply_data_table \cup {p.sequence_no} \subseteq Nat /\ p.sequence_no + 1 \in Nat
      BY PortParts
    <3> QED
      BY <2>1, <3>1 DEF Port
  <2> QED
    BY <1>4, <2>2, <2>3, <2>4
<1>5. CASE m.type \notin ExpectsReply /\ m.type \notin ExpectsAck
  BY <1>5, Kinds DEF Registered, WithNumber, Port, Msg, Number
<1> QED
  BY <1>3, <1>4, <1>5

\* What is on the wire after a message has been sent.
LEMMA CarriedIs ==
    ASSUME wire \in [End -> Seq(Msg)], NEW e \in End, NEW m \in Msg
    PROVE  /\ Carried(e, m) \in [End -> Seq(Msg)]
           /\ Carried(e, m)[Other(e)] = wire[Other(e)]
           /\ Carried(e, m)[e] \in {wire[e], Append(wire[e], m)}
           /\ Unread[e] => Carried(e, m)[e] = wire[e]
BY Ends DEF Carried

\* The rest of a list is in the order of the list, and no entry has moved back.
Rest(r, s) ==
    /\ Len(r) <= Len(s)
    /\ \A i \in DOMAIN r : \E k \in DOMAIN s : i <= k /\ r[i] = s[k]
    /\ \A i, j \in DOMAIN r : i < j => \E k, l \in DOMAIN s : k < l /\ r[i] = s[k] /\ r[j] = s[l]

\* What an ack makes of the tables.
LEMMA AckedIs ==
    ASSUME NEW p \in Port, Ordered(p), NEW no \in Outstanding(p)
    PROVE  LET q == Acked(p, no)
           IN  /\ q \in Port /\ Ordered(q)
               /\ Rest(q.ack_timeouts, p.ack_timeouts)
               /\ Outstanding(q) = Outstanding(p) \ {no}
               /\ q.sequence_no = p.sequence_no /\ q.reply_data_table = p.reply_data_table
               /\ q.closed = p.closed
<1> DEFINE s == p.ack_timeouts
           k == Place(s, no)
           r == RemoveAt(s, k)
           q == Acked(p, no)
<1>1. s \in Seq(Entries) /\ Len(s) \in Nat /\ DOMAIN s = 1..Len(s) /\ p.sequence_no \in Nat
  BY PortParts
<1>2. k \in DOMAIN s /\ s[k].no = no
  <2>1. PICK i \in DOMAIN s : s[i].no = no
    BY DEF Outstanding
  <2>2. \A j \in 1..(i - 1) : j \in DOMAIN s /\ j < i
    BY <1>1, <2>1
  <2>3. \A j \in DOMAIN s : s[j].no \in Nat
    <3>1. \A j \in DOMAIN s : s[j] \in Entries
      BY <1>1, ElementOfSeq
    <3> QED
      BY <3>1 DEF Entries
  <2>4. \A j \in 1..(i - 1) : s[j].no # no
    BY <2>1, <2>2, <2>3 DEF Ordered
  <2>5. \E x \in DOMAIN s : s[x].no = no /\ \A j \in 1..(x - 1) : s[j].no # no
    BY <2>1, <2>4
  <2> QED
    BY <2>5 DEF Place
<1> HIDE DEF s, k
<1>3. /\ r \in Seq(Entries) /\ Len(r) = Len(s) - 1 /\ DOMAIN r = 1..(Len(s) - 1)
      /\ \A i \in DOMAIN r : r[i] = s[IF i < k THEN i ELSE i + 1]
  BY <1>1, <1>2, Removed
<1> HIDE DEF r
<1>4. q = [p EXCEPT !.ack_timeouts = r, !.expected = p.expected \ {no}]
  BY DEF Acked, Port, r, k, s
<1>5. /\ q \in Port /\ q.ack_timeouts = r /\ q.expected = p.expected \ {no}
      /\ q.sequence_no = p.sequence_no /\ q.reply_data_table = p.reply_data_table
      /\ q.closed = p.closed
  BY <1>3, <1>4 DEF Port
<1> HIDE DEF q
<1>6. /\ \A i \in DOMAIN s : s[i].no \in Nat /\ s[i].deadline \in Nat /\ i \in Nat
      /\ \A i \in DOMAIN r : i \in Nat
  <2>1. \A i \in DOMAIN s : s[i] \in Entries
    BY <1>1, ElementOfSeq
  <2>2. \A i \in DOMAIN s : s[i].no \in Nat /\ s[i].deadline \in Nat
    BY <2>1 DEF Entries
  <2> QED
    BY <1>1, <1>3, <2>2
<1>7. \A i, j \in DOMAIN s : i < j => s[i].no < s[j].no /\ s[i].deadline <= s[j].deadline
  BY DEF Ordered, s
<1>8. ASSUME NEW i \in DOMAIN r
      PROVE  LET x == IF i < k THEN i ELSE i + 1
             IN  x \in DOMAIN s /\ i <= x /\ r[i] = s[x] /\ x # k
  BY <1>1, <1>2, <1>3
<1>9. ASSUME NEW i \in DOMAIN r, NEW j \in DOMAIN r, i < j
      PROVE  (IF i < k THEN i ELSE i + 1) < (IF j < k THEN j ELSE j + 1)
  BY <1>1, <1>2, <1>3, <1>9
<1>10. Rest(r, s)
  BY <1>1, <1>3, <1>8, <1>9 DEF Rest
<1>11. {r[i].no : i \in DOMAIN r} = {s[i].no : i \in DOMAIN s} \ {no}
  <2>1. \A i \in DOMAIN r : r[i].no \in {s[x].no : x \in DOMAIN s} /\ r[i].no # no
    <3> SUFFICES ASSUME NEW i \in DOMAIN r
                 PROVE  r[i].no \in {s[x].no : x \in DOMAIN s} /\ r[i].no # no
      OBVIOUS
    <3> DEFINE x == IF i < k THEN i ELSE i + 1
    <3>1. x \in DOMAIN s /\ r[i] = s[x] /\ x # k
      BY <1>8
    <3> HIDE DEF x
    <3>2. s[x].no # s[k].no
      BY <3>1, <1>1, <1>2, <1>6, <1>7
    <3> QED
      BY <3>1, <3>2, <1>2
  <2>2. ASSUME NEW x \in DOMAIN s, s[x].no # no
        PROVE  s[x].no \in {r[i].no : i \in DOMAIN r}
    <3>1. x # k
      BY <1>2, <2>2
    <3>2. CASE x < k
      BY <1>1, <1>2, <1>3, <3>2
    <3>3. CASE x > k
      <4>1. x - 1 \in DOMAIN r /\ ~(x - 1 < k) /\ (x - 1) + 1 = x
        BY <1>1, <1>2, <1>3, <3>3
      <4> QED
        BY <4>1, <1>3
    <3> QED
      BY <3>1, <3>2, <3>3, <1>1, <1>2
  <2> QED
    BY <2>1, <2>2
<1>12. Outstanding(q) = Outstanding(p) \ {no}
  BY <1>5, <1>11 DEF Outstanding, s
<1>13. Ordered(q)
  <2>1. q.expected = Outstanding(q)
    BY <1>5, <1>12 DEF Ordered
  <2>2. Len(r) <= q.sequence_no
    BY <1>1, <1>3, <1>5 DEF Ordered, s
  <2>3. ASSUME NEW i \in DOMAIN r
        PROVE  i - 1 <= r[i].no /\ r[i].no < q.sequence_no
    <3>1. PICK x \in DOMAIN s : i <= x /\ r[i] = s[x]
      BY <1>10 DEF Rest
    <3>2. x - 1 <= s[x].no /\ s[x].no < p.sequence_no
      BY DEF Ordered, s
    <3> QED
      BY <1>1, <1>5, <1>6, <3>1, <3>2
  <2>4. ASSUME NEW i \in DOMAIN r, NEW j \in DOMAIN r, i < j
        PROVE  r[i].no < r[j].no /\ r[i].deadline <= r[j].deadline
    BY <1>7, <1>10, <2>4 DEF Rest
  <2> QED
    BY <1>5, <2>1, <2>2, <2>3, <2>4 DEF Ordered
<1> QED
  BY <1>5, <1>10, <1>12, <1>13 DEF q, s

\* What a round makes of the tables: if it handles any, all others move on.
LEMMA CheckedIs ==
    ASSUME NEW p \in Port, Ordered(p), NEW n \in 0..Len(p.ack_timeouts), Handles(p.ack_timeouts, n)
    PROVE  LET q == Checked(p, n)
           IN  /\ q \in Port /\ Ordered(q)
               /\ Rest(q.ack_timeouts, p.ack_timeouts)
               /\ n > 0 => \A i \in DOMAIN q.ack_timeouts :
                             \E k \in DOMAIN p.ack_timeouts :
                                i + 1 <= k /\ q.ack_timeouts[i] = p.ack_timeouts[k]
               /\ n = 0 => \A k \in DOMAIN p.ack_timeouts : 
                              1 \in DOMAIN p.ack_timeouts /\ ~Overdue(p.ack_timeouts[1])
               /\ Outstanding(q) \cup GivenUp(p, n) = Outstanding(p)
               /\ GivenUp(p, n) \subseteq Nat
               /\ q.sequence_no = p.sequence_no /\ q.reply_data_table = p.reply_data_table
               /\ q.closed = p.closed
<1> DEFINE s == p.ack_timeouts
           r == Kept(s, n)
           q == Checked(p, n)
           G == GivenUp(p, n)
<1>1. s \in Seq(Entries) /\ Len(s) \in Nat /\ DOMAIN s = 1..Len(s) /\ p.sequence_no \in Nat /\ n \in Nat
  BY PortParts
<1>2. \A j \in 1..n : 2 * j - 1 \in DOMAIN s
  BY DEF Handles
<1>3. /\ r \in Seq(Entries) /\ Len(r) = Len(s) - n /\ DOMAIN r = 1..(Len(s) - n)
      /\ \A i \in DOMAIN r : /\ (IF i <= n THEN 2 * i ELSE i + n) \in DOMAIN s
                             /\ r[i] = s[IF i <= n THEN 2 * i ELSE i + n]
  BY <1>1, <1>2, KeptIs
<1>4. q = [p EXCEPT !.ack_timeouts = r, !.expected = p.expected \ G]
  BY DEF Checked, Port
<1>a. n = 0 => \A k \in DOMAIN s : 1 \in DOMAIN s /\ ~Overdue(s[1])
  BY <1>1 DEF Handles
<1>b. \A x : x \in G <=> \E j \in 1..n : x = s[2 * j - 1].no
  BY DEF GivenUp, Examined
<1> HIDE DEF s, r, G
<1>5. /\ q \in Port /\ q.ack_timeouts = r /\ q.expected = p.expected \ G
      /\ q.sequence_no = p.sequence_no /\ q.reply_data_table = p.reply_data_table
      /\ q.closed = p.closed
  BY <1>3, <1>4 DEF Port
<1> HIDE DEF q
<1>6. /\ \A i \in DOMAIN s : s[i].no \in Nat /\ s[i].deadline \in Nat /\ i \in Nat
      /\ \A i \in DOMAIN r : i \in Nat
  <2>1. \A i \in DOMAIN s : s[i] \in Entries
    BY <1>1, ElementOfSeq
  <2>2. \A i \in DOMAIN s : s[i].no \in Nat /\ s[i].deadline \in Nat
    BY <2>1 DEF Entries
  <2> QED
    BY <1>1, <1>3, <2>2
<1>7. \A i, j \in DOMAIN s : i < j => s[i].no < s[j].no /\ s[i].deadline <= s[j].deadline
  BY DEF Ordered, s
<1>8. ASSUME NEW i \in DOMAIN r
      PROVE  LET x == IF i <= n THEN 2 * i ELSE i + n
             IN  x \in DOMAIN s /\ i <= x /\ r[i] = s[x] /\ (n > 0 => i + 1 <= x)
                 /\ \A j \in 1..n : x # 2 * j - 1
  <2>1. n > 0 => 2 * n - 1 <= Len(s)
    BY <1>1, <1>2
  <2> QED
    BY <1>1, <1>3, <2>1
<1>9. ASSUME NEW i \in DOMAIN r, NEW j \in DOMAIN r, i < j
      PROVE  (IF i <= n THEN 2 * i ELSE i + n) < (IF j <= n THEN 2 * j ELSE j + n)
  BY <1>1, <1>3, <1>9
<1>10. Rest(r, s)
  BY <1>1, <1>3, <1>8, <1>9 DEF Rest
<1>11. {r[i].no : i \in DOMAIN r} = {s[i].no : i \in DOMAIN s} \ G
  <2>1. ASSUME NEW i \in DOMAIN r
        PROVE  r[i].no \in {s[x].no : x \in DOMAIN s} /\ r[i].no \notin G
    <3> DEFINE x == IF i <= n THEN 2 * i ELSE i + n
    <3>1. x \in DOMAIN s /\ r[i] = s[x] /\ \A j \in 1..n : x # 2 * j - 1
      BY <1>8
    <3> HIDE DEF x
    <3>2. ASSUME NEW j \in 1..n
          PROVE  s[x].no # s[2 * j - 1].no
      <4>1. 2 * j - 1 \in DOMAIN s /\ x # 2 * j - 1
        BY <1>2, <3>1 DEF s
      <4>2. PICK y \in DOMAIN s : y = 2 * j - 1
        BY <4>1
      <4>3. x < y \/ y < x
        BY <3>1, <4>1, <4>2, <1>6
      <4>4. s[x].no # s[y].no
        BY <3>1, <4>3, <1>6, <1>7
      <4> QED
        BY <4>2, <4>4
    <3> QED
      BY <3>1, <3>2, <1>b
  <2>2. ASSUME NEW x \in DOMAIN s, s[x].no \notin G
        PROVE  s[x].no \in {r[i].no : i \in DOMAIN r}
    <3>1. \A j \in 1..n : x # 2 * j - 1
      BY <1>b, <2>2
    <3>2. CASE x > 2 * n
      <4>1. x - n \in DOMAIN r /\ ~(x - n <= n) /\ (x - n) + n = x
        BY <1>1, <1>3, <3>2
      <4> QED
        BY <4>1, <1>3
    <3>3. CASE x <= 2 * n
      <4>0. x \in Nat /\ x > 0 /\ x <= Len(s) /\ 2 * n - 1 <= Len(s)
        <5>1. n > 0 => 2 * n - 1 \in DOMAIN s
          BY <1>1, <1>2 DEF s
        <5> QED
          BY <1>1, <5>1
      <4>1. PICK y \in Nat : x = 2 * y \/ x = 2 * y + 1
        <5>1. x \div 2 \in Nat /\ (x = 2 * (x \div 2) \/ x = 2 * (x \div 2) + 1)
          BY <4>0
        <5> QED
          BY <5>1
      <4>2. x # 2 * y + 1
        <5> SUFFICES ASSUME x = 2 * y + 1
                     PROVE  FALSE
          OBVIOUS
        <5>1. y + 1 \in 1..n /\ 2 * (y + 1) - 1 = x
          BY <1>1, <3>3
        <5> QED
          BY <5>1, <3>1
      <4>3. x = 2 * y /\ y \in 1..n
        BY <1>1, <4>0, <4>1, <4>2, <3>3
      <4>4. y \in DOMAIN r
        <5>1. y \in Nat /\ y <= n /\ y > 0 /\ 2 * y <= Len(s) /\ 2 * n - 1 <= Len(s)
          BY <1>1, <4>0, <4>3
        <5>2. y = n \/ y + 1 <= n
          BY <1>1, <5>1
        <5>3. y <= Len(s) - n
          BY <1>1, <5>1, <5>2
        <5> QED
          <6>1. y \in 1..(Len(s) - n)
            BY <1>1, <5>1, <5>3
          <6>2. DOMAIN r = 1..(Len(s) - n)
            BY <1>3
          <6> QED
            BY <6>1, <6>2
      <4>5. r[y] = s[2 * y]
        <5>1. \A i \in DOMAIN r : r[i] = s[IF i <= n THEN 2 * i ELSE i + n]
          BY <1>3
        <5>2. r[y] = s[IF y <= n THEN 2 * y ELSE y + n] /\ y <= n
          BY <4>3, <4>4, <5>1, <1>1
        <5> QED
          BY <5>2
      <4> QED
        BY <4>3, <4>4, <4>5
    <3> QED
      BY <3>2, <3>3, <1>1
  <2> QED
    BY <2>1, <2>2
<1>12. Outstanding(q) = Outstanding(p) \ G
  BY <1>5, <1>11 DEF Outstanding, s
<1>13. G \subseteq Outstanding(p) /\ G \subseteq Nat
  BY <1>2, <1>6, <1>b DEF Outstanding, s
<1>14. Ordered(q)
  <2>1. q.expected = Outstanding(q)
    BY <1>5, <1>12 DEF Ordered
  <2>2. Len(r) <= q.sequence_no
    BY <1>1, <1>3, <1>5 DEF Ordered, s
  <2>3. ASSUME NEW i \in DOMAIN r
        PROVE  i - 1 <= r[i].no /\ r[i].no < q.sequence_no
    <3>1. PICK x \in DOMAIN s : i <= x /\ r[i] = s[x]
      BY <1>10 DEF Rest
    <3>2. x - 1 <= s[x].no /\ s[x].no < p.sequence_no
      BY DEF Ordered, s
    <3> QED
      BY <1>1, <1>5, <1>6, <3>1, <3>2
  <2>4. ASSUME NEW i \in DOMAIN r, NEW j \in DOMAIN r, i < j
        PROVE  r[i].no < r[j].no /\ r[i].deadline <= r[j].deadline
    BY <1>7, <1>10, <2>4 DEF Rest
  <2> QED
    BY <1>5, <2>1, <2>2, <2>3, <2>4 DEF Ordered
<1>15. n > 0 => \A i \in DOMAIN r : \E k \in DOMAIN s : i + 1 <= k /\ r[i] = s[k]
  BY <1>8
<1> QED
  BY <1>5, <1>10, <1>12, <1>13, <1>14, <1>15, <1>a DEF q, s, G

\* What steps of threads do to what they have to do.
LEMMA TodoIs ==
    ASSUME LinkTypes, NEW t \in Thread
    PROVE  /\ todo[t] \in Seq(Step)
           /\ todo[t] # <<>> => /\ Head(todo[t]) \in Step /\ Head(todo[t]) = todo[t][1]
                                /\ 1 \in DOMAIN todo[t] /\ Tail(todo[t]) \in Seq(Step)
                                /\ \A i \in DOMAIN Tail(todo[t]) :
                                      i + 1 \in DOMAIN todo[t] /\ Tail(todo[t])[i] = todo[t][i + 1]
                                /\ DOMAIN Tail(todo[t]) \subseteq Nat \ {0}
           /\ todo[t] # <<>> => Done(t) \in [Thread -> Seq(Step)]
           /\ \A x \in Step : todo[t] # <<>> => Replace(t, x) \in [Thread -> Seq(Step)]
<1>1. todo[t] \in Seq(Step)
  BY DEF LinkTypes
<1>2. ASSUME todo[t] # <<>>
      PROVE  /\ Head(todo[t]) \in Step /\ Head(todo[t]) = todo[t][1]
             /\ 1 \in DOMAIN todo[t] /\ Tail(todo[t]) \in Seq(Step)
             /\ \A i \in DOMAIN Tail(todo[t]) :
                   i + 1 \in DOMAIN todo[t] /\ Tail(todo[t])[i] = todo[t][i + 1]
             /\ DOMAIN Tail(todo[t]) \subseteq Nat \ {0}
  BY <1>1, <1>2, Tailed
<1>3. ASSUME todo[t] # <<>>
      PROVE  Done(t) \in [Thread -> Seq(Step)]
  BY <1>2, <1>3 DEF Done, LinkTypes
<1>4. ASSUME NEW x \in Step, todo[t] # <<>>
      PROVE  Replace(t, x) \in [Thread -> Seq(Step)]
  <2>1. <<x>> \o Tail(todo[t]) \in Seq(Step)
    BY <1>1, <1>4, Replaced
  <2> QED
    BY <2>1 DEF Replace, LinkTypes
<1> QED
  BY <1>1, <1>2, <1>3, <1>4

\* What is on its way to an end.
LEMMA WireIs ==
    ASSUME LinkTypes, NEW e \in End
    PROVE  /\ wire[e] \in Seq(Msg)
           /\ wire[e] # <<>> =>
                 /\ Head(wire[e]) \in Msg /\ Head(wire[e]) = wire[e][1]
                 /\ 1 \in DOMAIN wire[e] /\ Head(wire[e]) \in Elements(wire[e])
                 /\ Tail(wire[e]) \in Seq(Msg) /\ Elements(Tail(wire[e])) \subseteq Elements(wire[e])
                 /\ \A i \in DOMAIN Tail(wire[e]) :
                       i + 1 \in DOMAIN wire[e] /\ Tail(wire[e])[i] = wire[e][i + 1]
<1>1. wire[e] \in Seq(Msg)
  BY DEF LinkTypes
<1> QED
  BY <1>1, Tailed

\* The type invariant holds at the start.
LEMMA TypesAtStart == Init => LinkTypes
<1> SUFFICES ASSUME Init
             PROVE  LinkTypes
  OBVIOUS
<1>1. Message("WellHello", NoNumber, NoNumber) \in Msg
  BY MsgParts, KindsAre DEF Number
<1>2. wire \in [End -> Seq(Msg)]
  BY <1>1 DEF Init, End
<1>3. NewPort \in Port
  BY DEF NewPort, Port, Entries
<1>4. port \in [End -> Port]
  BY <1>3 DEF Init, Port
<1>5. thread \in [Thread -> States]
  BY DEF Init, States, Thread
<1>6. todo \in [Thread -> Seq(Step)]
  BY DEF Init
<1> QED
  BY <1>2, <1>4, <1>5, <1>6 DEF Init, LinkTypes

\* Parts of a port that are changed.
LEMMA PortExcept ==
    ASSUME NEW p \in Port
    PROVE  /\ [p EXCEPT !.closed = TRUE] \in Port /\ [p EXCEPT !.ready = TRUE] \in Port
           /\ [p EXCEPT !.bailing_out = TRUE, !.closed = TRUE] \in Port
           /\ \A x \in Nat : [p EXCEPT !.last_sent = x] \in Port
           /\ \A x \in SUBSET Nat : [p EXCEPT !.reply_data_table = x] \in Port
BY DEF Port

\* The parts of the state are changed by all actions within their types.
LEMMA TypesNext ==
    ASSUME LinkTypes, Tables, [Next]_vars
    PROVE  LinkTypes'
<1>a. /\ now \in Nat /\ checked \in BOOLEAN /\ cut \in BOOLEAN
      /\ wire \in [End -> Seq(Msg)] /\ port \in [End -> Port]
      /\ status_lock \in [End -> Thread \cup {Nobody}] /\ ack_lock \in [End -> Thread \cup {Nobody}]
      /\ thread \in [Thread -> States] /\ todo \in [Thread -> Seq(Step)] /\ given_up \subseteq Nat
  BY DEF LinkTypes
<1>b. NoNumber \in Number /\ \A x \in Nat : x \in Number
  BY DEF Number
<1>i. \A x \in {"Switzerland", "Incompatible", "error-bye"} : Message(x, NoNumber, NoNumber) \in Msg
  BY <1>b, MsgParts, KindsAre
<1>j. /\ \A x \in {"my-ip", "new-members", "signoff"} : Send(x, NoNumber) \in Step
      /\ \A x \in {"ack", "public-ip"}, m \in Msg : Send(x, m.no) \in Step
  BY <1>b, MsgParts, KindsAre, StepParts
<1>c. \A T \in SUBSET Thread : Ended(T) \in [Thread -> States] /\ Dropped(T) \in [Thread -> Seq(Step)]
  BY <1>a DEF Ended, Dropped, States
<1>g. "alice" \in End /\ "server" \in End
      /\ \A e \in End : Other(e) \in End /\ Listener[e] \in Thread
      /\ \A x \in Thread : EndOf[x] \in End
  BY Ends
<1>h. "Alice" \in Thread /\ "AliceLink" \in Thread /\ "SwitzerlandLink" \in Thread
      /\ "pinger" \in Thread /\ "checker" \in Thread
  BY Ends
<1>d. \A e \in End : Closed(port, e) \in [End -> Port]
  <2> SUFFICES ASSUME NEW e \in End
               PROVE  Closed(port, e) \in [End -> Port]
    OBVIOUS
  <2>1. [port[e] EXCEPT !.closed = TRUE] \in Port
    BY <1>a, PortExcept
  <2>2. Closed(port, e) = [port EXCEPT ![e] = [port[e] EXCEPT !.closed = TRUE]]
    BY <1>a DEF Closed
  <2> QED
    BY <1>a, <2>1, <2>2
<1>e. \A t \in Thread : Lock(status_lock, t) \in [End -> Thread \cup {Nobody}]
                        /\ Lock(ack_lock, t) \in [End -> Thread \cup {Nobody}]
                        /\ Unlock(status_lock, t) \in [End -> Thread \cup {Nobody}]
                        /\ Unlock(ack_lock, t) \in [End -> Thread \cup {Nobody}]
  BY <1>a DEF Lock, Unlock
<1>f. \A x \in Step, y \in Step, z \in Step : <<>> \in Seq(Step) /\ <<x>> \in Seq(Step) /\ <<x, y, z>> \in Seq(Step)
  OBVIOUS
<1>1. CASE ServerHandshake
  <2>1. wire["server"] # <<>>
    BY <1>1 DEF ServerHandshake, Arrives
  <2> DEFINE m == Message(IF compatible THEN "Switzerland" ELSE "Incompatible", NoNumber, NoNumber)
  <2>a. m \in Msg
    BY <1>i
  <2>b. wire' = [Carried("alice", m) EXCEPT !["server"] = Tail(@)]
    BY <1>1 DEF ServerHandshake
  <2> HIDE DEF m
  <2>2. Carried("alice", m) \in [End -> Seq(Msg)]
    BY <1>a, <1>g, <2>a, CarriedIs
  <2>3. Carried("alice", m)["server"] = wire["server"]
    BY <1>a, <1>g, <2>a, CarriedIs, Ends
  <2>4. wire' \in [End -> Seq(Msg)]
    BY <2>1, <2>b, <2>2, <2>3, <1>g, WireIs
  <2>5. thread' \in [Thread -> States] /\ port' \in [End -> Port]
    BY <1>1, <1>a, <1>g, <1>h, <1>c, <1>d DEF ServerHandshake, States
  <2> QED
    BY <1>1, <1>a, <1>g, <1>h, <2>4, <2>5 DEF ServerHandshake, LinkTypes, locks, time, others
<1>2. CASE AliceHandshake
  <2>1. wire' \in [End -> Seq(Msg)]
    BY <1>2, <1>a, <1>g, <1>h, WireIs DEF AliceHandshake, Arrives
  <2>2. todo' \in [Thread -> Seq(Step)] /\ thread' \in [Thread -> States]
    BY <1>2, <1>a, <1>g, <1>h, <1>j, <1>f DEF AliceHandshake, States
  <2> QED
    BY <1>2, <1>a, <1>g, <1>h, <2>1, <2>2 DEF AliceHandshake, LinkTypes, locks, time, others
<1>3. CASE HandshakeReset
  BY <1>3, <1>a, <1>g, <1>h DEF HandshakeReset, LinkTypes, locks, time, others, States
<1>4. CASE \E e \in End : HandshakeFails(e)
  <2>1. PICK e \in End : HandshakeFails(e)
    BY <1>4
  <2> QED
    BY <2>1, <1>a, <1>g, <1>h, <1>c, <1>d DEF HandshakeFails, LinkTypes, locks, time, others
<1>5. CASE HandleMyIp
  <2>1. wire' \in [End -> Seq(Msg)] /\ Head(wire["server"]) \in Msg
    BY <1>5, <1>a, <1>g, <1>h, WireIs DEF HandleMyIp, Receives, Arrives
  <2>2. todo' \in [Thread -> Seq(Step)]
    BY <1>5, <2>1, <1>a, <1>g, <1>h, <1>j, <1>f, StepParts DEF HandleMyIp, Then
  <2> QED
    BY <1>5, <1>a, <1>g, <1>h, <2>1, <2>2 DEF HandleMyIp, LinkTypes, locks, time, others
<1>6. CASE HandlePublicIp
  <2>1. wire' \in [End -> Seq(Msg)]
    BY <1>6, <1>a, <1>g, <1>h, WireIs DEF HandlePublicIp, Receives, Arrives
  <2>2. port' \in [End -> Port]
    <3>1. \A no : [port["alice"] EXCEPT !.reply_data_table = port["alice"].reply_data_table \ {no}] \in Port
      BY <1>a, <1>g, PortExcept, PortParts
    <3>2. \/ \E no : port' = [port EXCEPT !["alice"] = [port["alice"] EXCEPT
                                          !.reply_data_table = port["alice"].reply_data_table \ {no}]]
          \/ port' = Closed(port, "alice")
      BY <1>6, <1>a, <1>g DEF HandlePublicIp, Port
    <3>3. CASE port' = Closed(port, "alice")
      BY <3>3, <1>g, <1>d
    <3>4. CASE \E no : port' = [port EXCEPT !["alice"] = [port["alice"] EXCEPT
                                          !.reply_data_table = port["alice"].reply_data_table \ {no}]]
      <4>1. PICK no : port' = [port EXCEPT !["alice"] = [port["alice"] EXCEPT
                                          !.reply_data_table = port["alice"].reply_data_table \ {no}]]
        BY <3>4
      <4> DEFINE q == [port["alice"] EXCEPT !.reply_data_table = port["alice"].reply_data_table \ {no}]
      <4>2. q \in Port /\ port' = [port EXCEPT !["alice"] = q]
        BY <3>1, <4>1
      <4> HIDE DEF q
      <4> QED
        BY <4>2, <1>a
    <3> QED
      BY <3>2, <3>3, <3>4
  <2>3. todo' \in [Thread -> Seq(Step)] /\ thread' \in [Thread -> States]
    <3>1. Do("now_ready") \in Step /\ Ended({"AliceLink"}) \in [Thread -> States]
      BY <1>c, <1>h, StepParts
    <3>2. /\ todo' = todo \/ todo' = [todo EXCEPT !["AliceLink"] = <<Do("now_ready")>>]
          /\ thread' = thread \/ thread' = Ended({"AliceLink"})
      BY <1>6, Ends DEF HandlePublicIp, Then
    <3> QED
      BY <3>1, <3>2, <1>a, <1>f
  <2> QED
    BY <1>6, <1>a, <1>g, <1>h, <2>1, <2>2, <2>3 DEF HandlePublicIp, LinkTypes, locks, time, others
<1>7. CASE \E e \in End : ProcessAck(e)
  <2>1. PICK e \in End : ProcessAck(e)
    BY <1>7
  <2>2. wire' \in [End -> Seq(Msg)]
    BY <2>1, <1>a, <1>g, <1>h, WireIs DEF ProcessAck, Receives, Arrives
  <2>3. port' \in [End -> Port]
    <3>1. \A no \in Outstanding(port[e]) : Acked(port[e], no) \in Port
      BY <1>a, <1>g, <1>h, AckedIs DEF Tables
    <3>2. port' = port \/ \E no \in Outstanding(port[e]) : port' = [port EXCEPT ![e] = Acked(port[e], no)]
      BY <2>1, <1>a DEF ProcessAck
    <3> QED
      BY <1>a, <3>1, <3>2
  <2>4. todo' \in [Thread -> Seq(Step)] /\ ack_lock' \in [End -> Thread \cup {Nobody}]
    <3>1. Do("protocol_error") \in Step
      BY StepParts
    <3>2. \/ todo' = todo /\ ack_lock' = ack_lock
          \/ /\ todo' = [todo EXCEPT ![Listener[e]] = <<Do("protocol_error")>>]
             /\ ack_lock' = Lock(ack_lock, Listener[e])
      BY <2>1 DEF ProcessAck, Then
    <3>3. <<Do("protocol_error")>> \in Seq(Step)
      BY <3>1
    <3>4. [todo EXCEPT ![Listener[e]] = <<Do("protocol_error")>>] \in [Thread -> Seq(Step)]
      BY <1>a, <3>3
    <3> QED
      <4>1. CASE todo' = todo /\ ack_lock' = ack_lock
        BY <4>1, <1>a
      <4>2. CASE /\ todo' = [todo EXCEPT ![Listener[e]] = <<Do("protocol_error")>>]
                 /\ ack_lock' = Lock(ack_lock, Listener[e])
        <5>1. Lock(ack_lock, Listener[e]) \in [End -> Thread \cup {Nobody}]
          BY <1>e, <1>g
        <5> QED
          BY <4>2, <5>1, <3>4
      <4> QED
        BY <3>2, <4>1, <4>2
  <2> QED
    BY <2>1, <1>a, <1>g, <1>h, <2>2, <2>3, <2>4 DEF ProcessAck, LinkTypes, time, others
<1>8. CASE \E e \in End : ProtocolError(e)
  <2>1. PICK e \in End : ProtocolError(e)
    BY <1>8
  <2> QED
    BY <2>1, <1>a, <1>g, <1>h, <1>c, <1>d DEF ProtocolError, LinkTypes, time, locks, others
<1>9. CASE \E e \in End : HandleAndAck(e)
  <2>1. PICK e \in End : HandleAndAck(e)
    BY <1>9
  <2>2. wire' \in [End -> Seq(Msg)] /\ Head(wire[e]) \in Msg
    BY <2>1, <1>a, <1>g, <1>h, WireIs DEF HandleAndAck, Receives, Arrives
  <2>3. todo' \in [Thread -> Seq(Step)]
    BY <2>1, <2>2, <1>a, <1>g, <1>h, <1>f, <1>j DEF HandleAndAck, Then
  <2> QED
    BY <2>1, <1>a, <1>g, <1>h, <2>2, <2>3 DEF HandleAndAck, LinkTypes, time, locks, others
<1>10. CASE \E e \in End : NowReady(e)
  <2>1. PICK e \in End : NowReady(e)
    BY <1>10
  <2>2. wire' \in [End -> Seq(Msg)]
    <3>1. Carried(Other(e), Message("error-bye", NoNumber, NoNumber)) \in [End -> Seq(Msg)]
      BY <1>a, <1>g, <1>i, CarriedIs
    <3> QED
      BY <2>1, <1>a, <1>g, <1>h, <3>1 DEF NowReady
  <2>3. port' \in [End -> Port]
    <3>1. Bailout(port[e]) \in Port
      <4>1. port[e] \in Port
        BY <1>a, <1>g
      <4>2. [port[e] EXCEPT !.bailing_out = TRUE, !.closed = TRUE] \in Port
        BY <4>1 DEF Port
      <4> QED
        BY <4>1, <4>2 DEF Bailout
    <3>2. [Bailout(port[e]) EXCEPT !.ready = TRUE] \in Port
      BY <3>1 DEF Port
    <3> QED
      BY <2>1, <1>a, <1>g, <1>h, <3>2 DEF NowReady
  <2>4. todo' \in [Thread -> Seq(Step)]
    BY <2>1, <1>g, TodoIs DEF NowReady, ToDo
  <2> QED
    BY <2>1, <1>a, <1>g, <1>h, <2>2, <2>3, <2>4 DEF NowReady, LinkTypes, time, locks, others
<1>11. CASE \E e \in End : HandleErrorBye(e) \/ HandleSignoff(e)
  <2>1. PICK e \in End : HandleErrorBye(e) \/ HandleSignoff(e)
    BY <1>11
  <2>2. wire' \in [End -> Seq(Msg)]
    BY <2>1, <1>a, <1>g, <1>h, WireIs DEF HandleErrorBye, HandleSignoff, Receives, Arrives
  <2> QED
    BY <2>1, <1>a, <1>g, <1>h, <1>d, <2>2 DEF HandleErrorBye, HandleSignoff, LinkTypes, time, locks, others
<1>12. CASE \E e \in End : ListenEnds(e)
  <2>1. PICK e \in End : ListenEnds(e)
    BY <1>12
  <2>2. wire' \in [End -> Seq(Msg)]
    BY <2>1, <1>a, <1>g, <1>h DEF ListenEnds
  <2>3. thread' \in [Thread -> States] /\ port' \in [End -> Port]
    BY <2>1, <1>g, <1>c, <1>d DEF ListenEnds
  <2> QED
    BY <2>1, <1>a, <2>2, <2>3 DEF ListenEnds, LinkTypes, time, locks, others
<1>13. CASE \E t \in Thread : SendPlain(t)
  <2>1. PICK t \in Thread : SendPlain(t)
    BY <1>13
  <2> DEFINE e == EndOf[t]
             m == Head(todo[t]).msg
  <2>2. todo[t] # <<>> /\ m \in Msg /\ e \in End /\ port[e] \in Port
    BY <2>1, <1>a, <1>g, <1>h, TodoIs, StepParts DEF SendPlain, ToDo
  <2>3. todo' \in [Thread -> Seq(Step)]
    BY <2>1, <2>2, TodoIs DEF SendPlain, Dumped
  <2>4. /\ WithNumber(port[e], m) \in Msg /\ Registered(port[e], m, e) \in Port
        /\ Clock[e] \in Nat
    BY <2>2, <1>a, <1>g, <1>h, RegisteredIs, Clocks
  <2>5. [Registered(port[e], m, e) EXCEPT !.last_sent = Clock[e]] \in Port
    BY <2>4 DEF Port
  <2>6. Carried(Other(e), WithNumber(port[e], m)) \in [End -> Seq(Msg)]
    BY <1>a, <1>g, <1>h, <2>2, <2>4, CarriedIs
  <2>7. wire' \in [End -> Seq(Msg)] /\ port' \in [End -> Port]
    BY <2>1, <1>a, <1>g, <1>h, <2>5, <2>6 DEF SendPlain, Dumped
  <2> QED
    BY <2>1, <1>a, <1>g, <1>h, <2>3, <2>7 DEF SendPlain, LinkTypes, time, locks, others
<1>14. CASE \E t \in Thread : SendLock(t)
  <2>1. PICK t \in Thread : SendLock(t)
    BY <1>14
  <2>2. todo[t] # <<>> /\ Head(todo[t]).msg \in Msg
    BY <2>1, TodoIs, StepParts DEF SendLock, ToDo
  <2>3. todo' \in [Thread -> Seq(Step)]
    BY <2>1, <2>2, <1>a, TodoIs, StepParts DEF SendLock
  <2> QED
    BY <2>1, <1>a, <1>g, <1>h, <1>e, <2>3 DEF SendLock, LinkTypes, time, others
<1>15. CASE \E t \in Thread : SendRegister(t)
  <2>1. PICK t \in Thread : SendRegister(t)
    BY <1>15
  <2> DEFINE e == EndOf[t]
             m == Head(todo[t]).msg
  <2>2. todo[t] # <<>> /\ m \in Msg /\ e \in End /\ port[e] \in Port
    BY <2>1, <1>a, <1>g, <1>h, TodoIs, StepParts DEF SendRegister, ToDo
  <2>3. WithNumber(port[e], m) \in Msg /\ Registered(port[e], m, e) \in Port
    BY <2>2, <1>a, <1>g, <1>h, RegisteredIs
  <2>4. todo' \in [Thread -> Seq(Step)]
    BY <2>1, <2>2, <2>3, TodoIs, StepParts DEF SendRegister
  <2>5. port' \in [End -> Port]
    BY <2>1, <1>a, <1>g, <1>h, <2>3 DEF SendRegister
  <2> QED
    BY <2>1, <1>a, <1>g, <1>h, <2>4, <2>5 DEF SendRegister, LinkTypes, time, locks, others
<1>16. CASE \E t \in Thread : SendDump(t)
  <2>1. PICK t \in Thread : SendDump(t)
    BY <1>16
  <2>2. todo[t] # <<>> /\ Head(todo[t]).msg \in Msg /\ EndOf[t] \in End
    BY <2>1, <1>g, TodoIs, StepParts DEF SendDump, ToDo
  <2>3. todo' \in [Thread -> Seq(Step)] /\ wire' \in [End -> Seq(Msg)]
    BY <2>1, <2>2, <1>a, <1>g, <1>h, TodoIs, CarriedIs DEF SendDump, Dumped
  <2>4. port' \in [End -> Port]
    <3>1. Clock[EndOf[t]] \in Nat
      BY <2>2, <1>a, Clocks
    <3>2. [port[EndOf[t]] EXCEPT !.last_sent = Clock[EndOf[t]]] \in Port
      BY <2>2, <3>1, <1>a, PortExcept
    <3>3. port' = [port EXCEPT ![EndOf[t]] = [port[EndOf[t]] EXCEPT !.last_sent = Clock[EndOf[t]]]]
      BY <2>1, <2>2, <1>a DEF SendDump
    <3> QED
      BY <3>2, <3>3, <2>2, <1>a
  <2> QED
    BY <2>1, <1>a, <1>g, <1>h, <1>e, <2>3, <2>4 DEF SendDump, LinkTypes, time, others
<1>17. CASE \E t \in Thread : SendFails(t)
  <2>1. PICK t \in Thread : SendFails(t)
    BY <1>17
  <2> QED
    BY <2>1, <1>a, <1>g, <1>h, <1>c, <1>d, <1>e DEF SendFails, LinkTypes, time, others
<1>18. CASE AliceSend
  <2>1. PICK x \in AliceSends :
           LET m == Message(x, NoNumber, NoNumber)
           IN  /\ wire' = Carried("server", WithNumber(port["alice"], m))
               /\ port' = [port EXCEPT !["alice"] = Registered(@, m, "alice")]
    BY <1>18 DEF AliceSend
  <2> DEFINE m == Message(x, NoNumber, NoNumber)
  <2>2. m \in Msg
    BY <1>b, MsgParts, OthersSend
  <2>3. WithNumber(port["alice"], m) \in Msg /\ Registered(port["alice"], m, "alice") \in Port
    BY <2>2, <1>a, <1>g, <1>h, RegisteredIs
  <2>4. wire' \in [End -> Seq(Msg)] /\ port' \in [End -> Port]
    BY <2>1, <2>3, <1>a, <1>g, <1>h, CarriedIs
  <2> QED
    BY <1>18, <1>a, <1>g, <1>h, <2>4 DEF AliceSend, LinkTypes, time, locks, others
<1>19. CASE AliceShutdown
  BY <1>19, <1>a, <1>g, <1>h, <1>f, <1>j DEF AliceShutdown, LinkTypes, time, locks, others, States
<1>20. CASE AliceExits
  <2>1. NewPort \in Port
    BY DEF NewPort, Port, Entries
  <2>2. Closed([port EXCEPT !["alice"] = NewPort], "alice") \in [End -> Port]
    BY <1>a, <1>g, <1>h, <2>1 DEF Closed, Port
  <2>3. wire' \in [End -> Seq(Msg)]
    BY <1>20, <1>a, <1>g, <1>h DEF AliceExits
  <2> QED
    BY <1>20, <1>a, <1>g, <1>h, <1>c, <2>2, <2>3 DEF AliceExits, LinkTypes, time, locks, others
<1>21. CASE PingerSend
  <2>1. todo' \in [Thread -> Seq(Step)]
    BY <1>21, <1>a, <1>g, <1>h, <1>b, <1>f, StepParts, OthersSend DEF PingerSend
  <2> QED
    BY <1>21, <1>a, <1>g, <1>h, <2>1 DEF PingerSend, LinkTypes, time, locks, others
<1>22. CASE CheckAckDeadlines
  <2>1. PICK n \in 0..Len(port["server"].ack_timeouts) :
           /\ Handles(port["server"].ack_timeouts, n)
           /\ \/ /\ ack_lock' = Lock(ack_lock, "checker")
                 /\ todo' = [todo EXCEPT !["checker"] = <<Do("bye")>>]
                 /\ UNCHANGED <<port, thread, given_up>>
              \/ /\ port' = [port EXCEPT !["server"] = Checked(port["server"], n)]
                 /\ given_up' = given_up \cup GivenUp(port["server"], n)
                 /\ thread' = thread \/ thread' = Ended({"checker"})
                 /\ UNCHANGED <<ack_lock, todo>>
    BY <1>22 DEF CheckAckDeadlines
  <2>2. Checked(port["server"], n) \in Port /\ GivenUp(port["server"], n) \subseteq Nat
    BY <2>1, <1>a, <1>g, <1>h, CheckedIs DEF Tables
  <2>3. /\ port' \in [End -> Port] /\ given_up' \subseteq Nat /\ thread' \in [Thread -> States]
        /\ todo' \in [Thread -> Seq(Step)] /\ ack_lock' \in [End -> Thread \cup {Nobody}]
    <3>1. /\ Do("bye") \in Step /\ Ended({"checker"}) \in [Thread -> States]
          /\ Lock(ack_lock, "checker") \in [End -> Thread \cup {Nobody}]
      BY <1>c, <1>e, <1>h, StepParts
    <3>2. <<Do("bye")>> \in Seq(Step)
      BY <3>1
    <3>3. [todo EXCEPT !["checker"] = <<Do("bye")>>] \in [Thread -> Seq(Step)]
      BY <1>a, <3>2
    <3>4. [port EXCEPT !["server"] = Checked(port["server"], n)] \in [End -> Port]
      BY <1>a, <2>2
    <3> QED
      BY <2>1, <2>2, <1>a, <3>1, <3>3, <3>4
  <2> QED
    BY <1>22, <1>a, <1>g, <1>h, <2>3 DEF CheckAckDeadlines, LinkTypes
<1>23. CASE Bye
  <2>1. PICK n \in 0..Len(port["server"].ack_timeouts) :
           /\ Handles(port["server"].ack_timeouts, n)
           /\ port' = [port EXCEPT !["server"] = [Checked(@, n) EXCEPT !.closed = TRUE]]
           /\ given_up' = given_up \cup GivenUp(port["server"], n)
    BY <1>23 DEF Bye
  <2>2. Checked(port["server"], n) \in Port /\ GivenUp(port["server"], n) \subseteq Nat
    BY <2>1, <1>a, <1>g, <1>h, CheckedIs DEF Tables
  <2>3. [Checked(port["server"], n) EXCEPT !.closed = TRUE] \in Port
    BY <2>2 DEF Port
  <2>4. port' \in [End -> Port] /\ given_up' \subseteq Nat
    BY <2>1, <2>2, <2>3, <1>a, <1>g, <1>h
  <2>5. todo' \in [Thread -> Seq(Step)]
    BY <1>23, <1>h, TodoIs DEF Bye, ToDo
  <2>6. thread' \in [Thread -> States] /\ ack_lock' \in [End -> Thread \cup {Nobody}]
    BY <1>23, <1>c, <1>e, <1>h DEF Bye
  <2> QED
    <3>1. wire' = wire /\ now' = now /\ checked' = checked /\ cut' = cut /\ status_lock' = status_lock
      BY <1>23 DEF Bye, time
    <3> QED
      BY <1>a, <2>4, <2>5, <2>6, <3>1 DEF LinkTypes
<1>24. CASE Tick
  <2>1. /\ now' = now + 1 /\ checked' = FALSE
        /\ UNCHANGED <<wire, cut, port, status_lock, ack_lock, thread, todo, given_up>>
    BY <1>24 DEF Tick, locks, others
  <2>2. now' \in Nat
    BY <1>a, <2>1
  <2>3. checked' \in BOOLEAN
    BY <2>1, Zenon
  <2> QED
    BY <1>a, <2>1, <2>2, <2>3 DEF LinkTypes
<1>25. CASE Cut
  BY <1>25, <1>a, <1>g, <1>h DEF Cut, LinkTypes, time, locks, others
<1>26. CASE UNCHANGED vars
  BY <1>26, <1>a, <1>g, <1>h DEF vars, LinkTypes, time, locks, others
<1> QED
  BY <1>1, <1>2, <1>3, <1>4, <1>5, <1>6, <1>7, <1>8, <1>9, <1>10, <1>11, <1>12, <1>13, <1>14,
     <1>15, <1>16, <1>17, <1>18, <1>19, <1>20, <1>21, <1>22, <1>23, <1>24, <1>25, <1>26
     DEF Next, Handshakes, Listens, Sends

-----------------------------------------------------------------------------
(* What threads have to do *)

\* What is left of the steps of a thread, or has become of them.
LEMMA MayDoIs ==
    ASSUME LinkTypes, Shapes, NEW t \in Thread
    PROVE  /\ MayDoAll(t, <<>>) /\ MayDoAll(t, todo[t])
           /\ todo[t] # <<>> => MayDoAll(t, Tail(todo[t]))
           /\ todo[t] # <<>> => MayDo(t, 1, Head(todo[t])) /\ Head(todo[t]) \in Step
           /\ \A x \in Step : MayDo(t, 1, x) => MayDoAll(t, <<x>>)
           /\ \A x \in Step : MayDo(t, 1, x) /\ todo[t] # <<>> => MayDoAll(t, <<x>> \o Tail(todo[t]))
<1>1. MayDoAll(t, <<>>) /\ MayDoAll(t, todo[t])
  BY DEF MayDoAll, Shapes
<1>2. ASSUME todo[t] # <<>>
      PROVE  MayDo(t, 1, Head(todo[t])) /\ Head(todo[t]) \in Step
  BY <1>1, <1>2, TodoIs DEF MayDoAll
<1>3. ASSUME todo[t] # <<>>
      PROVE  MayDoAll(t, Tail(todo[t]))
  <2> SUFFICES ASSUME NEW i \in DOMAIN Tail(todo[t])
               PROVE  MayDo(t, i, Tail(todo[t])[i])
    BY DEF MayDoAll
  <2>1. i \in Nat \ {0} /\ i + 1 \in DOMAIN todo[t] /\ Tail(todo[t])[i] = todo[t][i + 1]
    BY <1>3, TodoIs
  <2>2. MayDo(t, i + 1, todo[t][i + 1]) /\ i + 1 > 1 /\ i + 1 # 1
    BY <1>1, <2>1 DEF MayDoAll
  <2>3. todo[t][i + 1].do \in {"send", "now_ready"}
    BY <2>2 DEF MayDo
  <2> QED
    BY <2>1, <2>2, <2>3 DEF MayDo
<1>4. ASSUME NEW x \in Step, MayDo(t, 1, x)
      PROVE  MayDoAll(t, <<x>>)
  BY <1>4 DEF MayDoAll
<1>5. ASSUME NEW x \in Step, MayDo(t, 1, x), todo[t] # <<>>
      PROVE  MayDoAll(t, <<x>> \o Tail(todo[t]))
  <2> DEFINE r == <<x>> \o Tail(todo[t])
  <2>1. /\ DOMAIN r = 1..Len(todo[t]) /\ DOMAIN todo[t] = 1..Len(todo[t])
        /\ Len(todo[t]) \in Nat \ {0} /\ r[1] = x
        /\ \A i \in 2..Len(todo[t]) : r[i] = todo[t][i]
    BY <1>5, TodoIs, Replaced
  <2> HIDE DEF r
  <2> SUFFICES ASSUME NEW i \in DOMAIN r
               PROVE  MayDo(t, i, r[i])
    BY DEF MayDoAll, r
  <2>2. CASE i = 1
    BY <1>5, <2>1, <2>2
  <2>3. CASE i # 1
    <3>1. i \in 2..Len(todo[t]) /\ i \in DOMAIN todo[t]
      BY <2>1, <2>3
    <3> QED
      BY <1>1, <2>1, <3>1 DEF MayDoAll
  <2> QED
    BY <2>2, <2>3
<1> QED
  BY <1>1, <1>2, <1>3, <1>4, <1>5

\* A message to be sent that is neither an answer nor a reply.
LEMMA MaySendIt ==
    ASSUME NEW t \in Thread, NEW x \in Kind, x \notin Answer, x \notin IsReply
    PROVE  Send(x, NoNumber) \in Step /\ \A i : MayDo(t, i, Send(x, NoNumber))
<1>1. Send(x, NoNumber) \in Step /\ Send(x, NoNumber).do = "send" /\ Send(x, NoNumber).msg.type = x
  <2>1. NoNumber \in Number
    BY DEF Number
  <2> QED
    BY <2>1, StepParts
<1> QED
  BY <1>1 DEF MayDo

\* An answer of a listener.
LEMMA MayAnswer ==
    ASSUME NEW e \in End, NEW x \in Answer, NEW no \in Nat
    PROVE  Send(x, no) \in Step /\ MayDo(Listener[e], 1, Send(x, no))
<1>1. Send(x, no) \in Step /\ Send(x, no).do = "send" /\ Send(x, no).msg.type = x
      /\ Send(x, no).msg.reply_no = no
  BY StepParts, KindsAre DEF Number, Answer
<1> QED
  BY <1>1, Ends DEF MayDo

LEMMA ShapesNext ==
    ASSUME LinkTypes, Numbers, Shapes, Next
    PROVE  Shapes'
<1> SUFFICES ASSUME NEW t \in Thread
             PROVE  MayDoAll(t, todo'[t])
  BY DEF Shapes
<1>a. /\ MayDoAll(t, <<>>) /\ MayDoAll(t, todo[t])
      /\ todo[t] # <<>> => MayDoAll(t, Tail(todo[t])) /\ MayDo(t, 1, Head(todo[t]))
                           /\ Head(todo[t]) \in Step
      /\ \A x \in Step : MayDo(t, 1, x) => MayDoAll(t, <<x>>)
      /\ \A x \in Step : MayDo(t, 1, x) /\ todo[t] # <<>> => MayDoAll(t, <<x>> \o Tail(todo[t]))
  BY MayDoIs
<1>b. /\ todo \in [Thread -> Seq(Step)] /\ "Alice" \in Thread /\ "AliceLink" \in Thread
      /\ "pinger" \in Thread /\ "checker" \in Thread
      /\ \A e \in End : Listener[e] \in Thread
  BY Ends DEF LinkTypes
<1>c. \A x \in {"my-ip", "signoff", "new-members"} : Send(x, NoNumber) \in Step /\ \A i : MayDo(t, i, Send(x, NoNumber))
  BY MaySendIt, Kinds, KindsAre
<1>d. \A T \in SUBSET Thread : Dropped(T)[t] \in {<<>>, todo[t]}
  BY DEF Dropped
<1>e. \A u \in Thread : Done(u)[t] \in {Tail(todo[t]), todo[t]} /\ (t # u => Done(u)[t] = todo[t])
  BY <1>b DEF Done
<1>f. /\ Do("now_ready") \in Step /\ Do("protocol_error") \in Step /\ Do("bye") \in Step
      /\ \A e \in End : \A i : t = Listener[e] => MayDo(t, i, Do("now_ready")) /\ MayDo(t, 1, Do("protocol_error"))
      /\ t = "checker" => MayDo(t, 1, Do("bye"))
  <2>1. \A x \in {"now_ready", "protocol_error", "bye"} : Do(x) \in Step /\ Do(x).do = x
    BY StepParts
  <2> QED
    BY <2>1, Ends DEF MayDo
<1>1. CASE todo' = todo
  BY <1>1, <1>a
<1>2. CASE \E T \in SUBSET Thread : todo' = Dropped(T)
  BY <1>2, <1>a, <1>d
<1>3. CASE \E u \in Thread : todo[u] # <<>> /\ todo' = Done(u)
  BY <1>3, <1>a, <1>e
<1>4. CASE \E u \in Thread, x \in Step : (t = u => MayDo(u, 1, x)) /\ todo' = [todo EXCEPT ![u] = <<x>>]
  BY <1>4, <1>a, <1>b
<1>5. CASE \E u \in Thread, x \in Step :
              (t = u => MayDo(u, 1, x)) /\ todo[u] # <<>> /\ todo' = Replace(u, x)
  BY <1>5, <1>a, <1>b DEF Replace
<1>6. CASE ServerHandshake \/ HandshakeReset \/ AliceSend \/ Tick \/ Cut
           \/ \E e \in End : HandshakeFails(e) \/ HandleErrorBye(e) \/ HandleSignoff(e) \/ ListenEnds(e)
  BY <1>6, <1>1 DEF ServerHandshake, HandshakeReset, AliceSend, Tick, Cut, HandshakeFails,
     HandleErrorBye, HandleSignoff, ListenEnds
<1>7. CASE AliceExits \/ (\E e \in End : ProtocolError(e)) \/ (\E u \in Thread : SendFails(u))
  BY <1>7, <1>b, <1>2 DEF AliceExits, ProtocolError, SendFails
<1>8. CASE Bye \/ (\E e \in End : NowReady(e)) \/ (\E u \in Thread : SendDump(u) \/ SendPlain(u))
  BY <1>8, <1>b, <1>3 DEF Bye, NowReady, SendDump, SendPlain, Dumped, ToDo
<1>9. CASE AliceHandshake \/ AliceShutdown
  <2>1. \/ todo' = [todo EXCEPT !["AliceLink"] = <<Send("my-ip", NoNumber)>>]
        \/ todo' = [todo EXCEPT !["Alice"] = <<Send("signoff", NoNumber)>>]
    BY <1>9 DEF AliceHandshake, AliceShutdown
  <2>2. CASE todo' = [todo EXCEPT !["AliceLink"] = <<Send("my-ip", NoNumber)>>]
    BY <2>2, <1>b, <1>c, <1>4
  <2>3. CASE todo' = [todo EXCEPT !["Alice"] = <<Send("signoff", NoNumber)>>]
    BY <2>3, <1>b, <1>c, <1>4
  <2> QED
    BY <2>1, <2>2, <2>3
<1>10. CASE PingerSend
  <2>1. PICK x \in PingerSends : todo' = [todo EXCEPT !["pinger"] = <<Send(x, NoNumber)>>]
    BY <1>10 DEF PingerSend
  <2>2. Send(x, NoNumber) \in Step /\ MayDo(t, 1, Send(x, NoNumber))
    BY OthersSend, MaySendIt
  <2> QED
    BY <2>1, <2>2, <1>b, <1>4
<1>11. CASE CheckAckDeadlines
  <2>1. todo' = todo \/ todo' = [todo EXCEPT !["checker"] = <<Do("bye")>>]
    BY <1>11 DEF CheckAckDeadlines
  <2> QED
    BY <2>1, <1>b, <1>f, <1>1, <1>4
<1>12. CASE \E e \in End : ProcessAck(e)
  <2>1. PICK e \in End : todo' = todo \/ todo' = [todo EXCEPT ![Listener[e]] = <<Do("protocol_error")>>]
    BY <1>12 DEF ProcessAck, Then
  <2> QED
    BY <2>1, <1>b, <1>f, <1>1, <1>4
<1>13. CASE HandlePublicIp
  <2>1. todo' = todo \/ todo' = [todo EXCEPT ![Listener["alice"]] = <<Do("now_ready")>>]
    BY <1>13 DEF HandlePublicIp, Then
  <2>2. "alice" \in End
    BY Ends
  <2> QED
    BY <2>1, <2>2, <1>b, <1>f, <1>1, <1>4
<1>14. CASE \E e \in End : HandleAndAck(e)
  <2>1. PICK e \in End : HandleAndAck(e)
    BY <1>14
  <2>2. Head(wire[e]).no \in Nat
    <3>1. wire[e] # <<>> /\ Head(wire[e]).type \in {"ping", "error-cont", "new-members"}
      BY <2>1 DEF HandleAndAck, Receives, Arrives
    <3>2. Head(wire[e]).type \in Numbered
      BY <3>1, Kinds
    <3> QED
      BY <3>1, <3>2, WireIs DEF Numbers, Right
  <2>3. /\ Send("ack", Head(wire[e]).no) \in Step
        /\ MayDo(Listener[e], 1, Send("ack", Head(wire[e]).no))
    BY <2>2, MayAnswer, Kinds
  <2> QED
    BY <2>1, <2>3, <1>b, <1>4 DEF HandleAndAck, Then
<1>15. CASE HandleMyIp
  <2>1. /\ wire["server"] # <<>> /\ Head(wire["server"]).type = "my-ip"
        /\ todo' = [todo EXCEPT ![Listener["server"]] =
                       <<Send("public-ip", Head(wire["server"]).no),
                         Send("new-members", NoNumber), Do("now_ready")>>]
    BY <1>15 DEF HandleMyIp, Receives, Arrives, Then
  <2>2. Head(wire["server"]).no \in Nat
    BY <2>1, Ends, WireIs, Kinds DEF Numbers, Right
  <2>3. MayDo(Listener["server"], 1, Send("public-ip", Head(wire["server"]).no))
    BY <2>2, MayAnswer, Kinds, Ends
  <2>4. CASE t # Listener["server"]
    BY <2>1, <2>4, <1>a, <1>b
  <2>5. CASE t = Listener["server"]
    <3> DEFINE x == Send("public-ip", Head(wire["server"]).no)
               y == Send("new-members", NoNumber)
               z == Do("now_ready")
    <3>1. todo'[t] = <<x, y, z>>
      BY <2>1, <2>5, <1>b
    <3>2. MayDo(t, 1, x) /\ MayDo(t, 2, y) /\ MayDo(t, 3, z)
      BY <2>3, <2>5, <1>c, <1>f, Ends
    <3> HIDE DEF x, y, z
    <3> QED
      BY <3>1, <3>2 DEF MayDoAll
  <2> QED
    BY <2>4, <2>5
<1>16. CASE \E u \in Thread : SendLock(u) \/ SendRegister(u)
  <2>1. PICK u \in Thread : SendLock(u) \/ SendRegister(u)
    BY <1>16
  <2> DEFINE e == EndOf[u]
             m == Head(todo[u]).msg
  <2>2. todo[u] # <<>> /\ MayDo(u, 1, Head(todo[u])) /\ Head(todo[u]) \in Step
    BY <2>1, MayDoIs DEF SendLock, SendRegister, ToDo
  <2>3. Head(todo[u]).do \in {"send", "register"} /\ m.type \in ExpectsAck
    BY <2>1, <2>2 DEF SendLock, SendRegister, ToDo, MayDo
  <2>4. m \in Msg /\ e \in End /\ port[e] \in Port
    BY <2>2, <2>3, StepParts, Ends DEF LinkTypes
  <2>5. WithNumber(port[e], m) \in Msg /\ WithNumber(port[e], m).type = m.type
        /\ WithNumber(port[e], m).no \in Nat /\ WithNumber(port[e], m).reply_no = m.reply_no
    <3>1. now \in Nat /\ m.type \in Numbered /\ port[e].sequence_no \in Nat
      BY <2>3, <2>4, PortParts, Kinds DEF LinkTypes
    <3> HIDE DEF m, e
    <3> QED
      BY <2>4, <3>1, RegisteredIs
  <2>6. m.type \notin Answer /\ m.type \notin IsReply
    BY <2>2, <2>3, Kinds DEF MayDo
  <2>7. \A n \in Msg : /\ Register(n) \in Step /\ Dump(n) \in Step
                       /\ Register(n).do = "register" /\ Register(n).msg = n
                       /\ Dump(n).do = "dump" /\ Dump(n).msg = n
    BY StepParts DEF Register, Dump
  <2>8. MayDo(u, 1, Register(m)) /\ MayDo(u, 1, Dump(WithNumber(port[e], m)))
    <3> HIDE DEF m, e
    <3> QED
      BY <2>3, <2>4, <2>5, <2>6, <2>7 DEF MayDo
  <2>9. CASE SendLock(u)
    BY <2>2, <2>4, <2>7, <2>8, <2>9, <1>3, <1>5 DEF SendLock
  <2>10. CASE SendRegister(u)
    BY <2>2, <2>5, <2>7, <2>8, <2>10, <1>5 DEF SendRegister
  <2> QED
    BY <2>1, <2>9, <2>10
<1> QED
  BY <1>6, <1>7, <1>8, <1>9, <1>10, <1>11, <1>12, <1>13, <1>14, <1>15, <1>16
     DEF Next, Handshakes, Listens, Sends

-----------------------------------------------------------------------------
(* Steps that neither send nor handle a message with a number or an answer *)

Plain(m) == m.type \notin Numbered /\ m.type \notin Answer /\ m.type \notin IsReply

PlainStep(e) ==
    \/ wire'[e] \in {wire[e], <<>>}
    \/ wire[e] # <<>> /\ wire'[e] = Tail(wire[e])
    \/ \E m \in Msg : Plain(m) /\ wire'[e] = Append(wire[e], m)

\* The tables of an end stay as they are.
SameTables(e) ==
    /\ port'[e].ack_timeouts = port[e].ack_timeouts /\ port'[e].expected = port[e].expected
    /\ port'[e].sequence_no = port[e].sequence_no
    /\ port'[e].reply_data_table = port[e].reply_data_table

\* Steps to do that are not about a message that is to be dumped or an answer.
Harmless(s) ==
    s # <<>> => Head(s).do # "dump" /\ (Head(s).do = "send" => Head(s).msg.type \notin Answer)

HarmlessStep(t) == todo'[t] = todo[t] \/ Harmless(todo'[t])

Tame ==
    \/ Handshakes
    \/ \E e \in End : ProtocolError(e) \/ NowReady(e) \/ HandleErrorBye(e) \/ HandleSignoff(e)
                      \/ ListenEnds(e)
    \/ \E t \in Thread : SendLock(t) \/ SendFails(t)
    \/ AliceShutdown \/ PingerSend \/ Tick \/ Cut \/ UNCHANGED vars

\* What a port is when it is closed.
LEMMA ClosedIs ==
    ASSUME port \in [End -> Port], NEW e \in End, NEW x \in End
    PROVE  LET q == Closed(port, e)[x]
           IN  /\ q.ack_timeouts = port[x].ack_timeouts /\ q.expected = port[x].expected
               /\ q.sequence_no = port[x].sequence_no
               /\ q.reply_data_table = port[x].reply_data_table
               /\ port[x].closed \/ x = e => q.closed
               /\ x # e => q = port[x]
               /\ q.closed => port[x].closed \/ x = e
BY DEF Closed, Port

LEMMA TamePort ==
    ASSUME LinkTypes, Tame, NEW e \in End
    PROVE  SameTables(e) /\ (port[e].closed => port'[e].closed)
<1>0. "alice" \in End /\ "server" \in End /\ port \in [End -> Port]
  BY Ends DEF LinkTypes
<1>1. CASE port' = port
  BY <1>1 DEF SameTables
<1>2. CASE \E x \in End : port' = Closed(port, x)
  BY <1>2, <1>0, ClosedIs DEF SameTables
<1>3. CASE Handshakes
  BY <1>3, <1>0, <1>1, <1>2
     DEF Handshakes, ServerHandshake, AliceHandshake, HandshakeReset, HandshakeFails
<1>4. CASE \E x \in End : ProtocolError(x) \/ HandleErrorBye(x) \/ HandleSignoff(x) \/ ListenEnds(x)
  BY <1>4, <1>2 DEF ProtocolError, HandleErrorBye, HandleSignoff, ListenEnds
<1>5. CASE \E x \in End : NowReady(x)
  <2>1. PICK x \in End : port' = [port EXCEPT ![x] = [Bailout(port[x]) EXCEPT !.ready = TRUE]]
    BY <1>5 DEF NowReady
  <2> QED
    BY <2>1, <1>0 DEF Bailout, SameTables, Port
<1>6. CASE \E t \in Thread : SendLock(t) \/ SendFails(t)
  BY <1>6, <1>1, <1>2, Ends DEF SendLock, SendFails
<1>7. CASE AliceShutdown \/ PingerSend \/ Tick \/ Cut \/ UNCHANGED vars
  BY <1>7, <1>1 DEF AliceShutdown, PingerSend, Tick, Cut, vars
<1> QED
  BY <1>3, <1>4, <1>5, <1>6, <1>7 DEF Tame

LEMMA TameWire ==
    ASSUME LinkTypes, Tame, NEW e \in End
    PROVE  PlainStep(e)
<1>0. /\ "alice" \in End /\ "server" \in End /\ wire \in [End -> Seq(Msg)]
      /\ Other("alice") = "server" /\ Other("server") = "alice" /\ e \in {"alice", "server"}
  BY Ends DEF LinkTypes
<1>1. \A x \in {"Switzerland", "Incompatible", "error-bye"} :
         Message(x, NoNumber, NoNumber) \in Msg /\ Plain(Message(x, NoNumber, NoNumber))
  <2> SUFFICES ASSUME NEW x \in {"Switzerland", "Incompatible", "error-bye"}
               PROVE  Message(x, NoNumber, NoNumber) \in Msg /\ Plain(Message(x, NoNumber, NoNumber))
    OBVIOUS
  <2>1. x \in Kind /\ NoNumber \in Number
    BY KindsAre DEF Number
  <2>2. Message(x, NoNumber, NoNumber) \in Msg /\ Message(x, NoNumber, NoNumber).type = x
    BY <2>1, MsgParts
  <2>3. x \notin Numbered /\ x \notin Answer /\ x \notin IsReply
    BY Kinds
  <2> QED
    BY <2>2, <2>3 DEF Plain
<1>2. CASE wire' = wire
  BY <1>2 DEF PlainStep
<1>3. CASE \E x \in End : wire[x] # <<>> /\ wire' = [wire EXCEPT ![x] = Tail(@)]
  BY <1>3, <1>0 DEF PlainStep
<1>4. CASE ServerHandshake
  <2> DEFINE m == Message(IF compatible THEN "Switzerland" ELSE "Incompatible", NoNumber, NoNumber)
  <2>1. /\ wire["server"] # <<>> /\ m \in Msg /\ Plain(m)
        /\ wire' = [Carried("alice", m) EXCEPT !["server"] = Tail(@)]
    BY <1>4, <1>1 DEF ServerHandshake, Arrives
  <2> HIDE DEF m
  <2>2. /\ Carried("alice", m) \in [End -> Seq(Msg)]
        /\ Carried("alice", m)["server"] = wire["server"]
        /\ Carried("alice", m)["alice"] \in {wire["alice"], Append(wire["alice"], m)}
    BY <2>1, <1>0, CarriedIs
  <2>3. /\ wire'["server"] = Tail(wire["server"])
        /\ wire'["alice"] = Carried("alice", m)["alice"]
    BY <2>1, <2>2, <1>0
  <2> QED
    BY <1>0, <2>1, <2>2, <2>3 DEF PlainStep
<1>5. CASE AliceHandshake \/ \E x \in End : HandleErrorBye(x) \/ HandleSignoff(x)
  BY <1>5, <1>0, <1>3 DEF AliceHandshake, HandleErrorBye, HandleSignoff, Receives, Arrives
<1>6. CASE \E x \in End : NowReady(x)
  <2> DEFINE m == Message("error-bye", NoNumber, NoNumber)
  <2>1. PICK x \in End : wire' = wire \/ wire' = Carried(x, m)
    BY <1>6, Ends DEF NowReady
  <2>2. m \in Msg /\ Plain(m)
    BY <1>1
  <2> HIDE DEF m
  <2>3. e = x \/ e = Other(x)
    BY Ends
  <2>4. /\ Carried(x, m)[Other(x)] = wire[Other(x)]
        /\ Carried(x, m)[x] \in {wire[x], Append(wire[x], m)}
    BY <1>0, <2>2, CarriedIs
  <2> QED
    BY <2>1, <2>2, <2>3, <2>4 DEF PlainStep
<1>7. CASE Cut \/ \E x \in End : ListenEnds(x)
  BY <1>7, <1>0 DEF Cut, ListenEnds, PlainStep
<1>8. CASE HandshakeReset \/ AliceShutdown \/ PingerSend \/ Tick \/ UNCHANGED vars
           \/ (\E x \in End : ProtocolError(x) \/ HandshakeFails(x))
           \/ (\E t \in Thread : SendLock(t) \/ SendFails(t))
  BY <1>8, <1>2 DEF HandshakeReset, AliceShutdown, PingerSend, Tick, vars, ProtocolError,
     HandshakeFails, SendLock, SendFails
<1> QED
  BY <1>4, <1>5, <1>6, <1>7, <1>8 DEF Tame, Handshakes

\* The steps that come after the first.
LEMMA Later ==
    ASSUME LinkTypes, Shapes, NEW t \in Thread, todo[t] # <<>>
    PROVE  /\ Tail(todo[t]) # <<>> => Head(Tail(todo[t])).do \in {"send", "now_ready"}
           /\ Harmless(Tail(todo[t]))
<1> SUFFICES ASSUME Tail(todo[t]) # <<>>
             PROVE  /\ Head(Tail(todo[t])).do \in {"send", "now_ready"}
                    /\ Harmless(Tail(todo[t]))
  BY DEF Harmless
<1>1. /\ Tail(todo[t]) \in Seq(Step) /\ \A i \in DOMAIN Tail(todo[t]) :
           i + 1 \in DOMAIN todo[t] /\ Tail(todo[t])[i] = todo[t][i + 1]
  BY TodoIs
<1>2. Head(Tail(todo[t])) = Tail(todo[t])[1] /\ 1 \in DOMAIN Tail(todo[t])
  BY <1>1, Tailed
<1>3. MayDo(t, 2, Head(Tail(todo[t])))
  BY <1>1, <1>2 DEF Shapes, MayDoAll
<1> QED
  BY <1>3 DEF MayDo, Harmless

LEMMA TameTodo ==
    ASSUME LinkTypes, Shapes, Tame, NEW t \in Thread
    PROVE  HarmlessStep(t)
<1>0. /\ todo \in [Thread -> Seq(Step)] /\ "Alice" \in Thread /\ "AliceLink" \in Thread
      /\ "pinger" \in Thread /\ \A e \in End : Listener[e] \in Thread
  BY Ends DEF LinkTypes
<1>1. CASE todo' = todo
  BY <1>1 DEF HarmlessStep
<1>2. CASE \E T \in SUBSET Thread : todo' = Dropped(T)
  BY <1>2 DEF Dropped, HarmlessStep, Harmless
<1>3. CASE \E u \in Thread : todo[u] # <<>> /\ todo' = Done(u)
  BY <1>3, <1>0, Later DEF HarmlessStep, Done
<1>4. CASE \E u \in Thread, x \in Kind : x \notin Answer /\ todo' = [todo EXCEPT ![u] = <<Send(x, NoNumber)>>]
  <2>1. PICK u \in Thread, x \in Kind : x \notin Answer /\ todo' = [todo EXCEPT ![u] = <<Send(x, NoNumber)>>]
    BY <1>4
  <2>2. Send(x, NoNumber).do = "send" /\ Send(x, NoNumber).msg.type = x
    BY StepParts DEF Number
  <2>3. Harmless(<<Send(x, NoNumber)>>)
    BY <2>1, <2>2 DEF Harmless
  <2> QED
    BY <1>0, <2>1, <2>3 DEF HarmlessStep
<1>5. CASE AliceHandshake \/ AliceShutdown
  <2>1. \/ todo' = [todo EXCEPT !["AliceLink"] = <<Send("my-ip", NoNumber)>>]
        \/ todo' = [todo EXCEPT !["Alice"] = <<Send("signoff", NoNumber)>>]
    BY <1>5 DEF AliceHandshake, AliceShutdown
  <2>2. "my-ip" \in Kind /\ "my-ip" \notin Answer /\ "signoff" \in Kind /\ "signoff" \notin Answer
    BY Kinds, KindsAre
  <2> QED
    BY <1>0, <1>4, <2>1, <2>2
<1>6. CASE PingerSend
  <2>1. PICK x \in PingerSends : todo' = [todo EXCEPT !["pinger"] = <<Send(x, NoNumber)>>]
    BY <1>6 DEF PingerSend
  <2> QED
    BY <1>0, <1>4, <2>1, OthersSend
<1>7. CASE \E u \in Thread : SendLock(u)
  <2>1. PICK u \in Thread : SendLock(u)
    BY <1>7
  <2>2. todo[u] # <<>> /\ (todo' = Done(u) \/ \E m : todo' = Replace(u, Register(m)))
    BY <2>1 DEF SendLock, ToDo
  <2>3. CASE todo' = Done(u)
    BY <2>2, <2>3, <1>3
  <2>4. CASE \E m : todo' = Replace(u, Register(m))
    <3>1. PICK m : todo' = Replace(u, Register(m))
      BY <2>4
    <3>2. Register(m).do = "register"
      BY DEF Register
    <3>3. todo'[t] = todo[t] \/ (todo'[t] = <<Register(m)>> \o Tail(todo[t]) /\ t = u)
      BY <3>1, <1>0 DEF Replace
    <3>4. t = u => Head(<<Register(m)>> \o Tail(todo[t])) = Register(m)
      <4>1. t = u => Tail(todo[t]) \in Seq(Step)
        BY <2>2, TodoIs
      <4> QED
        BY <4>1
    <3> QED
      BY <3>2, <3>3, <3>4 DEF HarmlessStep, Harmless
  <2> QED
    BY <2>2, <2>3, <2>4
<1>8. CASE \E e \in End : NowReady(e)
  BY <1>8, <1>0, <1>3 DEF NowReady, ToDo
<1>9. CASE (\E e \in End : ProtocolError(e)) \/ \E u \in Thread : SendFails(u)
  BY <1>9, <1>0, <1>2 DEF ProtocolError, SendFails
<1>10. CASE ServerHandshake \/ HandshakeReset \/ Tick \/ Cut \/ UNCHANGED vars
            \/ \E e \in End : HandshakeFails(e) \/ HandleErrorBye(e) \/ HandleSignoff(e) \/ ListenEnds(e)
  BY <1>10, <1>1 DEF ServerHandshake, HandshakeReset, Tick, Cut, vars, HandshakeFails,
     HandleErrorBye, HandleSignoff, ListenEnds
<1> QED
  BY <1>5, <1>6, <1>7, <1>8, <1>9, <1>10 DEF Tame, Handshakes

-----------------------------------------------------------------------------
(* Messages on their way *)

\* This message may follow those of s.
Fits(m, s) ==
    /\ m.type \in Numbered => /\ m.no \in Nat
                              /\ \A q \in Elements(s) : q.type \in Numbered => q.no < m.no
    /\ m.type \in Answer => /\ m.reply_no \in Nat
                            /\ \A a \in Elements(s) : a.type \in Answer => a.reply_no < m.reply_no
    /\ m.type \in IsReply => m.type \in Answer

\* Messages that are taken from, or added to, those on their way.
LEMMA RestInOrder ==
    ASSUME NEW s \in Seq(Msg), Right(s), Increasing(s), s # <<>>
    PROVE  /\ Right(Tail(s)) /\ Increasing(Tail(s))
           /\ \A m \in Elements(Tail(s)) :
                 /\ Head(s).type \in Numbered /\ m.type \in Numbered => Head(s).no < m.no
                 /\ Head(s).type \in Answer /\ m.type \in Answer => Head(s).reply_no < m.reply_no
<1> DEFINE r == Tail(s)
<1>1. /\ Len(s) \in Nat \ {0} /\ DOMAIN s = 1..Len(s) /\ DOMAIN r = 1..(Len(s) - 1)
      /\ \A i \in 1..(Len(s) - 1) : r[i] = s[i + 1]
      /\ Head(s) = s[1]
  BY Tailed
<1> HIDE DEF r
<1>2. \A i \in DOMAIN r : i \in Nat /\ i + 1 \in DOMAIN s /\ r[i] = s[i + 1] /\ 1 < i + 1 /\ 1 \in DOMAIN s
  BY <1>1
<1>3. Right(r)
  BY <1>2 DEF Right
<1>4. Increasing(r)
  <2> SUFFICES ASSUME NEW i \in DOMAIN r, NEW j \in DOMAIN r, i < j
               PROVE  /\ r[i].type \in Numbered /\ r[j].type \in Numbered => r[i].no < r[j].no
                      /\ r[i].type \in Answer /\ r[j].type \in Answer => r[i].reply_no < r[j].reply_no
    BY DEF Increasing
  <2>1. /\ i + 1 \in DOMAIN s /\ j + 1 \in DOMAIN s /\ i + 1 < j + 1
        /\ r[i] = s[i + 1] /\ r[j] = s[j + 1]
    BY <1>2
  <2> QED
    BY <2>1 DEF Increasing
<1>5. \A i \in DOMAIN r :
         /\ s[1].type \in Numbered /\ r[i].type \in Numbered => s[1].no < r[i].no
         /\ s[1].type \in Answer /\ r[i].type \in Answer => s[1].reply_no < r[i].reply_no
  <2> SUFFICES ASSUME NEW i \in DOMAIN r
               PROVE  /\ s[1].type \in Numbered /\ r[i].type \in Numbered => s[1].no < r[i].no
                      /\ s[1].type \in Answer /\ r[i].type \in Answer => s[1].reply_no < r[i].reply_no
    OBVIOUS
  <2>1. i + 1 \in DOMAIN s /\ 1 \in DOMAIN s /\ 1 < i + 1 /\ r[i] = s[i + 1]
    BY <1>2
  <2> QED
    BY <2>1 DEF Increasing
<1> QED
  BY <1>1, <1>3, <1>4, <1>5 DEF r, Elements

LEMMA FittingInOrder ==
    ASSUME NEW s \in Seq(Msg), Right(s), Increasing(s), NEW m \in Msg, Fits(m, s)
    PROVE  Right(Append(s, m)) /\ Increasing(Append(s, m))
<1> DEFINE r == Append(s, m)
<1>1. /\ Len(s) \in Nat /\ DOMAIN s = 1..Len(s) /\ DOMAIN r = 1..(Len(s) + 1)
      /\ \A i \in 1..Len(s) : r[i] = s[i]
      /\ r[Len(s) + 1] = m
  BY Appended
<1> HIDE DEF r
<1>2. \A i \in DOMAIN r : \/ i \in DOMAIN s /\ r[i] = s[i] /\ s[i] \in Elements(s)
                          \/ i = Len(s) + 1 /\ r[i] = m
  BY <1>1 DEF Elements
<1>3. Right(r)
  BY <1>2 DEF Right, Fits
<1>4. Increasing(r)
  <2> SUFFICES ASSUME NEW i \in DOMAIN r, NEW j \in DOMAIN r, i < j
               PROVE  /\ r[i].type \in Numbered /\ r[j].type \in Numbered => r[i].no < r[j].no
                      /\ r[i].type \in Answer /\ r[j].type \in Answer => r[i].reply_no < r[j].reply_no
    BY DEF Increasing
  <2>1. i \in DOMAIN s /\ r[i] = s[i] /\ s[i] \in Elements(s)
    BY <1>1, <1>2
  <2>2. CASE j \in DOMAIN s
    <3>1. r[j] = s[j]
      BY <1>1, <2>2
    <3> QED
      BY <2>1, <2>2, <3>1 DEF Increasing
  <2>3. CASE j = Len(s) + 1 /\ r[j] = m
    BY <2>1, <2>3 DEF Fits
  <2> QED
    BY <1>2, <2>2, <2>3
<1> QED
  BY <1>3, <1>4 DEF r

WireStep(e) ==
    \/ wire'[e] \in {wire[e], <<>>}
    \/ wire[e] # <<>> /\ wire'[e] = Tail(wire[e])
    \/ \E m \in Msg : Fits(m, wire[e]) /\ wire'[e] = Append(wire[e], m)

LEMMA PlainFits ==
    ASSUME NEW e \in End, PlainStep(e)
    PROVE  WireStep(e)
BY DEF PlainStep, WireStep, Plain, Fits

LEMMA OrderStays ==
    ASSUME LinkTypes, Numbers, InOrder, \A e \in End : WireStep(e)
    PROVE  Numbers' /\ InOrder'
<1> SUFFICES ASSUME NEW e \in End
             PROVE  Right(wire'[e]) /\ Increasing(wire'[e])
  BY DEF Numbers, InOrder
<1>1. wire[e] \in Seq(Msg) /\ Right(wire[e]) /\ Increasing(wire[e])
  BY DEF LinkTypes, Numbers, InOrder
<1>2. Right(<<>>) /\ Increasing(<<>>)
  BY DEF Right, Increasing
<1> QED
  BY <1>1, <1>2, RestInOrder, FittingInOrder DEF WireStep

\* The numbers of questions and answers are numbers.
LEMMA NumbersAre ==
    ASSUME LinkTypes, Numbers, Shapes, NEW e \in End
    PROVE  /\ \A q \in Questions(e) \cup Dumping(e) : q \in Msg /\ q.no \in Nat /\ q.type \in Numbered
           /\ \A d \in Dumping(e) : d.type \in ExpectsAck
           /\ \A a \in Answers(e) \cup Answering(e) : a \in Msg /\ a.reply_no \in Nat /\ a.type \in Answer
<1>1. Other(e) \in End /\ Listener[Other(e)] \in Thread
  BY Ends
<1>2. \A q \in Questions(e) : q \in Msg /\ q.no \in Nat /\ q.type \in Numbered
  BY <1>1 DEF Questions, Elements, Numbers, Right, LinkTypes
<1>3. \A a \in Answers(e) : a \in Msg /\ a.reply_no \in Nat /\ a.type \in Answer
  BY DEF Answers, Elements, Numbers, Right, LinkTypes
<1>4. \A d \in Dumping(e) : d \in Msg /\ d.no \in Nat /\ d.type \in ExpectsAck
  <2> SUFFICES ASSUME NEW t \in Thread, ToDo(t, "dump")
               PROVE  LET d == Head(todo[t]).msg
                      IN  d \in Msg /\ d.no \in Nat /\ d.type \in ExpectsAck
    BY DEF Dumping
  <2>1. MayDo(t, 1, Head(todo[t])) /\ Head(todo[t]) \in Step /\ Head(todo[t]).do = "dump"
    BY MayDoIs DEF ToDo
  <2> QED
    BY <2>1, StepParts DEF MayDo
<1>5. \A a \in Answering(e) : a \in Msg /\ a.reply_no \in Nat /\ a.type \in Answer
  <2> DEFINE t == Listener[Other(e)]
  <2> SUFFICES ASSUME ToDo(t, "send"), Head(todo[t]).msg.type \in Answer
               PROVE  LET a == Head(todo[t]).msg
                      IN  a \in Msg /\ a.reply_no \in Nat /\ a.type \in Answer
    BY DEF Answering
  <2>1. MayDo(t, 1, Head(todo[t])) /\ Head(todo[t]) \in Step /\ Head(todo[t]).do = "send"
    BY <1>1, MayDoIs DEF ToDo
  <2> QED
    BY <2>1, StepParts DEF MayDo
<1> QED
  BY <1>2, <1>3, <1>4, <1>5, Kinds

\* A thread of a process that has ended has nothing to do.
LEMMA GoneIdles ==
    ASSUME Idlers, NEW t \in Thread, todo[t] # <<>>
    PROVE  ~Gone(EndOf[t])
BY Ends DEF Idlers, Gone, EndOf

\* To a process that has ended nothing is carried.
LEMMA GoneUnread ==
    ASSUME Idlers, NEW e \in End, Gone(e)
    PROVE  Unread[e]
BY Ends DEF Idlers, Gone, Unread

\* Whoever is about to dump has the lock, so that nobody else is sending.
LEMMA DumpingIs ==
    ASSUME Locked, NEW e \in End
    PROVE  /\ status_lock[e] = Nobody => Dumping(e) = {}
           /\ \A t \in Thread : EndOf[t] = e /\ MayLock(status_lock, t) /\ ~ToDo(t, "dump") => Dumping(e) = {}
           /\ \A t \in Thread : EndOf[t] = e /\ ToDo(t, "dump") => Dumping(e) = {Head(todo[t]).msg}
<1>1. \A t \in Thread : EndOf[t] = e /\ ToDo(t, "dump") => status_lock[e] = t
  BY DEF Locked, ToDo
<1>2. Nobody \notin Thread
  BY Ends
<1>3. \A t \in Thread : EndOf[t] = e /\ MayLock(status_lock, t) => status_lock[e] \in {Nobody, t}
  BY DEF MayLock
<1> QED
  BY <1>1, <1>2, <1>3 DEF Dumping

\* A message that is sent, at once or when it has been registered, fits.
LEMMA SentFits ==
    ASSUME LinkTypes, Numbers, Shapes, Idlers, Locked, Chain, NEW t \in Thread, SendPlain(t) \/ SendDump(t),
           NEW e \in End
    PROVE  WireStep(e)
<1> DEFINE x == EndOf[t]
           m == Head(todo[t]).msg
           w == IF SendDump(t) THEN m ELSE WithNumber(port[x], m)
<1>1. /\ todo[t] # <<>> /\ Head(todo[t]) \in Step /\ MayDo(t, 1, Head(todo[t]))
      /\ Head(todo[t]).do = IF SendDump(t) THEN "dump" ELSE "send"
  BY MayDoIs DEF SendPlain, SendDump, ToDo
<1>2. /\ m \in Msg /\ x \in End /\ Other(x) \in End /\ Other(Other(x)) = x /\ port[x] \in Port
      /\ e = x \/ e = Other(x)
  <2>1. m \in Msg
    BY <1>1, StepParts
  <2>2. x \in End
    BY Ends
  <2> HIDE DEF x
  <2>3. Other(x) \in End /\ Other(Other(x)) = x /\ (e = x \/ e = Other(x))
    BY <2>2, Ends
  <2> QED
    BY <2>1, <2>2, <2>3 DEF LinkTypes
<1>3. /\ w \in Msg /\ w.type = m.type /\ w.reply_no = m.reply_no
      /\ ~SendDump(t) /\ m.type \in Numbered => w.no = port[x].sequence_no
  BY <1>2, RegisteredIs DEF LinkTypes
<1>4. wire' = wire \/ wire' = Carried(Other(x), w)
  <2>1. CASE SendDump(t)
    BY <2>1 DEF SendDump, Dumped
  <2>2. CASE ~SendDump(t)
    BY <2>2 DEF SendPlain, Dumped
  <2> QED
    BY <2>1, <2>2
<1>5. ~Gone(x) /\ Chained(x)
  BY <1>1, <1>2, GoneIdles DEF Chain
<1>6. Unread[Other(x)] \/ Fits(w, wire[Other(x)])
  <2>1. m.type \in Numbered => /\ w.no \in Nat
                               /\ \A q \in Elements(wire[Other(x)]) : q.type \in Numbered => q.no < w.no
    <3>1. CASE SendDump(t)
      <4>1. m \in Dumping(x) /\ w = m
        BY <1>2, <3>1 DEF SendDump, Dumping
      <4>2. m.no \in Nat
        BY <1>2, <4>1, NumbersAre
      <4> HIDE DEF m, w, x
      <4> QED
        BY <1>5, <4>1, <4>2 DEF Chained, Questions
    <3>2. CASE ~SendDump(t)
      <4>1. port[x].sequence_no \in Nat
        BY <1>2, PortParts
      <4> HIDE DEF m, w, x
      <4> QED
        BY <1>3, <1>5, <3>2, <4>1 DEF Chained, Questions
    <3> QED
      BY <3>1, <3>2
  <2>2. ASSUME m.type \in Answer, ~Unread[Other(x)]
        PROVE  /\ w.reply_no \in Nat
               /\ \A a \in Elements(wire[Other(x)]) : a.type \in Answer => a.reply_no < w.reply_no
    <3>1. Head(todo[t]).do = "send" /\ t = Listener[x] /\ m.reply_no \in Nat
      BY <1>1, <2>2 DEF MayDo
    <3>2. m \in Answering(Other(x))
      BY <1>1, <1>2, <2>2, <3>1 DEF Answering, ToDo
    <3>3. Chained(Other(x))
      BY <1>2, <2>2, GoneUnread DEF Chain
    <3> HIDE DEF m, w, x
    <3> QED
      BY <1>3, <3>1, <3>2, <3>3 DEF Chained, Answers
  <2>3. m.type \in IsReply => m.type \in Answer
    BY <1>1 DEF MayDo
  <2> HIDE DEF m, w, x
  <2> QED
    BY <1>3, <2>1, <2>2, <2>3 DEF Fits
<1>7. /\ Carried(Other(x), w)[x] = wire[x]
      /\ Carried(Other(x), w)[Other(x)] \in {wire[Other(x)], Append(wire[Other(x)], w)}
      /\ Unread[Other(x)] => Carried(Other(x), w)[Other(x)] = wire[Other(x)]
  <2> HIDE DEF w, x
  <2>1. wire \in [End -> Seq(Msg)]
    BY DEF LinkTypes
  <2> DEFINE y == Other(x)
  <2>2. /\ Carried(y, w)[Other(y)] = wire[Other(y)]
        /\ Carried(y, w)[y] \in {wire[y], Append(wire[y], w)}
        /\ Unread[y] => Carried(y, w)[y] = wire[y]
    <3>1. y \in End /\ w \in Msg
      BY <1>2, <1>3
    <3> HIDE DEF y
    <3> QED
      BY <2>1, <3>1, CarriedIs
  <2> QED
    BY <2>2, <1>2
<1> HIDE DEF w, x
<1> QED
  BY <1>2, <1>3, <1>4, <1>6, <1>7 DEF WireStep

LEMMA AliceSendFits ==
    ASSUME LinkTypes, Numbers, Shapes, Locked, Chain, AliceSend, NEW e \in End
    PROVE  WireStep(e)
<1> DEFINE p == port["alice"]
<1>1. PICK x \in AliceSends :
         LET m == Message(x, NoNumber, NoNumber)
         IN  wire' = Carried("server", WithNumber(p, m))
  BY DEF AliceSend
<1> DEFINE m == Message(x, NoNumber, NoNumber)
           w == WithNumber(p, m)
<1>2. m \in Msg /\ m.type = x /\ x \notin Answer /\ x \notin IsReply
  <2>1. NoNumber \in Number /\ x \in Kind
    BY OthersSend DEF Number
  <2> QED
    BY <2>1, MsgParts, OthersSend
<1>3. p \in Port /\ p.sequence_no \in Nat /\ now \in Nat /\ "alice" \in End
  BY Ends, PortParts DEF LinkTypes
<1>4. w \in Msg /\ w.type = x /\ (x \in Numbered => w.no = p.sequence_no)
  <2> HIDE DEF p, m
  <2> QED
    BY <1>2, <1>3, RegisteredIs
<1>5. Chained("alice")
  BY Ends DEF AliceSend, Chain, Gone
<1>6. Fits(w, wire["server"])
  <2> HIDE DEF w
  <2> QED
    BY <1>2, <1>3, <1>4, <1>5, Ends DEF Fits, Chained, Questions
<1> HIDE DEF w
<1>7. /\ Carried("server", w)["alice"] = wire["alice"]
      /\ Carried("server", w)["server"] \in {wire["server"], Append(wire["server"], w)}
  BY <1>4, CarriedIs, Ends DEF LinkTypes
<1>8. wire' = Carried("server", w)
  BY <1>1 DEF w
<1>9. CASE e = "alice"
  BY <1>7, <1>8, <1>9 DEF WireStep
<1>10. CASE e = "server"
  BY <1>4, <1>6, <1>7, <1>8, <1>10 DEF WireStep
<1> QED
  BY <1>9, <1>10, Ends

LEMMA WireNext ==
    ASSUME LinkTypes, Numbers, Shapes, Idlers, Locked, Chain, [Next]_vars, NEW e \in End
    PROVE  WireStep(e)
<1>0. wire \in [End -> Seq(Msg)] /\ "alice" \in End /\ "server" \in End
  BY Ends DEF LinkTypes
<1>1. CASE Tame
  BY <1>1, TameWire, PlainFits
<1>2. CASE \E x \in End : wire[x] # <<>> /\ wire' = [wire EXCEPT ![x] = Tail(@)]
  BY <1>2, <1>0 DEF WireStep
<1>3. CASE HandleMyIp \/ HandlePublicIp \/ \E x \in End : ProcessAck(x) \/ HandleAndAck(x)
  BY <1>3, <1>2, <1>0 DEF HandleMyIp, HandlePublicIp, ProcessAck, HandleAndAck, Receives, Arrives
<1>4. CASE \E t \in Thread : SendPlain(t) \/ SendDump(t)
  BY <1>4, SentFits
<1>5. CASE AliceSend
  BY <1>5, AliceSendFits
<1>6. CASE AliceExits \/ CheckAckDeadlines \/ Bye \/ \E t \in Thread : SendRegister(t)
  BY <1>6, <1>0 DEF AliceExits, CheckAckDeadlines, Bye, SendRegister, WireStep
<1> QED
  BY <1>1, <1>3, <1>4, <1>5, <1>6 DEF Next, Listens, Sends, Tame

-----------------------------------------------------------------------------
(* Locks *)

\* Steps for which a thread need not have a lock already.
Lockless(s) == s # <<>> => Head(s).do \in {"send", "now_ready"}

LEMMA LocklessSteps ==
    ASSUME LinkTypes, Shapes, Locked, UNCHANGED locks,
           \A t \in Thread : todo'[t] = todo[t] \/ Lockless(todo'[t])
    PROVE  Locked'
<1>1. \A e \in End : status_lock'[e] # Nobody => EndOf[status_lock'[e]] = e
  BY DEF Locked, locks
<1>2. ASSUME NEW t \in Thread, todo'[t] # <<>>
      PROVE  /\ Head(todo'[t]).do \in {"register", "dump"} => status_lock'[EndOf[t]] = t
             /\ Head(todo'[t]).do \in {"protocol_error", "bye"} => ack_lock'[EndOf[t]] = t
  <2>1. CASE todo'[t] = todo[t]
    BY <1>2, <2>1 DEF Locked, locks
  <2>2. CASE Lockless(todo'[t])
    BY <1>2, <2>2 DEF Lockless
  <2> QED
    BY <2>1, <2>2
<1> QED
  BY <1>1, <1>2 DEF Locked

LEMMA LockedNext ==
    ASSUME LinkTypes, Shapes, Locked, Next
    PROVE  Locked'
<1>0. /\ todo \in [Thread -> Seq(Step)]
      /\ status_lock \in [End -> Thread \cup {Nobody}] /\ ack_lock \in [End -> Thread \cup {Nobody}]
      /\ "Alice" \in Thread /\ "AliceLink" \in Thread /\ "pinger" \in Thread /\ "checker" \in Thread
      /\ EndOf["checker"] = "server" /\ "server" \in End /\ Nobody \notin Thread
      /\ \A t \in Thread : EndOf[t] \in End
      /\ \A e \in End : Listener[e] \in Thread /\ EndOf[Listener[e]] = e
  BY Ends DEF LinkTypes
<1>a. /\ \A e \in End : status_lock[e] # Nobody => EndOf[status_lock[e]] = e
      /\ \A t \in Thread : todo[t] # <<>> =>
            /\ Head(todo[t]).do \in {"register", "dump"} => status_lock[EndOf[t]] = t
            /\ Head(todo[t]).do \in {"protocol_error", "bye"} => ack_lock[EndOf[t]] = t
  BY DEF Locked
<1>b. \A t \in Thread : todo[t] # <<>> => Lockless(Tail(todo[t]))
  BY Later DEF Lockless
<1>1. CASE UNCHANGED <<todo, locks>>
  BY <1>1, LocklessSteps
<1>2. CASE UNCHANGED locks /\ \E T \in SUBSET Thread : todo' = Dropped(T)
  BY <1>2, LocklessSteps DEF Dropped, Lockless
<1>3. CASE UNCHANGED locks /\ \E t \in Thread : todo[t] # <<>> /\ todo' = Done(t)
  BY <1>0, <1>b, <1>3, LocklessSteps DEF Done
<1>4. CASE UNCHANGED locks /\ \E t \in Thread : \E s : Lockless(s) /\ todo' = [todo EXCEPT ![t] = s]
  BY <1>0, <1>4, LocklessSteps
<1>5. /\ \A x, y, u, v, w : Lockless(<<Send(x, y)>>) /\ Lockless(<<Send(x, y), v, w>>)
      /\ Lockless(<<Do("now_ready")>>)
  <2>1. \A a, b, c : Head(<<a>>) = a /\ Head(<<a, b, c>>) = a
    OBVIOUS
  <2>2. \A x, y : Send(x, y).do = "send" /\ Do(x).do = x
    BY DEF Send, Do
  <2> QED
    BY <2>1, <2>2 DEF Lockless
<1>6. CASE ServerHandshake \/ HandshakeReset \/ AliceSend \/ Tick \/ Cut
           \/ \E e \in End : HandshakeFails(e) \/ HandleErrorBye(e) \/ HandleSignoff(e) \/ ListenEnds(e)
  BY <1>6, <1>1 DEF ServerHandshake, HandshakeReset, AliceSend, Tick, Cut, HandshakeFails,
     HandleErrorBye, HandleSignoff, ListenEnds
<1>7. CASE AliceExits \/ \E e \in End : ProtocolError(e)
  BY <1>7, <1>0, <1>2 DEF AliceExits, ProtocolError
<1>8. CASE (\E e \in End : NowReady(e)) \/ (\E t \in Thread : SendPlain(t))
  BY <1>8, <1>0, <1>3 DEF NowReady, SendPlain, Dumped, ToDo
<1>9. CASE AliceHandshake \/ AliceShutdown \/ PingerSend \/ HandleMyIp
  <2>1. UNCHANGED locks
    BY <1>9 DEF AliceHandshake, AliceShutdown, PingerSend, HandleMyIp
  <2>2. \E t \in Thread : \E x, y, v, w :
           \/ todo' = [todo EXCEPT ![t] = <<Send(x, y)>>]
           \/ todo' = [todo EXCEPT ![t] = <<Send(x, y), v, w>>]
    <3>1. CASE AliceHandshake
      BY <3>1, <1>0 DEF AliceHandshake
    <3>2. CASE AliceShutdown
      BY <3>2, <1>0 DEF AliceShutdown
    <3>3. CASE PingerSend
      <4>1. PICK x \in PingerSends : todo' = [todo EXCEPT !["pinger"] = <<Send(x, NoNumber)>>]
        BY <3>3 DEF PingerSend
      <4> QED
        BY <4>1, <1>0
    <3>4. CASE HandleMyIp
      BY <3>4, <1>0 DEF HandleMyIp, Then
    <3> QED
      BY <1>9, <3>1, <3>2, <3>3, <3>4
  <2> QED
    BY <2>1, <2>2, <1>4, <1>5
<1>10. CASE HandlePublicIp \/ \E e \in End : HandleAndAck(e)
  <2>1. CASE HandlePublicIp
    <3>1. UNCHANGED locks /\ (todo' = todo \/ todo' = [todo EXCEPT ![Listener["alice"]] = <<Do("now_ready")>>])
      BY <2>1 DEF HandlePublicIp, Then
    <3>2. Listener["alice"] \in Thread
      BY Ends
    <3> QED
      BY <3>1, <3>2, <1>1, <1>4, <1>5
  <2>2. CASE \E e \in End : HandleAndAck(e)
    <3>1. UNCHANGED locks /\ \E e \in End : \E y : todo' = [todo EXCEPT ![Listener[e]] = <<Send("ack", y)>>]
      BY <2>2 DEF HandleAndAck, Then
    <3> QED
      BY <3>1, <1>0, <1>4, <1>5
  <2> QED
    BY <1>10, <2>1, <2>2
<1>11. CASE \E t \in Thread : SendLock(t)
  <2>1. PICK t \in Thread : SendLock(t)
    BY <1>11
  <2>2. todo[t] # <<>>
    BY <2>1 DEF SendLock, ToDo
  <2>3. CASE UNCHANGED locks /\ todo' = Done(t)
    BY <2>2, <2>3, <1>3
  <2>4. CASE /\ status_lock' = Lock(status_lock, t) /\ ack_lock' = ack_lock
             /\ \E m : todo' = Replace(t, Register(m))
    <3>1. PICK m : todo' = Replace(t, Register(m))
      BY <2>4
    <3>2. /\ todo'[t] = <<Register(m)>> \o Tail(todo[t]) /\ \A u \in Thread \ {t} : todo'[u] = todo[u]
      BY <3>1, <1>0 DEF Replace
    <3>3. Head(todo'[t]).do = "register"
      <4>1. Tail(todo[t]) \in Seq(Step)
        BY <2>2, TodoIs
      <4> QED
        BY <3>2, <4>1 DEF Register
    <3>4. status_lock[EndOf[t]] \in {Nobody, t}
      BY <2>1 DEF SendLock, MayLock
    <3>5. status_lock' = [status_lock EXCEPT ![EndOf[t]] = t]
      BY <2>4 DEF Lock
    <3>6. \A e \in End : status_lock'[e] # Nobody => EndOf[status_lock'[e]] = e
      BY <1>0, <1>a, <3>5
    <3>7. \A u \in Thread : todo'[u] # <<>> /\ Head(todo'[u]).do \in {"register", "dump"}
                                => status_lock'[EndOf[u]] = u
      BY <1>0, <1>a, <3>2, <3>4, <3>5
    <3>8. \A u \in Thread : todo'[u] # <<>> /\ Head(todo'[u]).do \in {"protocol_error", "bye"}
                                => ack_lock'[EndOf[u]] = u
      BY <1>a, <2>4, <3>2, <3>3
    <3> QED
      BY <3>6, <3>7, <3>8 DEF Locked
  <2> QED
    BY <2>1, <2>3, <2>4 DEF SendLock, locks
<1>12. CASE \E t \in Thread : SendRegister(t)
  <2>1. PICK t, m : t \in Thread /\ ToDo(t, "register") /\ todo' = Replace(t, Dump(m)) /\ UNCHANGED locks
    BY <1>12 DEF SendRegister
  <2>2. todo[t] # <<>> /\ Head(todo[t]).do = "register" /\ status_lock[EndOf[t]] = t
    BY <2>1, <1>a DEF ToDo
  <2>3. /\ todo'[t] = <<Dump(m)>> \o Tail(todo[t]) /\ \A u \in Thread \ {t} : todo'[u] = todo[u]
    BY <2>1, <1>0 DEF Replace
  <2>4. Head(todo'[t]).do = "dump"
    <3>1. Tail(todo[t]) \in Seq(Step)
      BY <2>1, <2>2, TodoIs
    <3> QED
      BY <2>3, <3>1 DEF Dump
  <2>5. status_lock' = status_lock /\ ack_lock' = ack_lock
    BY <2>1 DEF locks
  <2> QED
    BY <1>0, <1>a, <2>2, <2>3, <2>4, <2>5 DEF Locked
<1>13. CASE \E t \in Thread : SendDump(t) \/ SendFails(t)
  <2>1. PICK t \in Thread : SendDump(t) \/ SendFails(t)
    BY <1>13
  <2>2. /\ status_lock' = [status_lock EXCEPT ![EndOf[t]] = Nobody] /\ ack_lock' = ack_lock
        /\ status_lock[EndOf[t]] \in {Nobody, t}
    BY <2>1, <1>a DEF SendDump, SendFails, Unlock, MayLock, ToDo
  <2>3. Lockless(todo'[t]) /\ \A u \in Thread \ {t} : todo'[u] = todo[u]
    <3>1. CASE SendDump(t)
      BY <3>1, <1>0, <1>b DEF SendDump, Dumped, Done, ToDo
    <3>2. CASE SendFails(t)
      BY <3>2 DEF SendFails, Dropped, Lockless
    <3> QED
      BY <2>1, <3>1, <3>2
  <2>4. ASSUME NEW e \in End, status_lock'[e] # Nobody
        PROVE  EndOf[status_lock'[e]] = e
    <3>1. status_lock'[e] = status_lock[e]
      BY <1>0, <2>2, <2>4
    <3> QED
      BY <1>a, <2>4, <3>1
  <2>5. ASSUME NEW u \in Thread, todo'[u] # <<>>
        PROVE  /\ Head(todo'[u]).do \in {"register", "dump"} => status_lock'[EndOf[u]] = u
               /\ Head(todo'[u]).do \in {"protocol_error", "bye"} => ack_lock'[EndOf[u]] = u
    <3>1. CASE u = t
      BY <2>3, <2>5, <3>1 DEF Lockless
    <3>2. CASE u # t
      <4>1. todo'[u] = todo[u]
        BY <2>3, <3>2
      <4>2. status_lock[EndOf[u]] = u => status_lock'[EndOf[u]] = u
        <5>1. EndOf[u] = EndOf[t] => status_lock[EndOf[u]] # u
          BY <1>0, <2>2, <3>2
        <5> QED
          BY <1>0, <2>2, <5>1
      <4> QED
        BY <1>a, <2>2, <2>5, <4>1, <4>2
    <3> QED
      BY <3>1, <3>2
  <2> QED
    BY <2>4, <2>5 DEF Locked
<1>14. CASE \/ \E e \in End : ProcessAck(e)
            \/ CheckAckDeadlines
  <2>1. \/ UNCHANGED <<todo, locks>>
        \/ \E t \in Thread, x \in {"protocol_error", "bye"} :
              /\ MayLock(ack_lock, t) /\ ack_lock' = Lock(ack_lock, t)
              /\ status_lock' = status_lock /\ todo' = [todo EXCEPT ![t] = <<Do(x)>>]
    <3>1. CASE CheckAckDeadlines
      BY <3>1, <1>0 DEF CheckAckDeadlines, locks
    <3>2. CASE \E e \in End : ProcessAck(e)
      BY <3>2, <1>0 DEF ProcessAck, locks, Then
    <3> QED
      BY <1>14, <3>1, <3>2
  <2>2. CASE \E t \in Thread, x \in {"protocol_error", "bye"} :
              /\ MayLock(ack_lock, t) /\ ack_lock' = Lock(ack_lock, t)
              /\ status_lock' = status_lock /\ todo' = [todo EXCEPT ![t] = <<Do(x)>>]
    <3>1. PICK t \in Thread, x \in {"protocol_error", "bye"} :
              /\ MayLock(ack_lock, t) /\ ack_lock' = Lock(ack_lock, t)
              /\ status_lock' = status_lock /\ todo' = [todo EXCEPT ![t] = <<Do(x)>>]
      BY <2>2
    <3>2. Head(<<Do(x)>>).do = x
      BY DEF Do
    <3> QED
      BY <1>0, <1>a, <3>1, <3>2 DEF Locked, Lock, MayLock
  <2> QED
    BY <2>1, <2>2, <1>1
<1>15. CASE Bye
  <2>1. /\ ToDo("checker", "bye") /\ todo' = Done("checker") /\ status_lock' = status_lock
        /\ ack_lock' = [ack_lock EXCEPT !["server"] = Nobody]
    BY <1>15, <1>0 DEF Bye, Unlock
  <2>2. ack_lock["server"] = "checker" /\ Lockless(todo'["checker"])
    BY <2>1, <1>0, <1>a, <1>b DEF ToDo, Done
  <2>3. \A u \in Thread \ {"checker"} : todo'[u] = todo[u]
    BY <2>1, <1>0 DEF Done
  <2>4. \A e \in End : status_lock'[e] # Nobody => EndOf[status_lock'[e]] = e
    BY <1>a, <2>1
  <2>5. \A u \in Thread : todo'[u] # <<>> /\ Head(todo'[u]).do \in {"register", "dump"}
                              => status_lock'[EndOf[u]] = u
    BY <1>a, <2>1, <2>2, <2>3 DEF Lockless
  <2>6. \A u \in Thread : todo'[u] # <<>> /\ Head(todo'[u]).do \in {"protocol_error", "bye"}
                              => ack_lock'[EndOf[u]] = u
    <3> SUFFICES ASSUME NEW u \in Thread, todo'[u] # <<>>,
                        Head(todo'[u]).do \in {"protocol_error", "bye"}
                 PROVE  ack_lock'[EndOf[u]] = u
      OBVIOUS
    <3>1. u # "checker"
      BY <2>2 DEF Lockless
    <3>2. ack_lock[EndOf[u]] = u
      BY <1>a, <2>3, <3>1
    <3>3. EndOf[u] # "server"
      BY <2>2, <3>1, <3>2
    <3> QED
      BY <1>0, <2>1, <3>2, <3>3
  <2> QED
    BY <2>4, <2>5, <2>6 DEF Locked
<1> QED
  BY <1>6, <1>7, <1>8, <1>9, <1>10, <1>11, <1>12, <1>13, <1>14, <1>15
     DEF Next, Handshakes, Listens, Sends

-----------------------------------------------------------------------------
(* Who may have anything to do *)

\* Only a listener that listens has anything to do.
LEMMA ListenersIdle ==
    ASSUME LinkTypes, Shapes, Idlers, Next, NEW e \in End, thread'[Listener[e]] # "listening"
    PROVE  todo'[Listener[e]] = <<>>
<1> DEFINE l == Listener[e]
<1>0. /\ todo \in [Thread -> Seq(Step)] /\ thread \in [Thread -> States] /\ l \in Thread
      /\ l # "Alice" /\ l # "pinger" /\ l # "checker"
      /\ "Alice" \in Thread /\ "pinger" \in Thread /\ "checker" \in Thread
      /\ "AliceLink" \in Thread /\ "SwitzerlandLink" \in Thread
      /\ \A x \in End : Listener[x] \in Thread /\ (Listener[x] = l => x = e)
      /\ Listener["alice"] = "AliceLink" /\ Listener["server"] = "SwitzerlandLink"
      /\ "alice" \in End /\ "server" \in End
  BY DEF LinkTypes, Thread, Listener, End
<1>a. thread[l] # "listening" => todo[l] = <<>>
  BY DEF Idlers
<1>b. /\ \A T \in SUBSET Thread : Dropped(T)[l] \in {<<>>, todo[l]} /\ (l \in T => Dropped(T)[l] = <<>>)
      /\ \A T \in SUBSET Thread : l \notin T => Ended(T)[l] = thread[l]
  BY <1>0 DEF Dropped, Ended
<1>c. \A t \in Thread : t # l => Done(t)[l] = todo[l]
  BY <1>0 DEF Done
<1>d. \A t \in Thread : \A x : t # l => Replace(t, x)[l] = todo[l]
  BY <1>0 DEF Replace
<1>s. SUFFICES ASSUME todo[l] = <<>> \/ thread'[l] # thread[l]
               PROVE  todo'[l] = <<>>
  BY <1>a
<1> HIDE DEF l
<1>1. CASE todo'[l] = todo[l] /\ todo[l] = <<>>
  BY <1>1
<1>2. CASE ServerHandshake \/ HandshakeReset \/ \E x \in End : HandshakeFails(x)
  <2>1. todo' = todo /\ (todo[l] = <<>> \/ thread[l] = "handshake" \/ thread'[l] = thread[l])
    <3>1. CASE ServerHandshake
      BY <3>1, <1>0 DEF ServerHandshake, Shaking, Ended
    <3>2. CASE HandshakeReset
      BY <3>2, <1>0 DEF HandshakeReset, Shaking
    <3>3. CASE \E x \in End : HandshakeFails(x)
      BY <3>3, <1>0 DEF HandshakeFails, Shaking, Ended
    <3> QED
      BY <1>2, <3>1, <3>2, <3>3
  <2> QED
    BY <2>1, <1>a, <1>s
<1>3. CASE AliceHandshake
  <2>1. CASE l = "AliceLink"
    BY <1>3, <2>1, <1>0 DEF AliceHandshake, l
  <2>2. CASE l # "AliceLink"
    BY <1>3, <2>2, <1>0, <1>s DEF AliceHandshake
  <2> QED
    BY <2>1, <2>2
<1>4. CASE HandlePublicIp
  <2>1. CASE l = "AliceLink"
    <3>1. Listening("alice") /\ (thread' = thread \/ todo' = todo)
      BY <1>4 DEF HandlePublicIp, Receives
    <3>2. thread[l] = "listening" /\ todo[l] = <<>>
      BY <2>1, <3>1, <1>0 DEF Listening
    <3> QED
      BY <3>1, <3>2 DEF l
  <2>2. CASE l # "AliceLink"
    <3>1. /\ todo' = todo \/ \E s : todo' = [todo EXCEPT !["AliceLink"] = s]
          /\ thread' = thread \/ thread' = Ended({"AliceLink"})
      BY <1>4, <1>0 DEF HandlePublicIp, Then
    <3> QED
      BY <2>2, <3>1, <1>0, <1>s DEF Ended
  <2> QED
    BY <2>1, <2>2
<1>5. CASE HandleMyIp \/ \E x \in End : HandleAndAck(x) \/ ProcessAck(x)
  <2>1. PICK x \in End : /\ thread' = thread /\ Listening(x)
                         /\ todo' = todo \/ \E s : todo' = [todo EXCEPT ![Listener[x]] = s]
    <3>1. CASE HandleMyIp
      BY <3>1, <1>0 DEF HandleMyIp, Receives, Then
    <3>2. CASE \E x \in End : HandleAndAck(x)
      BY <3>2 DEF HandleAndAck, Receives, Then
    <3>3. CASE \E x \in End : ProcessAck(x)
      BY <3>3 DEF ProcessAck, Receives, Then
    <3> QED
      BY <1>5, <3>1, <3>2, <3>3
  <2>2. CASE Listener[x] = l
    BY <2>1, <2>2 DEF l, Listening
  <2>3. CASE Listener[x] # l
    BY <2>1, <2>3, <1>0, <1>s
  <2> QED
    BY <2>2, <2>3
<1>6. CASE \E x \in End : ListenEnds(x)
  <2>1. PICK x \in End : ListenEnds(x)
    BY <1>6
  <2>2. todo' = todo /\ thread' = Ended({Listener[x]}) /\ todo[Listener[x]] = <<>>
    BY <2>1 DEF ListenEnds, Listening
  <2> QED
    BY <2>2, <1>0, <1>b, <1>s
<1>7. CASE (\E x \in End : ProtocolError(x)) \/ AliceExits
  <2>1. PICK T \in SUBSET Thread : todo' = Dropped(T) /\ thread' = Ended(T)
    BY <1>7, <1>0 DEF ProtocolError, AliceExits
  <2> QED
    BY <2>1, <1>b, <1>s
<1>8. CASE \E t \in Thread : SendFails(t)
  <2>1. PICK t \in Thread : /\ todo' = Dropped({t}) 
                            /\ thread' = Ended({t}) \/ thread' = thread
    BY <1>8 DEF SendFails
  <2> QED
    BY <2>1, <1>b, <1>s
<1>9. CASE (\E x \in End : NowReady(x)) \/ \E t \in Thread : SendPlain(t) \/ SendLock(t) \/ SendRegister(t) \/ SendDump(t)
  <2>1. PICK t \in Thread : /\ thread' = thread /\ todo[t] # <<>>
                            /\ todo' = Done(t) \/ \E x : todo' = Replace(t, x)
    BY <1>9, <1>0 DEF NowReady, SendPlain, SendLock, SendRegister, SendDump, Dumped, ToDo
  <2> QED
    BY <2>1, <1>0, <1>c, <1>d, <1>s
<1>10. CASE AliceShutdown \/ PingerSend \/ CheckAckDeadlines
  <2>1. PICK t \in Thread : /\ t # l /\ thread'[l] = thread[l]
                            /\ todo' = todo \/ \E s : todo' = [todo EXCEPT ![t] = s]
    <3>1. CASE AliceShutdown
      BY <3>1, <1>0 DEF AliceShutdown
    <3>2. CASE PingerSend
      <4>1. PICK x \in PingerSends : todo' = [todo EXCEPT !["pinger"] = <<Send(x, NoNumber)>>]
        BY <3>2 DEF PingerSend
      <4> QED
        BY <3>2, <4>1, <1>0 DEF PingerSend
    <3>3. CASE CheckAckDeadlines
      BY <3>3, <1>0 DEF CheckAckDeadlines, Ended
    <3> QED
      BY <1>10, <3>1, <3>2, <3>3
  <2> QED
    BY <2>1, <1>0, <1>s
<1>11. CASE Bye
  BY <1>11, <1>0, <1>b, <1>c, <1>s DEF Bye
<1>12. CASE AliceSend \/ Tick \/ Cut \/ \E x \in End : HandleErrorBye(x) \/ HandleSignoff(x)
  BY <1>12, <1>s DEF AliceSend, Tick, Cut, HandleErrorBye, HandleSignoff
<1> QED
  BY <1>2, <1>3, <1>4, <1>5, <1>6, <1>7, <1>8, <1>9, <1>10, <1>11, <1>12
     DEF Next, Handshakes, Listens, Sends, l

\* What registers a message makes of its sender's port.
Registers(e, m) ==
    LET q == Registered(port[e], m, e)
    IN  /\ port'[e].ack_timeouts = q.ack_timeouts /\ port'[e].expected = q.expected
        /\ port'[e].sequence_no = q.sequence_no
        /\ port'[e].reply_data_table = q.reply_data_table
        /\ port'[e].closed = port[e].closed

LEMMA SendsPort ==
    ASSUME LinkTypes, NEW t \in Thread, SendPlain(t) \/ SendRegister(t)
    PROVE  LET e == EndOf[t]
               m == Head(todo[t]).msg
           IN  /\ m \in Msg /\ e \in End /\ todo[t] # <<>> /\ Head(todo[t]) \in Step
               /\ (port' = port /\ SendPlain(t) /\ port[e].closed) \/ Registers(e, m)
               /\ \A x \in End : x # e => port'[x] = port[x]
<1> DEFINE e == EndOf[t]
           m == Head(todo[t]).msg
           q == Registered(port[e], m, e)
<1>1. /\ todo[t] # <<>> /\ Head(todo[t]) \in Step
      /\ Head(todo[t]).do \in {"send", "register"}
  BY TodoIs DEF SendPlain, SendRegister, ToDo
<1>2. m \in Msg /\ e \in End /\ port \in [End -> Port] /\ port[e] \in Port /\ now \in Nat
  BY <1>1, StepParts, Ends DEF LinkTypes
<1>3. q \in Port /\ q.closed = port[e].closed
  <2> HIDE DEF m, e
  <2> QED
    BY <1>2, RegisteredIs
<1>4. \/ port' = port /\ SendPlain(t) /\ port[e].closed
      \/ port' = [port EXCEPT ![e] = [q EXCEPT !.last_sent = Clock[e]]]
      \/ port' = [port EXCEPT ![e] = q]
  BY <1>2 DEF SendPlain, SendRegister
<1> HIDE DEF q, e, m
<1>5. CASE port' = [port EXCEPT ![e] = [q EXCEPT !.last_sent = Clock[e]]] \/ port' = [port EXCEPT ![e] = q]
  <2>1. /\ port'[e] = q \/ port'[e] = [q EXCEPT !.last_sent = Clock[e]]
        /\ \A x \in End : x # e => port'[x] = port[x]
    BY <1>2, <1>5
  <2>2. Registers(e, m)
    BY <1>3, <2>1 DEF Registers, Port, q
  <2> QED
    BY <1>1, <1>2, <2>1, <2>2 DEF e, m
<1> QED
  BY <1>1, <1>2, <1>4, <1>5 DEF e, m

\* What is closed stays closed.
LEMMA ClosedStays ==
    ASSUME LinkTypes, Next, NEW e \in End, port[e].closed
    PROVE  port'[e].closed
<1>0. "alice" \in End /\ "server" \in End /\ port \in [End -> Port] /\ port[e] \in Port
  BY Ends DEF LinkTypes
<1>1. CASE Tame
  BY <1>1, TamePort
<1>2. CASE \E t \in Thread : SendPlain(t) \/ SendRegister(t)
  <2>1. PICK t \in Thread : SendPlain(t) \/ SendRegister(t)
    BY <1>2
  <2> QED
    BY <2>1, SendsPort DEF Registers
<1>3. CASE \E t \in Thread : SendDump(t)
  BY <1>3, <1>0 DEF SendDump, Port
<1>4. CASE AliceSend
  <2>1. PICK m : port' = [port EXCEPT !["alice"] = Registered(port["alice"], m, "alice")]
    BY <1>4, <1>0 DEF AliceSend
  <2>2. port["alice"] \in Port
    BY <1>0
  <2>3. Registered(port["alice"], m, "alice").closed = port["alice"].closed
    BY <2>2 DEF Registered, Port
  <2> QED
    BY <1>0, <2>1, <2>3
<1>5. CASE \E x \in End : ProcessAck(x)
  <2>1. PICK x, no : x \in End /\ (port' = port \/ port' = [port EXCEPT ![x] = Acked(port[x], no)])
    BY <1>5, <1>0 DEF ProcessAck
  <2>2. Acked(port[x], no).closed = port[x].closed
    BY <1>0 DEF Acked, Port
  <2> QED
    BY <1>0, <2>1, <2>2
<1>6. CASE HandlePublicIp
  <2>1. PICK no : \/ port' = Closed(port, "alice")
                  \/ port' = [port EXCEPT !["alice"].reply_data_table = @ \ {no}]
    BY <1>6 DEF HandlePublicIp
  <2>2. CASE port' = Closed(port, "alice")
    BY <1>0, <2>2, ClosedIs
  <2>3. CASE port' = [port EXCEPT !["alice"].reply_data_table = @ \ {no}]
    BY <1>0, <2>3 DEF Port
  <2> QED
    BY <2>1, <2>2, <2>3
<1>7. CASE HandleMyIp \/ \E x \in End : HandleAndAck(x)
  BY <1>7 DEF HandleMyIp, HandleAndAck
<1>8. CASE AliceExits
  BY <1>8, <1>0 DEF AliceExits, Closed, NewPort
<1>9. CASE CheckAckDeadlines
  <2>1. PICK n : port' = port \/ port' = [port EXCEPT !["server"] = Checked(port["server"], n)]
    BY <1>9, <1>0 DEF CheckAckDeadlines
  <2>2. Checked(port["server"], n).closed = port["server"].closed
    BY <1>0 DEF Checked, Port
  <2> QED
    BY <1>0, <2>1, <2>2
<1>10. CASE Bye
  BY <1>10, <1>0 DEF Bye, Checked, Port
<1> QED
  BY <1>1, <1>2, <1>3, <1>4, <1>5, <1>6, <1>7, <1>8, <1>9, <1>10 DEF Next, Listens, Sends, Tame

\* The process of the client comes to its end once, with all that it has.
LEMMA AliceIdles ==
    ASSUME LinkTypes, Shapes, Idlers, Next, thread'["Alice"] = "ended"
    PROVE  /\ todo'["Alice"] = <<>> /\ thread'["AliceLink"] = "ended"
           /\ wire'["alice"] = <<>> /\ port'["alice"].closed
<1>0. /\ thread \in [Thread -> States] /\ todo \in [Thread -> Seq(Step)] /\ wire \in [End -> Seq(Msg)]
      /\ port \in [End -> Port] /\ "alice" \in End /\ "server" \in End
      /\ \A e \in End : Listener[e] \in {"AliceLink", "SwitzerlandLink"}
      /\ "Alice" \in Thread /\ "AliceLink" \in Thread /\ "SwitzerlandLink" \in Thread
      /\ Listener["alice"] = "AliceLink" /\ Listener["server"] = "SwitzerlandLink"
  BY DEF LinkTypes, Thread, Listener, End
<1>1. CASE AliceExits
  <2>1. port["alice"] \in Port /\ NewPort \in Port
    BY <1>0 DEF NewPort, Port, Entries
  <2> QED
    BY <1>1, <1>0, <2>1 DEF AliceExits, Closed, Ended, Dropped
<1>2. CASE ~AliceExits
  <2>1. thread["Alice"] = "ended"
    <3> SUFFICES ASSUME thread["Alice"] # "ended"
                 PROVE  FALSE
      OBVIOUS
    <3>1. CASE Handshakes
      BY <3>1, <1>0 DEF Handshakes, ServerHandshake, AliceHandshake, HandshakeReset, HandshakeFails, Ended
    <3>2. CASE Listens
      <4>1. thread' = thread \/ \E x \in End : thread' = Ended({Listener[x]})
        BY <3>2, <1>0 DEF Listens, HandleMyIp, HandlePublicIp, ProcessAck, ProtocolError,
           HandleAndAck, NowReady, HandleErrorBye, HandleSignoff, ListenEnds
      <4> QED
        BY <4>1, <1>0 DEF Ended
    <3>3. CASE Sends
      <4>1. thread' = thread \/ \E x \in End : thread' = Ended({Listener[x]})
        <5>1. \A t \in Thread : EndOf[t] \in End
          BY Ends
        <5>2. \A t \in Thread : SendFails(t) => thread' = thread \/ thread' = Ended({Listener[EndOf[t]]})
          BY DEF SendFails
        <5>3. \A t \in Thread : SendPlain(t) \/ SendLock(t) \/ SendRegister(t) \/ SendDump(t)
                                 => thread' = thread
          BY DEF SendPlain, SendLock, SendRegister, SendDump
        <5> QED
          BY <3>3, <5>1, <5>2, <5>3 DEF Sends
      <4> QED
        BY <4>1, <1>0 DEF Ended
    <3>4. CASE CheckAckDeadlines \/ Bye \/ AliceShutdown
      BY <3>4, <1>0 DEF CheckAckDeadlines, Bye, AliceShutdown, Ended
    <3>5. CASE AliceSend \/ PingerSend \/ Tick \/ Cut
      BY <3>5 DEF AliceSend, PingerSend, Tick, Cut
    <3> QED
      BY <1>2, <3>1, <3>2, <3>3, <3>4, <3>5 DEF Next
  <2>2. /\ todo["Alice"] = <<>> /\ thread["AliceLink"] = "ended" /\ wire["alice"] = <<>>
        /\ port["alice"].closed
    BY <2>1 DEF Idlers
  <2>3. todo["AliceLink"] = <<>>
    BY <2>2, <1>0 DEF Idlers
  <2>4. port'["alice"].closed
    BY <2>2, <1>0, ClosedStays
  <2>5. thread'["AliceLink"] = "ended"
    <3>1. CASE Handshakes
      BY <3>1, <1>0, <2>2 DEF Handshakes, ServerHandshake, AliceHandshake, HandshakeReset, HandshakeFails,
         Shaking, Ended
    <3>2. CASE Listens
      BY <3>2, <1>0, <2>2 DEF Listens, HandleMyIp, HandlePublicIp, ProcessAck, ProtocolError,
         HandleAndAck, NowReady, HandleErrorBye, HandleSignoff, ListenEnds, Ended
    <3>3. CASE Sends
      BY <3>3, <1>0, <2>2 DEF Sends, SendPlain, SendLock, SendRegister, SendDump, SendFails, Ended
    <3>4. CASE CheckAckDeadlines \/ Bye \/ AliceShutdown
      BY <3>4, <1>0, <2>2 DEF CheckAckDeadlines, Bye, AliceShutdown, Ended
    <3>5. CASE AliceSend \/ PingerSend \/ Tick \/ Cut
      BY <3>5, <2>2 DEF AliceSend, PingerSend, Tick, Cut
    <3> QED
      BY <1>2, <3>1, <3>2, <3>3, <3>4, <3>5 DEF Next
  <2>6. todo'["Alice"] = <<>>
    <3>1. CASE Handshakes
      BY <3>1, <1>0, <2>2 DEF Handshakes, ServerHandshake, AliceHandshake, HandshakeReset, HandshakeFails
    <3>2. CASE Listens
      BY <3>2, <1>0, <2>2 DEF Listens, HandleMyIp, HandlePublicIp, ProcessAck, ProtocolError,
         HandleAndAck, NowReady, HandleErrorBye, HandleSignoff, ListenEnds, Then, Dropped, Done
    <3>3. CASE Sends
      BY <3>3, <1>0, <2>2 DEF Sends, SendPlain, SendLock, SendRegister, SendDump, SendFails, Dropped, Done,
         Replace, ToDo, Dumped
    <3>4. CASE CheckAckDeadlines \/ Bye \/ AliceShutdown
      BY <3>4, <1>0, <2>1, <2>2 DEF CheckAckDeadlines, Bye, AliceShutdown, Done
    <3>5. CASE AliceSend \/ PingerSend \/ Tick \/ Cut
      BY <3>5, <1>0, <2>2 DEF AliceSend, PingerSend, Tick, Cut
    <3> QED
      BY <1>2, <3>1, <3>2, <3>3, <3>4, <3>5 DEF Next
  <2>7. wire'["alice"] = <<>>
    <3>1. \A e \in End : \A m : Carried(e, m)["alice"] = wire["alice"]
      BY <1>0, <2>2 DEF Carried, Unread, End
    <3>2. CASE ServerHandshake
      <4>1. PICK m : wire' = [Carried("alice", m) EXCEPT !["server"] = Tail(@)]
        BY <3>2 DEF ServerHandshake
      <4>2. Carried("alice", m) = wire
        BY <1>0, <2>2 DEF Carried, Unread
      <4> QED
        BY <1>0, <2>2, <4>1, <4>2
    <3>3. CASE \/ (\E e \in End : NowReady(e)) \/ AliceSend
               \/ (\E t \in Thread : SendPlain(t) \/ SendDump(t))
      <4>1. wire' = wire \/ \E e \in End : \E m : wire' = Carried(e, m)
        <5>1. \A e \in End : Other(e) \in End /\ \A t \in Thread : EndOf[t] \in End
          BY Ends
        <5>2. CASE AliceSend \/ \E e \in End : NowReady(e)
          BY <5>1, <5>2, <1>0 DEF NowReady, AliceSend
        <5>3. CASE \E t \in Thread : SendPlain(t) \/ SendDump(t)
          BY <5>1, <5>3, <1>0 DEF SendPlain, SendDump, Dumped
        <5> QED
          BY <3>3, <5>2, <5>3
      <4> QED
        BY <2>2, <3>1, <4>1
    <3>4. CASE \/ AliceHandshake \/ HandleMyIp \/ HandlePublicIp
               \/ \E e \in End : \/ ProcessAck(e) \/ HandleAndAck(e) \/ HandleErrorBye(e)
                                 \/ HandleSignoff(e) \/ ListenEnds(e)
      <4>1. \E e \in End : \/ wire[e] # <<>> /\ wire' = [wire EXCEPT ![e] = Tail(@)]
                          \/ wire' = [wire EXCEPT ![e] = <<>>]
        BY <3>4, <1>0 DEF AliceHandshake, HandleMyIp, HandlePublicIp, ProcessAck, HandleAndAck,
           HandleErrorBye, HandleSignoff, ListenEnds, Receives, Arrives
      <4> QED
        BY <1>0, <2>2, <4>1
    <3>5. CASE \/ HandshakeReset \/ (\E e \in End : HandshakeFails(e) \/ ProtocolError(e))
               \/ (\E t \in Thread : SendLock(t) \/ SendRegister(t) \/ SendFails(t))
               \/ AliceShutdown \/ PingerSend \/ CheckAckDeadlines \/ Bye \/ Tick \/ Cut
      BY <3>5, <1>0, <2>2 DEF HandshakeReset, HandshakeFails, ProtocolError, SendLock, SendRegister,
         SendFails, AliceShutdown, PingerSend, CheckAckDeadlines, Bye, Tick, Cut
    <3> QED
      BY <1>2, <3>2, <3>3, <3>4, <3>5 DEF Next, Handshakes, Listens, Sends
  <2> QED
    BY <2>4, <2>5, <2>6, <2>7
<1> QED
  BY <1>1, <1>2

\* The checker has nothing to do but to close the link.
LEMMA CheckerIdles ==
    ASSUME LinkTypes, Idlers, Next, todo'["checker"] # <<>>
    PROVE  todo'["checker"] = <<Do("bye")>>
<1>0. /\ todo \in [Thread -> Seq(Step)] /\ "checker" \in Thread
      /\ \A e \in End : Listener[e] \in Thread /\ Listener[e] # "checker"
      /\ "Alice" \in Thread /\ "AliceLink" \in Thread /\ "pinger" \in Thread
      /\ "alice" \in End /\ "server" \in End
  BY DEF LinkTypes, Thread, Listener, End
<1>1. todo["checker"] # <<>> => todo["checker"] = <<Do("bye")>> /\ Head(todo["checker"]).do = "bye"
  BY DEF Idlers, Do
<1>2. CASE todo'["checker"] = todo["checker"]
  BY <1>1, <1>2
<1>3. CASE Handshakes \/ AliceSend \/ AliceShutdown \/ Tick \/ Cut
  BY <1>3, <1>0, <1>2 DEF Handshakes, ServerHandshake, AliceHandshake, HandshakeReset, HandshakeFails,
     AliceSend, AliceShutdown, Tick, Cut
<1>4. CASE Listens
  <2>1. \/ todo' = todo
        \/ \E e \in End : \E s :
           \/ todo' = [todo EXCEPT ![Listener[e]] = s]
           \/ todo' = Done(Listener[e]) \/ todo' = Dropped({Listener[e]})
    <3>1. CASE HandleMyIp \/ HandlePublicIp
      BY <3>1, <1>0 DEF HandleMyIp, HandlePublicIp, Then
    <3>2. CASE \E e \in End : \/ ProcessAck(e) \/ HandleAndAck(e)
      BY <3>2 DEF ProcessAck, HandleAndAck, Then
    <3>3. CASE \E e \in End : \/ ProtocolError(e) \/ NowReady(e) \/ HandleErrorBye(e)
                              \/ HandleSignoff(e) \/ ListenEnds(e)
      BY <3>3 DEF ProtocolError, NowReady, HandleErrorBye, HandleSignoff, ListenEnds
    <3> QED
      BY <1>4, <3>1, <3>2, <3>3 DEF Listens
  <2> QED
    BY <2>1, <1>0, <1>2 DEF Done, Dropped
<1>5. CASE Sends
  <2>1. PICK t \in Thread : SendPlain(t) \/ SendLock(t) \/ SendRegister(t) \/ SendDump(t) \/ SendFails(t)
    BY <1>5 DEF Sends
  <2>2. t # "checker"
    BY <2>1, <1>1 DEF SendPlain, SendLock, SendRegister, SendDump, SendFails, ToDo
  <2>3. \/ todo' = todo \/ todo' = Done(t) \/ todo' = Dropped({t}) \/ \E x : todo' = Replace(t, x)
    BY <2>1 DEF SendPlain, SendLock, SendRegister, SendDump, SendFails, Dumped
  <2> QED
    BY <2>2, <2>3, <1>0, <1>2 DEF Done, Dropped, Replace
<1>6. CASE AliceExits
  BY <1>6, <1>0, <1>2 DEF AliceExits, Dropped
<1>7. CASE PingerSend
  <2>1. PICK s : todo' = [todo EXCEPT !["pinger"] = s]
    BY <1>7 DEF PingerSend
  <2> QED
    BY <2>1, <1>0, <1>2
<1>8. CASE CheckAckDeadlines
  <2>1. todo' = todo \/ todo' = [todo EXCEPT !["checker"] = <<Do("bye")>>]
    BY <1>8 DEF CheckAckDeadlines
  <2> QED
    BY <2>1, <1>0, <1>2
<1>9. CASE Bye
  <2>1. todo["checker"] = <<Do("bye")>> /\ todo'["checker"] = Tail(todo["checker"])
    BY <1>9, <1>0, <1>1 DEF Bye, ToDo, Done
  <2> QED
    BY <2>1
<1> QED
  BY <1>3, <1>4, <1>5, <1>6, <1>7, <1>8, <1>9 DEF Next

\* The checker waits for the handshake.
LEMMA CheckerWaits ==
    ASSUME LinkTypes, Idlers, Next, thread'["checker"] = "waiting"
    PROVE  /\ thread["checker"] = "waiting"
           /\ thread'["SwitzerlandLink"] \in {"handshake", "died"} \/ port'["server"].closed
<1>0. /\ thread \in [Thread -> States] /\ port \in [End -> Port] /\ "checker" \in Thread
      /\ "SwitzerlandLink" \in Thread /\ "server" \in End /\ "alice" \in End
      /\ "Alice" \in Thread /\ "AliceLink" \in Thread
      /\ \A e \in End : Listener[e] \in {"AliceLink", "SwitzerlandLink"}
      /\ Listener["server"] = "SwitzerlandLink" /\ Listener["alice"] = "AliceLink"
      /\ End = {"alice", "server"}
      /\ EndOf["SwitzerlandLink"] = "server"
  BY DEF LinkTypes, Thread, Listener, End, EndOf
<1>1. /\ thread["SwitzerlandLink"] # "listening" => todo["SwitzerlandLink"] = <<>>
      /\ thread["checker"] = "waiting" =>
            thread["SwitzerlandLink"] \in {"handshake", "died"} \/ port["server"].closed
  BY <1>0 DEF Idlers
<1>2. CASE port["server"].closed /\ thread["checker"] = "waiting"
  BY <1>0, <1>2, ClosedStays
<1>3. CASE thread' = thread
  BY <1>0, <1>1, <1>2, <1>3
<1>4. CASE Handshakes
  <2>1. CASE ServerHandshake
    BY <2>1, <1>0 DEF ServerHandshake, Closed, Port, Ended
  <2>2. CASE AliceHandshake \/ HandshakeReset
    BY <2>2, <1>0, <1>1, <1>2 DEF AliceHandshake, HandshakeReset
  <2>3. CASE \E e \in End : HandshakeFails(e)
    <3>1. PICK e \in End : thread' = Ended({Listener[e]}) /\ port' = Closed(port, e)
      BY <2>3 DEF HandshakeFails
    <3> QED
      BY <3>1, <1>0, <1>1, <1>2, ClosedIs DEF Ended
  <2> QED
    BY <1>4, <2>1, <2>2, <2>3 DEF Handshakes
<1>5. CASE HandlePublicIp \/ AliceExits \/ AliceShutdown
  <2>1. /\ thread'["SwitzerlandLink"] = thread["SwitzerlandLink"]
        /\ thread'["checker"] = thread["checker"]
    <3>1. CASE HandlePublicIp
      BY <3>1, <1>0 DEF HandlePublicIp, Ended
    <3>2. CASE AliceExits \/ AliceShutdown
      BY <3>2, <1>0 DEF AliceExits, AliceShutdown, Ended
    <3> QED
      BY <1>5, <3>1, <3>2
  <2> QED
    BY <2>1, <1>1, <1>2
<1>6. CASE \E e \in End : ProtocolError(e) \/ ListenEnds(e)
  <2>1. PICK e \in End : thread' = Ended({Listener[e]}) /\ port' = Closed(port, e)
    BY <1>6 DEF ProtocolError, ListenEnds
  <2> QED
    BY <2>1, <1>0, <1>1, <1>2, ClosedIs DEF Ended
<1>7. CASE \E t \in Thread : SendFails(t)
  <2>0. PICK t \in Thread : SendFails(t)
    BY <1>7
  <2>1. /\ thread' = thread \/ (t = Listener[EndOf[t]] /\ thread' = Ended({t}))
        /\ port' = Closed(port, EndOf[t]) /\ EndOf[t] \in End
    BY <2>0, Ends DEF SendFails
  <2>2. CASE t = "SwitzerlandLink"
    BY <2>1, <2>2, <1>0, ClosedIs, <1>3 DEF Ended
  <2>3. CASE t # "SwitzerlandLink"
    BY <2>1, <2>3, <1>0, <1>1, <1>2 DEF Ended
  <2> QED
    BY <2>2, <2>3
<1>8. CASE CheckAckDeadlines \/ Bye
  <2>1. thread["checker"] # "waiting" \/ Bye
    BY <1>8 DEF CheckAckDeadlines
  <2>2. thread' = thread \/ thread' = Ended({"checker"})
    BY <1>8 DEF CheckAckDeadlines, Bye
  <2> QED
    BY <2>2, <1>0, <1>3 DEF Ended
<1>9. CASE \/ HandleMyIp \/ AliceSend \/ PingerSend \/ Tick \/ Cut
           \/ (\E e \in End : ProcessAck(e) \/ HandleAndAck(e) \/ NowReady(e) \/ HandleErrorBye(e)
                              \/ HandleSignoff(e))
           \/ (\E t \in Thread : SendPlain(t) \/ SendLock(t) \/ SendRegister(t) \/ SendDump(t))
  BY <1>9, <1>3 DEF HandleMyIp, AliceSend, PingerSend, Tick, Cut, ProcessAck, HandleAndAck, NowReady,
     HandleErrorBye, HandleSignoff, SendPlain, SendLock, SendRegister, SendDump
<1> QED
  BY <1>4, <1>5, <1>6, <1>7, <1>8, <1>9 DEF Next, Listens, Sends

LEMMA IdlersNext ==
    ASSUME LinkTypes, Shapes, Idlers, Next
    PROVE  Idlers'
<1>1. \A e \in End : thread'[Listener[e]] # "listening" => todo'[Listener[e]] = <<>>
  BY ListenersIdle
<1>2. thread'["Alice"] = "ended" =>
         /\ todo'["Alice"] = <<>> /\ thread'["AliceLink"] = "ended"
         /\ wire'["alice"] = <<>> /\ port'["alice"].closed
  BY AliceIdles
<1>3. todo'["checker"] # <<>> => todo'["checker"] = <<Do("bye")>>
  BY CheckerIdles
<1>4. thread'["checker"] = "waiting" =>
         thread'["SwitzerlandLink"] \in {"handshake", "died"} \/ port'["server"].closed
  BY CheckerWaits
<1> QED
  BY <1>1, <1>2, <1>3, <1>4 DEF Idlers

-----------------------------------------------------------------------------
(* The tables of acks *)

LEMMA EntriesAre ==
    ASSUME NEW p \in Port
    PROVE  /\ Len(p.ack_timeouts) \in Nat /\ DOMAIN p.ack_timeouts = 1..Len(p.ack_timeouts)
           /\ \A k \in DOMAIN p.ack_timeouts : /\ p.ack_timeouts[k] \in Entries /\ k \in Nat
                                               /\ p.ack_timeouts[k].no \in Nat
                                               /\ p.ack_timeouts[k].deadline \in Nat
<1>1. p.ack_timeouts \in Seq(Entries)
  BY PortParts
<1>2. \A k \in DOMAIN p.ack_timeouts : p.ack_timeouts[k] \in Entries
  BY <1>1, ElementOfSeq
<1> QED
  BY <1>1, <1>2 DEF Entries

\* A message that is registered is the last of the list.
LEMMA RegisteredInOrder ==
    ASSUME now \in Nat, NEW p \in Port, NEW m \in Msg, NEW e \in End, Ordered(p), Timely(p, e)
    PROVE  Ordered(Registered(p, m, e)) /\ Timely(Registered(p, m, e), e)
<1> DEFINE q == Registered(p, m, e)
           s == p.ack_timeouts
           x == Entry(Deadline[e], p.sequence_no, m.type = "ping")
<1>1. /\ q \in Port
      /\ m.type \in ExpectsAck => q.ack_timeouts = Append(s, x) /\ q.expected = p.expected \cup {p.sequence_no}
      /\ m.type \notin ExpectsAck => q.ack_timeouts = s /\ q.expected = p.expected
      /\ q.sequence_no = IF m.type \in Numbered THEN p.sequence_no + 1 ELSE p.sequence_no
  BY RegisteredIs
<1>2. /\ s \in Seq(Entries) /\ Len(s) \in Nat /\ DOMAIN s = 1..Len(s) /\ p.sequence_no \in Nat
      /\ \A k \in DOMAIN s : s[k].no \in Nat /\ s[k].deadline \in Nat /\ k \in Nat
  BY EntriesAre, PortParts
<1>3. /\ p.expected = {s[k].no : k \in DOMAIN s} /\ Len(s) <= p.sequence_no
      /\ \A k \in DOMAIN s : k - 1 <= s[k].no /\ s[k].no < p.sequence_no
      /\ \A j, k \in DOMAIN s : j < k => s[j].no < s[k].no /\ s[j].deadline <= s[k].deadline
      /\ \A k \in DOMAIN s : s[k].deadline <= Clock[e] + timeout_period
  BY DEF Ordered, Outstanding, Timely
<1>4. Clock[e] \in Nat /\ Deadline[e] \in Nat /\ Deadline[e] = Clock[e] + timeout_period
  BY Clocks
<1> HIDE DEF q, s
<1>5. CASE m.type \notin ExpectsAck
  <2>1. q.sequence_no = p.sequence_no \/ q.sequence_no = p.sequence_no + 1
    BY <1>1
  <2>2. q.sequence_no >= p.sequence_no /\ q.sequence_no \in Nat
    BY <1>2, <2>1
  <2>3. \A k \in DOMAIN s : s[k].no < q.sequence_no
    BY <1>2, <1>3, <2>2
  <2> QED
    <3>1. q.ack_timeouts = s /\ q.expected = p.expected
      BY <1>1, <1>5
    <3>2. q.expected = Outstanding(q) /\ Len(s) <= q.sequence_no
      BY <1>2, <1>3, <2>2, <3>1 DEF Outstanding
    <3>3. Ordered(q)
      BY <1>3, <2>3, <3>1, <3>2 DEF Ordered
    <3>4. Timely(q, e)
      BY <1>3, <3>1 DEF Timely
    <3> QED
      BY <3>3, <3>4 DEF q
<1>6. CASE m.type \in ExpectsAck
  <2>1. x \in Entries /\ x.no = p.sequence_no /\ x.deadline = Deadline[e]
    BY <1>2, <1>4 DEF Entry, Entries
  <2> HIDE DEF x
  <2> DEFINE r == Append(s, x)
  <2>2. /\ Len(r) = Len(s) + 1 /\ DOMAIN r = 1..(Len(s) + 1)
        /\ \A i \in 1..Len(s) : r[i] = s[i]
        /\ r[Len(s) + 1] = x
    BY <1>2, <2>1, Appended
  <2> HIDE DEF r
  <2>3. q.ack_timeouts = r /\ q.expected = p.expected \cup {p.sequence_no}
        /\ q.sequence_no = p.sequence_no + 1
    BY <1>1, <1>6, Kinds DEF r
  <2>4. \A k \in DOMAIN r : (k \in DOMAIN s /\ r[k] = s[k]) \/ (k = Len(s) + 1 /\ r[k] = x)
    BY <1>2, <2>2
  <2>5. {r[k].no : k \in DOMAIN r} = {s[k].no : k \in DOMAIN s} \cup {p.sequence_no}
    <3>1. \A k \in DOMAIN s : k \in DOMAIN r /\ r[k] = s[k]
      BY <1>2, <2>2
    <3>2. Len(s) + 1 \in DOMAIN r
      BY <1>2, <2>2
    <3> QED
      BY <2>1, <2>2, <2>4, <3>1, <3>2
  <2>6. \A k \in DOMAIN r : k - 1 <= r[k].no /\ r[k].no < p.sequence_no + 1
    <3> SUFFICES ASSUME NEW k \in DOMAIN r
                 PROVE  k - 1 <= r[k].no /\ r[k].no < p.sequence_no + 1
      OBVIOUS
    <3>1. CASE k \in DOMAIN s /\ r[k] = s[k]
      BY <1>2, <1>3, <3>1
    <3>2. CASE k = Len(s) + 1 /\ r[k] = x
      BY <1>2, <1>3, <2>1, <3>2
    <3> QED
      BY <2>4, <3>1, <3>2
  <2>7. ASSUME NEW j \in DOMAIN r, NEW k \in DOMAIN r, j < k
        PROVE  r[j].no < r[k].no /\ r[j].deadline <= r[k].deadline
    <3>1. j \in DOMAIN s /\ r[j] = s[j]
      BY <1>2, <2>2, <2>7
    <3>2. CASE k \in DOMAIN s /\ r[k] = s[k]
      BY <1>3, <2>7, <3>1, <3>2
    <3>3. CASE k = Len(s) + 1 /\ r[k] = x
      BY <1>3, <1>4, <2>1, <3>1, <3>3
    <3> QED
      BY <2>4, <3>2, <3>3
  <2>8. \A k \in DOMAIN r : r[k].deadline <= Clock[e] + timeout_period
    <3> SUFFICES ASSUME NEW k \in DOMAIN r
                 PROVE  r[k].deadline <= Clock[e] + timeout_period
      OBVIOUS
    <3>1. Clock[e] + timeout_period <= Clock[e] + timeout_period
      BY <1>4
    <3> QED
      BY <1>3, <1>4, <2>1, <2>4, <3>1
  <2>9. Len(r) <= p.sequence_no + 1
    BY <1>2, <1>3, <2>2
  <2> QED
    <3>1. q.expected = Outstanding(q)
      BY <1>3, <2>3, <2>5 DEF Outstanding
    <3>2. Ordered(q)
      BY <2>3, <2>6, <2>7, <2>9, <3>1 DEF Ordered
    <3>3. Timely(q, e)
      BY <2>3, <2>8 DEF Timely
    <3> QED
      BY <3>2, <3>3 DEF q
<1> QED
  BY <1>5, <1>6

\* Time goes on.
LEMMA ClockOn ==
    ASSUME LinkTypes, Next
    PROVE  /\ now' \in Nat /\ now <= now'
           /\ \A e \in End : Clock[e] \in Nat /\ Clock'[e] \in Nat /\ Clock[e] <= Clock'[e]
<1>1. now \in Nat
  BY DEF LinkTypes
<1>2. now' = now \/ now' = now + 1
  <2>1. CASE Handshakes
    BY <2>1 DEF Handshakes, ServerHandshake, AliceHandshake, HandshakeReset, HandshakeFails, time
  <2>2. CASE Listens
    BY <2>2 DEF Listens, HandleMyIp, HandlePublicIp, ProcessAck, ProtocolError,
       HandleAndAck, NowReady, HandleErrorBye, HandleSignoff, ListenEnds, time
  <2>3. CASE Sends
    BY <2>3 DEF Sends, SendPlain, SendLock, SendRegister, SendDump, SendFails, time
  <2>4. CASE AliceSend \/ AliceShutdown \/ AliceExits \/ PingerSend \/ CheckAckDeadlines \/ Bye
             \/ Tick \/ Cut
    BY <2>4 DEF AliceSend, AliceShutdown, AliceExits, PingerSend, CheckAckDeadlines, Bye, Tick, Cut, time
  <2> QED
    BY <2>1, <2>2, <2>3, <2>4 DEF Next
<1> QED
  BY <1>1, <1>2 DEF Clock

\* What is made of the tables by steps that do not register a message.
LEMMA RestInTime ==
    ASSUME NEW p \in Port, NEW q \in Port, NEW e \in End, Timely(p, e),
           Rest(q.ack_timeouts, p.ack_timeouts)
    PROVE  Timely(q, e)
BY DEF Timely, Rest

LEMMA TablesNext ==
    ASSUME LinkTypes, Tables, Next
    PROVE  Tables'
<1> SUFFICES ASSUME NEW e \in End
             PROVE  /\ Ordered(port'[e])
                    /\ \A k \in DOMAIN port'[e].ack_timeouts :
                          port'[e].ack_timeouts[k].deadline <= Clock'[e] + timeout_period
  BY DEF Tables, Timely
<1>0. /\ port \in [End -> Port] /\ port[e] \in Port /\ now \in Nat /\ Ordered(port[e]) /\ Timely(port[e], e)
      /\ "alice" \in End /\ "server" \in End /\ (e = "alice" \/ e = "server")
  BY Ends DEF LinkTypes, Tables
<1>1. SUFFICES Ordered(port'[e]) /\ Timely(port'[e], e)
  <2>1. LinkTypes'
    BY TypesNext
  <2>2. /\ Clock[e] \in Nat /\ Clock'[e] \in Nat /\ Clock[e] <= Clock'[e]
        /\ port'[e] \in Port /\ timeout_period \in Nat
    BY <2>1, ClockOn, LinkConstants DEF LinkTypes
  <2>3. \A k \in DOMAIN port'[e].ack_timeouts : port'[e].ack_timeouts[k].deadline \in Nat
    BY <2>2, EntriesAre
  <2>4. \A x \in Nat : x <= Clock[e] + timeout_period => x <= Clock'[e] + timeout_period
    BY <2>2
  <2> HIDE DEF Clock
  <2> SUFFICES ASSUME Ordered(port'[e]), Timely(port'[e], e), NEW k \in DOMAIN port'[e].ack_timeouts
               PROVE  port'[e].ack_timeouts[k].deadline <= Clock'[e] + timeout_period
    OBVIOUS
  <2>5. port'[e].ack_timeouts[k].deadline <= Clock[e] + timeout_period
    BY DEF Timely
  <2> QED
    BY <2>3, <2>4, <2>5
<1>2. ASSUME port'[e].ack_timeouts = port[e].ack_timeouts, port'[e].expected = port[e].expected,
             port'[e].sequence_no = port[e].sequence_no
      PROVE  Ordered(port'[e]) /\ Timely(port'[e], e)
  BY <1>0, <1>2 DEF Ordered, Outstanding, Timely
<1>3. CASE Tame
  BY <1>2, <1>3, TamePort DEF SameTables
<1>4. ASSUME NEW m \in Msg, Registers(e, m)
      PROVE  Ordered(port'[e]) /\ Timely(port'[e], e)
  <2>1. Ordered(Registered(port[e], m, e)) /\ Timely(Registered(port[e], m, e), e)
    BY <1>0, RegisteredInOrder
  <2> QED
    BY <1>4, <2>1 DEF Registers, Ordered, Outstanding, Timely
<1>5. CASE \E t \in Thread : SendPlain(t) \/ SendRegister(t)
  <2>1. PICK t \in Thread : SendPlain(t) \/ SendRegister(t)
    BY <1>5
  <2> QED
    BY <2>1, <1>2, <1>4, SendsPort
<1>6. CASE AliceSend
  <2>1. PICK x \in AliceSends :
           port' = [port EXCEPT !["alice"] =
                       Registered(port["alice"], Message(x, NoNumber, NoNumber), "alice")]
    BY <1>6, <1>0 DEF AliceSend
  <2>2. Message(x, NoNumber, NoNumber) \in Msg
    <3>1. x \in Kind /\ NoNumber \in Number
      BY OthersSend DEF Number
    <3> QED
      BY <3>1, MsgParts
  <2>3. CASE e = "alice"
    BY <1>0, <2>1, <2>2, <2>3, RegisteredInOrder
  <2>4. CASE e # "alice"
    BY <1>0, <1>2, <2>1, <2>4
  <2> QED
    BY <2>3, <2>4
<1>7. CASE \E t \in Thread : SendDump(t)
  BY <1>0, <1>2, <1>7 DEF SendDump, Port
<1>8. CASE HandleMyIp \/ \E x \in End : HandleAndAck(x)
  BY <1>2, <1>8 DEF HandleMyIp, HandleAndAck
<1>9. CASE HandlePublicIp
  <2>1. CASE port' = Closed(port, "alice")
    <3>1. /\ port'[e].ack_timeouts = port[e].ack_timeouts /\ port'[e].expected = port[e].expected
          /\ port'[e].sequence_no = port[e].sequence_no
      BY <1>0, <2>1, ClosedIs
    <3> QED
      BY <3>1, <1>2
  <2>2. CASE \E no : port' = [port EXCEPT !["alice"].reply_data_table = @ \ {no}]
    BY <1>0, <1>2, <2>2 DEF Port
  <2> QED
    BY <1>9, <2>1, <2>2 DEF HandlePublicIp
<1>10. CASE \E x \in End : ProcessAck(x)
  <2>1. PICK x \in End : \/ port' = port
                         \/ \E no \in Outstanding(port[x]) : port' = [port EXCEPT ![x] = Acked(port[x], no)]
    BY <1>10, <1>0 DEF ProcessAck
  <2>2. CASE port'[e] = port[e]
    BY <1>0, <2>2
  <2>3. CASE \E no \in Outstanding(port[e]) : port'[e] = Acked(port[e], no)
    BY <1>0, <2>3, AckedIs, RestInTime
  <2> QED
    BY <1>0, <2>1, <2>2, <2>3
<1>11. CASE CheckAckDeadlines \/ Bye
  <2> DEFINE p == port["server"]
  <2>1. PICK n \in 0..Len(p.ack_timeouts) :
           /\ Handles(p.ack_timeouts, n)
           /\ \/ port' = port
              \/ port' = [port EXCEPT !["server"] = Checked(p, n)]
              \/ port' = [port EXCEPT !["server"] = [Checked(p, n) EXCEPT !.closed = TRUE]]
    <3>1. CASE CheckAckDeadlines
      BY <3>1, <1>0 DEF CheckAckDeadlines
    <3>2. CASE Bye
      BY <3>2, <1>0 DEF Bye
    <3> QED
      BY <1>11, <3>1, <3>2
  <2>2. p \in Port /\ Ordered(p) /\ Timely(p, "server")
    BY <1>0 DEF Tables
  <2>3. Checked(p, n) \in Port /\ Ordered(Checked(p, n)) /\ Timely(Checked(p, n), "server")
    <3> HIDE DEF p
    <3> QED
      BY <1>0, <2>1, <2>2, CheckedIs, RestInTime
  <2>4. LET q == [Checked(p, n) EXCEPT !.closed = TRUE]
        IN  Ordered(q) /\ Timely(q, "server")
    <3> DEFINE c == Checked(p, n)
               q == [c EXCEPT !.closed = TRUE]
    <3>1. c \in Port /\ Ordered(c) /\ Timely(c, "server")
      BY <2>3
    <3> HIDE DEF c
    <3>2. q.ack_timeouts = c.ack_timeouts /\ q.expected = c.expected /\ q.sequence_no = c.sequence_no
      BY <3>1 DEF Port
    <3> HIDE DEF q
    <3>3. Ordered(q) /\ Timely(q, "server")
      BY <3>1, <3>2 DEF Ordered, Outstanding, Timely
    <3> QED
      BY <3>3 DEF q, c
  <2> HIDE DEF p
  <2> QED
    BY <1>0, <2>1, <2>3, <2>4
<1>12. CASE AliceExits
  <2>1. NewPort \in Port
    BY DEF NewPort, Port, Entries
  <2>2. port'["alice"] = [NewPort EXCEPT !.closed = TRUE]
    BY <1>12, <1>0 DEF AliceExits, Closed
  <2>3. /\ port'["alice"].ack_timeouts = <<>> /\ port'["alice"].expected = {}
        /\ port'["alice"].sequence_no = 0
    BY <2>2 DEF NewPort
  <2>4. Ordered(port'["alice"]) /\ Timely(port'["alice"], "alice")
    BY <2>3 DEF Ordered, Timely, Outstanding
  <2>5. e # "alice" => port'[e] = port[e]
    BY <1>12, <1>0 DEF AliceExits, Closed
  <2> QED
    BY <1>0, <2>4, <2>5
<1> QED
  BY <1>3, <1>5, <1>6, <1>7, <1>8, <1>9, <1>10, <1>11, <1>12 DEF Next, Listens, Sends, Tame

-----------------------------------------------------------------------------
(* Questions and answers *)

\* The process of the client does not come back.
LEMMA StaysGone ==
    ASSUME LinkTypes, Next, NEW e \in End, Gone(e)
    PROVE  Gone(e)'
<1>0. /\ thread \in [Thread -> States] /\ "Alice" \in Thread /\ "AliceLink" \in Thread
      /\ "SwitzerlandLink" \in Thread /\ "checker" \in Thread
      /\ e = "alice" /\ thread["Alice"] = "ended"
  BY Ends DEF LinkTypes, Gone
<1>1. CASE \E T \in SUBSET Thread : thread' = Ended(T)
  BY <1>0, <1>1 DEF Ended, Gone
<1>2. CASE thread' = thread
  BY <1>0, <1>2 DEF Gone
<1>3. CASE \E t \in Thread : \E s : t # "Alice" /\ thread' = [thread EXCEPT ![t] = s]
  BY <1>0, <1>3 DEF Gone
<1>4. CASE Handshakes
  <2>1. CASE ServerHandshake
    BY <2>1, <1>0, <1>1 DEF ServerHandshake, Gone
  <2>2. CASE AliceHandshake \/ HandshakeReset
    BY <2>2, <1>0, <1>3 DEF AliceHandshake, HandshakeReset
  <2>3. CASE \E x \in End : HandshakeFails(x)
    BY <2>3, <1>1, Ends DEF HandshakeFails
  <2> QED
    BY <1>4, <2>1, <2>2, <2>3 DEF Handshakes
<1>5. CASE Listens
  <2>1. thread' = thread \/ \E x \in End : thread' = Ended({Listener[x]})
    <3>1. "alice" \in End /\ Listener["alice"] = "AliceLink"
      BY Ends
    <3> QED
      BY <1>5, <3>1 DEF Listens, HandleMyIp, HandlePublicIp, ProcessAck, ProtocolError,
       HandleAndAck, NowReady, HandleErrorBye, HandleSignoff, ListenEnds
  <2>2. \A x \in End : {Listener[x]} \in SUBSET Thread
    BY Ends
  <2> QED
    BY <2>1, <2>2, <1>1, <1>2
<1>6. CASE Sends
  <2>1. \A t \in Thread : SendFails(t) => thread' = thread \/ thread' = Ended({t})
    BY DEF SendFails
  <2>2. \A t \in Thread : SendPlain(t) \/ SendLock(t) \/ SendRegister(t) \/ SendDump(t) => thread' = thread
    BY DEF SendPlain, SendLock, SendRegister, SendDump
  <2> QED
    BY <1>6, <2>1, <2>2, <1>1, <1>2 DEF Sends
<1>7. CASE CheckAckDeadlines \/ Bye \/ AliceExits
  BY <1>7, <1>0, <1>1, <1>2 DEF CheckAckDeadlines, Bye, AliceExits
<1>8. CASE AliceSend \/ AliceShutdown \/ PingerSend \/ Tick \/ Cut
  BY <1>8, <1>0, <1>2 DEF AliceSend, AliceShutdown, PingerSend, Tick, Cut
<1> QED
  BY <1>4, <1>5, <1>6, <1>7, <1>8 DEF Next

\* The tables of an end lose nothing.
Retains(e) ==
    /\ port'[e].sequence_no \in Nat /\ port[e].sequence_no <= port'[e].sequence_no
    /\ \A no : Due(e, no) => Due(e, no)'
    /\ port[e].reply_data_table \subseteq port'[e].reply_data_table

LEMMA FewerChained ==
    ASSUME LinkTypes, Numbers, Shapes, NEW e \in End, Chained(e), Expected(e),
           Questions(e)' \cup Dumping(e)' \subseteq Questions(e) \cup Dumping(e),
           \A q \in Questions(e)', d \in Dumping(e)' : q \in Questions(e) /\ d \in Dumping(e),
           Answers(e)' \cup Answering(e)' \subseteq Answers(e) \cup Answering(e),
           \A a \in Answers(e)', b \in Answering(e)' : a \in Answers(e) /\ b \in Answering(e),
           Retains(e)
    PROVE  Chained(e)' /\ Expected(e)'
<1>0. /\ \A q \in Questions(e) \cup Dumping(e) : q.no \in Nat
      /\ \A a \in Answers(e) \cup Answering(e) : a.reply_no \in Nat
  BY NumbersAre
<1>1. port[e].sequence_no \in Nat
  BY PortParts DEF LinkTypes
<1>2. \A no \in Nat : no < port[e].sequence_no => no < port'[e].sequence_no
  BY <1>1 DEF Retains
<1>3. Chained(e)'
  <2>1. /\ \A q \in Questions(e)' \cup Dumping(e)' : q.no < port'[e].sequence_no
        /\ \A q \in Questions(e)', d \in Dumping(e)' : q.no < d.no
        /\ \A a \in Answers(e)' \cup Answering(e)' :
              /\ a.reply_no < port'[e].sequence_no
              /\ \A q \in Questions(e)' \cup Dumping(e)' : a.reply_no < q.no
        /\ \A a \in Answers(e)', b \in Answering(e)' : a.reply_no < b.reply_no
    BY <1>0, <1>2 DEF Chained
  <2> QED
    BY <2>1 DEF Chained
<1>4. Expected(e)'
  <2>1. /\ \A q \in Questions(e)' \cup Dumping(e)' :
              /\ q.type \in ExpectsAck => Due(e, q.no)'
              /\ q.type \in ExpectsReply => q.no \in port'[e].reply_data_table
        /\ \A a \in Answers(e)' \cup Answering(e)' :
              /\ a.type = "ack" => Due(e, a.reply_no)'
              /\ a.type \in IsReply => a.reply_no \in port'[e].reply_data_table
    BY DEF Expected, Retains
  <2> QED
    BY <2>1 DEF Expected
<1> QED
  BY <1>3, <1>4

LEMMA HarmlessTodo ==
    ASSUME NEW e \in End, \A t \in Thread : HarmlessStep(t)
    PROVE  Dumping(e)' \subseteq Dumping(e) /\ Answering(e)' \subseteq Answering(e)
<1>1. Listener[Other(e)] \in Thread
  BY Ends
<1>2. Dumping(e)' \subseteq Dumping(e)
  BY DEF Dumping, ToDo, HarmlessStep, Harmless
<1>3. Answering(e)' \subseteq Answering(e)
  BY <1>1 DEF Answering, ToDo, HarmlessStep, Harmless
<1> QED
  BY <1>2, <1>3

LEMMA PlainWire ==
    ASSUME LinkTypes, NEW e \in End
    PROVE  /\ PlainStep(Other(e)) => Questions(e)' \subseteq Questions(e)
           /\ PlainStep(e) => Answers(e)' \subseteq Answers(e)
<1>1. \A x \in End : wire[x] \in Seq(Msg)
  BY DEF LinkTypes
<1>2. \A x \in End, m \in Msg : Elements(Append(wire[x], m)) = Elements(wire[x]) \cup {m}
  BY <1>1, Appended
<1>3. \A x \in End : wire[x] # <<>> => Elements(Tail(wire[x])) \subseteq Elements(wire[x])
  BY <1>1, Tailed
<1>4. Elements(<<>>) = {}
  BY DEF Elements
<1>5. \A x \in End : PlainStep(x) => \A m \in Elements(wire'[x]) : m \in Elements(wire[x]) \/ Plain(m)
  <2> SUFFICES ASSUME NEW x \in End, PlainStep(x), NEW m \in Elements(wire'[x])
               PROVE  m \in Elements(wire[x]) \/ Plain(m)
    OBVIOUS
  <2>1. CASE wire'[x] \in {wire[x], <<>>}
    BY <2>1, <1>4
  <2>2. CASE wire[x] # <<>> /\ wire'[x] = Tail(wire[x])
    BY <2>2, <1>3
  <2>3. CASE \E n \in Msg : Plain(n) /\ wire'[x] = Append(wire[x], n)
    BY <2>3, <1>2
  <2> QED
    BY <2>1, <2>2, <2>3 DEF PlainStep
<1> QED
  BY <1>5, Ends DEF Questions, Answers, Plain

LEMMA QuietChained ==
    ASSUME LinkTypes, Numbers, Shapes, NEW e \in End, Chained(e), Expected(e), Retains(e),
           \A t \in Thread : HarmlessStep(t), PlainStep(e), PlainStep(Other(e))
    PROVE  Chained(e)' /\ Expected(e)'
<1>1. /\ Dumping(e)' \subseteq Dumping(e) /\ Answering(e)' \subseteq Answering(e)
      /\ Questions(e)' \subseteq Questions(e) /\ Answers(e)' \subseteq Answers(e)
  BY HarmlessTodo, PlainWire
<1> QED
  BY <1>1, FewerChained

LEMMA SameRetains ==
    ASSUME LinkTypes, NEW e \in End, SameTables(e), given_up \subseteq given_up'
    PROVE  Retains(e)
<1>1. port[e].sequence_no \in Nat
  BY PortParts DEF LinkTypes
<1>2. \A no : Due(e, no) => Due(e, no)'
  BY DEF Due, Outstanding, SameTables
<1> QED
  BY <1>1, <1>2 DEF Retains, SameTables

LEMMA TameChained ==
    ASSUME LinkTypes, Numbers, Shapes, Tame, NEW e \in End, Chained(e), Expected(e)
    PROVE  Chained(e)' /\ Expected(e)'
<1>1. given_up' = given_up
  BY DEF Tame, Handshakes, ServerHandshake, AliceHandshake, HandshakeReset, HandshakeFails,
     ProtocolError, NowReady, HandleErrorBye, HandleSignoff, ListenEnds, SendLock, SendFails,
     AliceShutdown, PingerSend, Tick, Cut, vars, others
<1>2. Other(e) \in End
  BY Ends
<1> QED
  BY <1>1, <1>2, TamePort, TameWire, TameTodo, SameRetains, QuietChained

LEMMA RoundChained ==
    ASSUME LinkTypes, Numbers, Shapes, Tables, CheckAckDeadlines \/ Bye, NEW e \in End,
           Chained(e), Expected(e)
    PROVE  Chained(e)' /\ Expected(e)'
<1> DEFINE p == port["server"]
<1>0. /\ "server" \in End /\ Other(e) \in End /\ port \in [End -> Port] /\ todo \in [Thread -> Seq(Step)]
      /\ "checker" \in Thread
  BY Ends DEF LinkTypes
<1>1. PICK n \in 0..Len(p.ack_timeouts) :
         /\ Handles(p.ack_timeouts, n)
         /\ \/ port' = port /\ given_up' = given_up
            \/ /\ \/ port' = [port EXCEPT !["server"] = Checked(p, n)]
                  \/ port' = [port EXCEPT !["server"] = [Checked(p, n) EXCEPT !.closed = TRUE]]
               /\ given_up' = given_up \cup GivenUp(p, n)
  <2>1. CASE CheckAckDeadlines
    BY <2>1, <1>0 DEF CheckAckDeadlines
  <2>2. CASE Bye
    BY <2>2, <1>0 DEF Bye
  <2> QED
    BY <2>1, <2>2
<1>2. p \in Port /\ Ordered(p) /\ p.sequence_no \in Nat
  BY <1>0, PortParts DEF Tables
<1>3. LET q == Checked(p, n)
      IN  /\ q \in Port /\ Outstanding(q) \cup GivenUp(p, n) = Outstanding(p)
          /\ q.sequence_no = p.sequence_no /\ q.reply_data_table = p.reply_data_table
  <2> HIDE DEF p
  <2> QED
    BY <1>1, <1>2, CheckedIs
<1>4. \A t \in Thread : HarmlessStep(t)
  <2>1. CASE CheckAckDeadlines
    <3>1. todo' = todo \/ todo' = [todo EXCEPT !["checker"] = <<Do("bye")>>]
      BY <2>1 DEF CheckAckDeadlines
    <3>2. Harmless(<<Do("bye")>>)
      BY DEF Harmless, Do
    <3> QED
      BY <3>1, <3>2, <1>0 DEF HarmlessStep
  <2>2. CASE Bye
    BY <2>2, <1>0, Later DEF HarmlessStep, Bye, Done, ToDo
  <2> QED
    BY <2>1, <2>2
<1>5. PlainStep(e) /\ PlainStep(Other(e))
  BY DEF CheckAckDeadlines, Bye, PlainStep
<1>6. Retains(e)
  <2>1. CASE port'[e] = port[e] /\ given_up \subseteq given_up'
    <3>1. SameTables(e)
      BY <2>1 DEF SameTables
    <3> QED
      BY <2>1, <3>1, SameRetains
  <2>2. CASE e = "server" /\ port' # port
    <3>1. /\ Outstanding(port'[e]) \cup GivenUp(p, n) = Outstanding(p)
          /\ port'[e].sequence_no = p.sequence_no /\ port'[e].reply_data_table = p.reply_data_table
          /\ given_up' = given_up \cup GivenUp(p, n)
      <4> DEFINE c == Checked(p, n)
      <4> HIDE DEF c
      <4>1. c \in Port
        BY <1>3 DEF c
      <4>2. port'["server"] \in {c, [c EXCEPT !.closed = TRUE]}
        BY <1>0, <1>1, <2>2 DEF c
      <4>3. /\ port'["server"].ack_timeouts = c.ack_timeouts
            /\ port'["server"].sequence_no = c.sequence_no
            /\ port'["server"].reply_data_table = c.reply_data_table
        BY <4>1, <4>2 DEF Port
      <4>4. Outstanding(port'["server"]) = Outstanding(c)
        BY <4>3 DEF Outstanding
      <4> QED
        BY <1>1, <1>3, <2>2, <4>3, <4>4 DEF c
    <3>2. \A no : Due(e, no) => Due(e, no)'
      BY <2>2, <3>1 DEF Due
    <3> QED
      BY <1>2, <2>2, <3>1, <3>2 DEF Retains
  <2>3. e # "server" => port'[e] = port[e]
    BY <1>0, <1>1
  <2>4. given_up \subseteq given_up'
    BY <1>1
  <2> QED
    BY <2>1, <2>2, <2>3, <2>4
<1> QED
  BY <1>0, <1>4, <1>5, <1>6, QuietChained

\* A message is registered: its number is the largest so far, and what it
\* expects is in the tables.
LEMMA RegistersDue ==
    ASSUME LinkTypes, NEW e \in End, NEW m \in Msg, Registers(e, m), given_up' = given_up,
           NEW w, w = WithNumber(port[e], m)
    PROVE  /\ Retains(e) /\ w \in Msg /\ w.type = m.type /\ w.reply_no = m.reply_no
           /\ m.type \in Numbered => /\ w.no = port[e].sequence_no
                                     /\ w.no < port'[e].sequence_no
           /\ m.type \in ExpectsAck => Due(e, w.no)'
           /\ m.type \in ExpectsReply => w.no \in port'[e].reply_data_table
<1> DEFINE p == port[e]
           q == Registered(p, m, e)
           x == Entry(Deadline[e], p.sequence_no, m.type = "ping")
<1>1. p \in Port /\ now \in Nat /\ p.sequence_no \in Nat /\ p.ack_timeouts \in Seq(Entries)
  BY PortParts DEF LinkTypes
<1>2. /\ q \in Port
      /\ m.type \in ExpectsAck => q.ack_timeouts = Append(p.ack_timeouts, x)
      /\ m.type \notin ExpectsAck => q.ack_timeouts = p.ack_timeouts
      /\ q.reply_data_table =
            IF m.type \in ExpectsReply THEN p.reply_data_table \cup {p.sequence_no}
                                       ELSE p.reply_data_table
      /\ q.sequence_no = IF m.type \in Numbered THEN p.sequence_no + 1 ELSE p.sequence_no
      /\ w \in Msg /\ w.type = m.type /\ w.reply_no = m.reply_no
      /\ m.type \in Numbered => w.no = p.sequence_no
  <2>1. w = WithNumber(p, m)
    OBVIOUS
  <2> DEFINE v == WithNumber(p, m)
  <2> HIDE DEF p
  <2>2. /\ q \in Port
        /\ m.type \in ExpectsAck => q.ack_timeouts = Append(p.ack_timeouts, x)
        /\ m.type \notin ExpectsAck => q.ack_timeouts = p.ack_timeouts
        /\ q.reply_data_table =
              IF m.type \in ExpectsReply THEN p.reply_data_table \cup {p.sequence_no}
                                         ELSE p.reply_data_table
        /\ q.sequence_no = IF m.type \in Numbered THEN p.sequence_no + 1 ELSE p.sequence_no
    BY <1>1, RegisteredIs
  <2>3. /\ v \in Msg /\ v.type = m.type /\ v.reply_no = m.reply_no
        /\ m.type \in Numbered => v.no = p.sequence_no
    BY <1>1, RegisteredIs
  <2>4. w = v
    BY <2>1
  <2> HIDE DEF v, q, x
  <2> QED
    BY <2>2, <2>3, <2>4
<1>3. /\ port'[e].ack_timeouts = q.ack_timeouts /\ port'[e].sequence_no = q.sequence_no
      /\ port'[e].reply_data_table = q.reply_data_table
  BY DEF Registers
<1>4. m.type \in ExpectsAck => Outstanding(q) = Outstanding(p) \cup {p.sequence_no}
  <2> SUFFICES ASSUME m.type \in ExpectsAck
               PROVE  Outstanding(q) = Outstanding(p) \cup {p.sequence_no}
    OBVIOUS
  <2> DEFINE s == p.ack_timeouts
             r == Append(s, x)
  <2>1. x \in Entries /\ x.no = p.sequence_no
    BY <1>1, Clocks DEF Entry, Entries
  <2> HIDE DEF x
  <2>2. /\ DOMAIN r = 1..(Len(s) + 1) /\ DOMAIN s = 1..Len(s) /\ Len(s) \in Nat
        /\ \A i \in 1..Len(s) : r[i] = s[i]
        /\ r[Len(s) + 1] = x
    BY <1>1, <2>1, Appended
  <2>3. q.ack_timeouts = r
    BY <1>2
  <2> HIDE DEF r, q
  <2>4. \A i \in DOMAIN r : (i \in DOMAIN s /\ r[i] = s[i]) \/ r[i] = x
    BY <2>2
  <2>5. \A i \in DOMAIN s : i \in DOMAIN r /\ r[i] = s[i]
    BY <2>2
  <2>6. Len(s) + 1 \in DOMAIN r
    BY <2>2
  <2> QED
    BY <2>1, <2>2, <2>3, <2>4, <2>5, <2>6 DEF Outstanding
<1>5. m.type \notin ExpectsAck => Outstanding(q) = Outstanding(p)
  BY <1>2 DEF Outstanding
<1>6. Outstanding(port'[e]) = Outstanding(q)
  BY <1>3 DEF Outstanding
<1> HIDE DEF p, q, x
<1>7. q.sequence_no \in Nat /\ p.sequence_no <= q.sequence_no
      /\ (m.type \in Numbered => p.sequence_no < q.sequence_no)
  <2>1. q.sequence_no = p.sequence_no \/ (q.sequence_no = p.sequence_no + 1)
    BY <1>2
  <2>2. m.type \in Numbered => q.sequence_no = p.sequence_no + 1
    BY <1>2
  <2> QED
    BY <1>1, <2>1, <2>2
<1>8. \A no : Due(e, no) => Due(e, no)'
  BY <1>4, <1>5, <1>6 DEF Due, p
<1>9. Retains(e)
  BY <1>2, <1>3, <1>7, <1>8 DEF Retains, p
<1>10. ASSUME m.type \in ExpectsAck
       PROVE  Due(e, w.no)'
  <2>1. w.no = p.sequence_no
    BY <1>2, <1>10, Kinds
  <2>2. w.no \in Outstanding(port'[e])
    BY <1>4, <1>6, <1>10, <2>1
  <2> QED
    BY <2>2 DEF Due
<1>11. m.type \in ExpectsReply => w.no \in port'[e].reply_data_table
  BY <1>2, <1>3, Kinds
<1>12. m.type \in Numbered => w.no = p.sequence_no /\ w.no < port'[e].sequence_no
  BY <1>2, <1>3, <1>7
<1> QED
  BY <1>2, <1>9, <1>10, <1>11, <1>12 DEF p

\* A new question comes after all others, and nobody else is about to dump one.
LEMMA NewChained ==
    ASSUME LinkTypes, Numbers, Shapes, NEW e \in End, Chained(e), Expected(e), Retains(e), NEW w \in Msg,
           w.type \in Numbered, w.no = port[e].sequence_no, w.no < port'[e].sequence_no,
           w.type \in ExpectsAck => Due(e, w.no)',
           w.type \in ExpectsReply => w.no \in port'[e].reply_data_table,
           Questions(e)' \cup Dumping(e)' \subseteq Questions(e) \cup Dumping(e) \cup {w},
           \A q \in Questions(e)', d \in Dumping(e)' : q # w,
           \A q \in Questions(e)', d \in Dumping(e)' : d = w \/ (q \in Questions(e) /\ d \in Dumping(e)),
           Answers(e)' \subseteq Answers(e), Answering(e)' \subseteq Answering(e)
    PROVE  Chained(e)' /\ Expected(e)'
<1>0. /\ \A q \in Questions(e) \cup Dumping(e) : q.no \in Nat
      /\ \A a \in Answers(e) \cup Answering(e) : a.reply_no \in Nat
  BY NumbersAre
<1>1. port[e].sequence_no \in Nat
  BY PortParts DEF LinkTypes
<1>2. \A no \in Nat : no < port[e].sequence_no => no < port'[e].sequence_no
  BY <1>1 DEF Retains
<1>3. \A q \in Questions(e) \cup Dumping(e) : q.no < w.no
  BY DEF Chained
<1>4. \A a \in Answers(e) \cup Answering(e) : a.reply_no < w.no
  BY DEF Chained
<1>5. Chained(e)'
  <2>1. \A q \in Questions(e)' \cup Dumping(e)' : q.no < port'[e].sequence_no
    BY <1>0, <1>2 DEF Chained
  <2>2. \A q \in Questions(e)', d \in Dumping(e)' : q.no < d.no
    BY <1>3 DEF Chained
  <2>3. \A a \in Answers(e)' \cup Answering(e)' :
           /\ a.reply_no < port'[e].sequence_no
           /\ \A q \in Questions(e)' \cup Dumping(e)' : a.reply_no < q.no
    BY <1>0, <1>2, <1>4 DEF Chained
  <2>4. \A a \in Answers(e)', b \in Answering(e)' : a.reply_no < b.reply_no
    BY DEF Chained
  <2> QED
    BY <2>1, <2>2, <2>3, <2>4 DEF Chained
<1>6. Expected(e)'
  <2>1. \A q \in Questions(e)' \cup Dumping(e)' :
           /\ q.type \in ExpectsAck => Due(e, q.no)'
           /\ q.type \in ExpectsReply => q.no \in port'[e].reply_data_table
    BY DEF Expected, Retains
  <2>2. \A a \in Answers(e)' \cup Answering(e)' :
           /\ a.type = "ack" => Due(e, a.reply_no)'
           /\ a.type \in IsReply => a.reply_no \in port'[e].reply_data_table
    BY DEF Expected, Retains
  <2> QED
    BY <2>1, <2>2 DEF Expected
<1> QED
  BY <1>5, <1>6

\* What a message that is carried adds.
LEMMA CarriedAdds ==
    ASSUME LinkTypes, NEW x \in End, NEW w \in Msg, wire' = Carried(Other(x), w)
    PROVE  /\ Answers(x)' = Answers(x) /\ Questions(Other(x))' = Questions(Other(x))
           /\ Questions(x)' \subseteq Questions(x) \cup {w}
           /\ w.type \notin Numbered => Questions(x)' \subseteq Questions(x)
           /\ Answers(Other(x))' \subseteq Answers(Other(x)) \cup {w}
           /\ w.type \notin Answer => Answers(Other(x))' \subseteq Answers(Other(x))
<1> DEFINE y == Other(x)
<1>1. y \in End /\ Other(y) = x /\ \A e \in End : wire[e] \in Seq(Msg)
  BY Ends DEF LinkTypes
<1>2. wire'[x] = wire[x] /\ wire'[y] \in {wire[y], Append(wire[y], w)}
  <2>1. wire \in [End -> Seq(Msg)] /\ wire' = Carried(y, w)
    BY DEF LinkTypes
  <2> HIDE DEF y
  <2> QED
    BY <1>1, <2>1, CarriedIs
<1>3. Elements(Append(wire[y], w)) = Elements(wire[y]) \cup {w}
  <2> HIDE DEF y
  <2> QED
    BY <1>1, Appended
<1>4. Elements(wire'[y]) \subseteq Elements(wire[y]) \cup {w}
  BY <1>2, <1>3
<1>5. Answers(x)' = Answers(x) /\ Questions(y)' = Questions(y)
  BY <1>1, <1>2 DEF Answers, Questions
<1>6. /\ Questions(x)' \subseteq Questions(x) \cup {w}
      /\ w.type \notin Numbered => Questions(x)' \subseteq Questions(x)
  BY <1>4 DEF Questions
<1>7. /\ Answers(y)' \subseteq Answers(y) \cup {w}
      /\ w.type \notin Answer => Answers(y)' \subseteq Answers(y)
  BY <1>4 DEF Answers
<1> QED
  BY <1>5, <1>6, <1>7

\* What a message that is taken takes away.
LEMMA TakenAway ==
    ASSUME LinkTypes, NEW x \in End, wire[x] # <<>>, wire' = [wire EXCEPT ![x] = Tail(@)]
    PROVE  /\ Answers(Other(x))' = Answers(Other(x)) /\ Questions(x)' = Questions(x)
           /\ Answers(x)' \subseteq Answers(x) /\ Questions(Other(x))' \subseteq Questions(Other(x))
           /\ \A m \in Answers(x)' \cup Questions(Other(x))' : m \in Elements(Tail(wire[x]))
<1> DEFINE y == Other(x)
<1>1. y \in End /\ Other(y) = x /\ x # y /\ wire \in [End -> Seq(Msg)]
  BY Ends DEF LinkTypes
<1>2. wire'[y] = wire[y] /\ wire'[x] = Tail(wire[x])
  BY <1>1
<1>3. Elements(Tail(wire[x])) \subseteq Elements(wire[x])
  BY WireIs
<1>4. Answers(y)' = Answers(y) /\ Questions(x)' = Questions(x)
  BY <1>2 DEF Answers, Questions
<1>5. Answers(x)' \subseteq Answers(x) /\ \A m \in Answers(x)' : m \in Elements(Tail(wire[x]))
  BY <1>2, <1>3 DEF Answers
<1>6. Questions(y)' \subseteq Questions(y) /\ \A m \in Questions(y)' : m \in Elements(Tail(wire[x]))
  BY <1>1, <1>2, <1>3 DEF Questions
<1> QED
  BY <1>4, <1>5, <1>6

\* Threads that do not come to dump or to answer a message.
LEMMA FewerDumping ==
    ASSUME NEW e \in End,
           \A t \in Thread : EndOf[t] = e =>
              todo'[t] = todo[t] \/ (todo'[t] # <<>> => Head(todo'[t]).do # "dump")
    PROVE  Dumping(e)' \subseteq Dumping(e)
BY DEF Dumping, ToDo

LEMMA FewerAnswering ==
    ASSUME NEW e \in End,
           LET t == Listener[Other(e)]
           IN  \/ todo'[t] = todo[t]
               \/ todo'[t] # <<>> => Head(todo'[t]).do # "send" \/ Head(todo'[t]).msg.type \notin Answer
    PROVE  Answering(e)' \subseteq Answering(e)
<1>1. Listener[Other(e)] \in Thread
  BY Ends
<1> QED
  BY <1>1 DEF Answering, ToDo

LEMMA ToDump ==
    ASSUME Locked, NEW t \in Thread, todo[t] # <<>>, Head(todo[t]).do \in {"register", "dump"},
           NEW u \in Thread, EndOf[u] = EndOf[t], ToDo(u, "dump")
    PROVE  u = t
BY DEF Locked, ToDo

\* A message is registered.
LEMMA RegisterChained ==
    ASSUME LinkTypes, Numbers, Shapes, Locked, NEW t \in Thread, SendRegister(t), NEW e \in End,
           Chained(e), Expected(e)
    PROVE  Chained(e)' /\ Expected(e)'
<1> DEFINE x == EndOf[t]
           m == Head(todo[t]).msg
<1>1. /\ m \in Msg /\ x \in End /\ Registers(x, m)
      /\ todo[t] # <<>> /\ Head(todo[t]) \in Step /\ Head(todo[t]).do = "register"
      /\ \A y \in End : y # x => port'[y] = port[y]
  BY SendsPort DEF SendRegister, SendPlain, ToDo
<1>2. m.type \in ExpectsAck /\ m.type \in Numbered /\ m.type \notin ExpectsReply
  BY <1>1, MayDoIs, Kinds DEF MayDo
<1>3. PICK w : w = WithNumber(port[x], m)
  OBVIOUS
<1>4. /\ wire' = wire /\ given_up' = given_up /\ todo' = Replace(t, Dump(w))
  BY <1>3 DEF SendRegister, others
<1>5. /\ \A u \in Thread : u # t => todo'[u] = todo[u]
      /\ todo'[t] # <<>> /\ Head(todo'[t]) = Dump(w) /\ Head(todo'[t]).do = "dump"
      /\ Head(todo'[t]).msg = w
  <2>1. /\ \A u \in Thread : u # t => todo'[u] = todo[u]
        /\ todo'[t] = <<Dump(w)>> \o Tail(todo[t])
    BY <1>4 DEF Replace, LinkTypes
  <2>2. todo'[t] # <<>> /\ Head(todo'[t]) = Dump(w)
    BY <1>1, <2>1, TodoIs
  <2> QED
    BY <2>1, <2>2 DEF Dump
<1>6. Questions(e)' = Questions(e) /\ Answers(e)' = Answers(e)
  BY <1>4 DEF Questions, Answers
<1>7. Answering(e)' \subseteq Answering(e)
  <2>1. LET u == Listener[Other(e)]
        IN  todo'[u] = todo[u] \/ Head(todo'[u]).do # "send"
    BY <1>5, Ends
  <2> QED
    BY <2>1, FewerAnswering
<1>8. CASE e = x
  <2>1. /\ Retains(e) /\ w \in Msg /\ w.type = m.type
        /\ w.no = port[e].sequence_no /\ w.no < port'[e].sequence_no
        /\ Due(e, w.no)'
    <3> HIDE DEF x, m
    <3> QED
      BY <1>1, <1>2, <1>3, <1>4, <1>8, RegistersDue
  <2>2. Dumping(e)' \subseteq {w}
    <3> SUFFICES ASSUME NEW u \in Thread, EndOf[u] = e, ToDo(u, "dump")'
                 PROVE  Head(todo'[u]).msg = w
      BY DEF Dumping
    <3>1. u = t \/ ToDo(u, "dump")
      BY <1>5 DEF ToDo
    <3>2. u = t
      BY <1>1, <1>8, <3>1, ToDump
    <3> QED
      BY <1>5, <3>2
  <2>3. \A q \in Questions(e) : q # w
    BY <2>1, NumbersAre DEF Chained
  <2> QED
    BY <1>2, <1>6, <1>7, <2>1, <2>2, <2>3, NewChained
<1>9. CASE e # x
  <2>1. SameTables(e)
    BY <1>1, <1>9 DEF SameTables
  <2>2. Retains(e)
    BY <1>4, <2>1, SameRetains
  <2>3. Dumping(e)' \subseteq Dumping(e)
    BY <1>5, <1>9, FewerDumping
  <2> QED
    BY <1>6, <1>7, <2>2, <2>3, FewerChained
<1> QED
  BY <1>8, <1>9

\* It goes onto the wire.
LEMMA DumpChained ==
    ASSUME LinkTypes, Numbers, Shapes, Locked, NEW t \in Thread, SendDump(t), NEW e \in End,
           Chained(e), Expected(e)
    PROVE  Chained(e)' /\ Expected(e)'
<1> DEFINE x == EndOf[t]
<1>1. PICK w : w = Head(todo[t]).msg
  OBVIOUS
<1>2. /\ todo[t] # <<>> /\ Head(todo[t]).do = "dump" /\ x \in End /\ w \in Msg
      /\ w.type \in ExpectsAck
  <2>1. todo[t] # <<>> /\ Head(todo[t]).do = "dump" /\ x \in End
    BY Ends DEF SendDump, ToDo
  <2>2. Head(todo[t]) \in Step /\ MayDo(t, 1, Head(todo[t]))
    BY <2>1, MayDoIs
  <2> QED
    BY <1>1, <2>1, <2>2, StepParts DEF MayDo
<1>3. wire' = Carried(Other(x), w) /\ todo' = Done(t) /\ given_up' = given_up
  BY <1>1 DEF SendDump, Dumped, others
<1>4. /\ \A u \in Thread : u # t => todo'[u] = todo[u]
      /\ todo'[t] = Tail(todo[t]) /\ Harmless(todo'[t])
      /\ todo'[t] # <<>> => Head(todo'[t]).do # "dump"
  <2>1. /\ \A u \in Thread : u # t => todo'[u] = todo[u]
        /\ todo'[t] = Tail(todo[t])
    BY <1>3 DEF Done, LinkTypes
  <2> QED
    BY <1>2, <2>1, Later DEF Harmless
<1>5. /\ Answers(x)' = Answers(x) /\ Questions(Other(x))' = Questions(Other(x))
      /\ Questions(x)' \subseteq Questions(x) \cup {w}
      /\ Answers(Other(x))' \subseteq Answers(Other(x))
  <2>1. w.type \notin Answer
    BY <1>2, Kinds
  <2> HIDE DEF x
  <2> QED
    BY <1>2, <1>3, <2>1, CarriedAdds
<1>6. Answering(e)' \subseteq Answering(e)
  <2>1. LET u == Listener[Other(e)]
        IN  \/ todo'[u] = todo[u]
            \/ todo'[u] # <<>> => Head(todo'[u]).do # "send" \/ Head(todo'[u]).msg.type \notin Answer
    BY <1>4, Ends DEF Harmless
  <2> QED
    BY <2>1, FewerAnswering
<1>7. SameTables(e)
  BY <1>2 DEF SendDump, SameTables, LinkTypes, Port
<1>8. Retains(e)
  BY <1>3, <1>7, SameRetains
<1>9. CASE e = x
  <2>1. Dumping(e)' = {}
    <3> SUFFICES ASSUME NEW u \in Thread, EndOf[u] = e, ToDo(u, "dump")'
                 PROVE  FALSE
      BY DEF Dumping
    <3>1. u # t
      BY <1>4 DEF ToDo
    <3>2. ToDo(u, "dump")
      BY <1>4, <3>1 DEF ToDo
    <3> QED
      BY <1>2, <1>9, <3>1, <3>2, ToDump
  <2>2. w \in Dumping(e)
    BY <1>1, <1>2, <1>9 DEF Dumping, ToDo
  <2> QED
    BY <1>5, <1>6, <1>8, <1>9, <2>1, <2>2, FewerChained
<1>10. CASE e # x
  <2>1. e = Other(x)
    BY <1>2, <1>10, Ends DEF Other
  <2>2. Dumping(e)' \subseteq Dumping(e)
    BY <1>4, <1>10, FewerDumping
  <2> QED
    BY <1>5, <1>6, <1>8, <2>1, <2>2, FewerChained
<1> QED
  BY <1>9, <1>10

\* A message is sent at once; if it is an answer, its listener was about to
\* give it.
LEMMA SentChained ==
    ASSUME LinkTypes, Numbers, Shapes, NEW x \in End, NEW m \in Msg, Registers(x, m),
           port'[Other(x)] = port[Other(x)], given_up' = given_up,
           wire' = Carried(Other(x), WithNumber(port[x], m)), Dumping(x) = {},
           \A t \in Thread : HarmlessStep(t),
           m.type \in Answer => m \in Answering(Other(x)) /\ Answering(Other(x))' = {},
           NEW e \in End, Chained(e), Expected(e)
    PROVE  Chained(e)' /\ Expected(e)'
<1>1. PICK w : w = WithNumber(port[x], m)
  OBVIOUS
<1>2. /\ Retains(x) /\ w \in Msg /\ w.type = m.type /\ w.reply_no = m.reply_no
      /\ m.type \in Numbered => /\ w.no = port[x].sequence_no
                                /\ w.no < port'[x].sequence_no
      /\ m.type \in ExpectsAck => Due(x, w.no)'
      /\ m.type \in ExpectsReply => w.no \in port'[x].reply_data_table
  BY <1>1, RegistersDue
<1>3. /\ Answers(x)' = Answers(x) /\ Questions(Other(x))' = Questions(Other(x))
      /\ Questions(x)' \subseteq Questions(x) \cup {w}
      /\ w.type \notin Numbered => Questions(x)' \subseteq Questions(x)
      /\ Answers(Other(x))' \subseteq Answers(Other(x)) \cup {w}
      /\ w.type \notin Answer => Answers(Other(x))' \subseteq Answers(Other(x))
  BY <1>1, <1>2, CarriedAdds
<1>4. Dumping(e)' \subseteq Dumping(e) /\ Answering(e)' \subseteq Answering(e)
  BY HarmlessTodo
<1>5. CASE e = x
  <2>1. Dumping(e)' = {}
    BY <1>4, <1>5
  <2>2. CASE w.type \in Numbered
    BY <1>2, <1>3, <1>4, <1>5, <2>1, <2>2, NewChained
  <2>3. CASE w.type \notin Numbered
    BY <1>2, <1>3, <1>4, <1>5, <2>1, <2>3, FewerChained
  <2> QED
    BY <2>2, <2>3
<1>6. CASE e = Other(x)
  <2>1. SameTables(e)
    BY <1>6 DEF SameTables
  <2>2. Retains(e)
    BY <2>1, SameRetains
  <2>3. CASE w.type \notin Answer
    BY <1>3, <1>4, <1>6, <2>2, <2>3, FewerChained
  <2>4. CASE w.type \in Answer
    <3>1. w = m
      BY <1>1, <1>2, <2>4, Kinds DEF WithNumber
    <3>2. w \in Answering(e) /\ Answering(e)' = {}
      BY <1>2, <1>6, <2>4, <3>1
    <3>3. /\ Questions(e)' = Questions(e) /\ Answers(e)' \subseteq Answers(e) \cup {w}
      BY <1>3, <1>6
    <3> QED
      BY <1>4, <2>2, <3>2, <3>3, FewerChained
  <2> QED
    BY <2>3, <2>4
<1> QED
  BY <1>5, <1>6, Ends DEF Other

LEMMA SendPlainChained ==
    ASSUME LinkTypes, Numbers, Shapes, Locked, NEW t \in Thread, SendPlain(t), NEW e \in End,
           Chained(e), Expected(e)
    PROVE  Chained(e)' /\ Expected(e)'
<1> DEFINE x == EndOf[t]
           m == Head(todo[t]).msg
<1>1. /\ m \in Msg /\ x \in End /\ todo[t] # <<>> /\ Head(todo[t]) \in Step
      /\ Head(todo[t]).do = "send" /\ MayDo(t, 1, Head(todo[t]))
      /\ \A y \in End : y # x => port'[y] = port[y]
  BY SendsPort, MayDoIs DEF SendPlain, ToDo
<1>2. given_up' = given_up /\ todo' = Done(t)
  BY DEF SendPlain, Dumped, others
<1>3. /\ \A u \in Thread : u # t => todo'[u] = todo[u]
      /\ todo'[t] = Tail(todo[t]) /\ Harmless(todo'[t])
  <2>1. /\ \A u \in Thread : u # t => todo'[u] = todo[u]
        /\ todo'[t] = Tail(todo[t])
    BY <1>2 DEF Done, LinkTypes
  <2> QED
    BY <1>1, <2>1, Later
<1>4. \A u \in Thread : HarmlessStep(u)
  BY <1>3 DEF HarmlessStep
<1>5. CASE port[x].closed
  <2>1. wire' = wire /\ port' = port
    BY <1>5 DEF SendPlain
  <2>2. PlainStep(e) /\ PlainStep(Other(e)) /\ SameTables(e)
    BY <2>1 DEF PlainStep, SameTables
  <2>3. Retains(e)
    BY <1>2, <2>2, SameRetains
  <2> QED
    BY <1>4, <2>2, <2>3, QuietChained
<1>6. CASE ~port[x].closed
  <2>1. wire' = Carried(Other(x), WithNumber(port[x], m))
    BY <1>6 DEF SendPlain, Dumped
  <2>2. Registers(x, m)
    BY <1>6, SendsPort
  <2>3. Dumping(x) = {}
    <3>1. MayLock(status_lock, t) /\ ~ToDo(t, "dump")
      BY <1>1 DEF SendPlain, ToDo
    <3> QED
      BY <1>1, <3>1, DumpingIs
  <2>4. ASSUME m.type \in Answer
        PROVE  m \in Answering(Other(x)) /\ Answering(Other(x))' = {}
    <3>1. t = Listener[x]
      BY <1>1, <2>4 DEF MayDo
    <3>2. Other(Other(x)) = x
      BY <1>1, Ends
    <3>3. m \in Answering(Other(x))
      BY <1>1, <2>4, <3>1, <3>2 DEF Answering, ToDo
    <3>4. Answering(Other(x))' = {}
      BY <1>3, <3>1, <3>2 DEF Answering, ToDo, Harmless
    <3> QED
      BY <3>3, <3>4
  <2>5. port'[Other(x)] = port[Other(x)]
    BY <1>1, Ends
  <2> HIDE DEF x, m
  <2> QED
    BY <1>1, <1>2, <1>4, <2>1, <2>2, <2>3, <2>4, <2>5, SentChained
<1> QED
  BY <1>5, <1>6

LEMMA AliceSendChained ==
    ASSUME LinkTypes, Numbers, Shapes, Locked, AliceSend, NEW e \in End, Chained(e), Expected(e)
    PROVE  Chained(e)' /\ Expected(e)'
<1>0. /\ "alice" \in End /\ "server" \in End /\ Other("alice") = "server"
      /\ "Alice" \in Thread /\ EndOf["Alice"] = "alice" /\ port \in [End -> Port]
  BY Ends DEF LinkTypes
<1>1. PICK x \in AliceSends :
         LET m == Message(x, NoNumber, NoNumber)
         IN  /\ wire' = Carried("server", WithNumber(port["alice"], m))
             /\ port' = [port EXCEPT !["alice"] = Registered(port["alice"], m, "alice")]
  BY <1>0 DEF AliceSend
<1>2. PICK m : m = Message(x, NoNumber, NoNumber)
  OBVIOUS
<1>3. m \in Msg /\ m.type \notin Answer
  <2>1. NoNumber \in Number /\ x \in Kind
    BY OthersSend DEF Number
  <2> QED
    BY <1>2, <2>1, MsgParts, OthersSend
<1>4. /\ wire' = Carried("server", WithNumber(port["alice"], m))
      /\ port'["alice"] = Registered(port["alice"], m, "alice")
      /\ port'["server"] = port["server"]
  BY <1>0, <1>1, <1>2
<1>5. Registers("alice", m)
  <2>1. Registered(port["alice"], m, "alice").closed = port["alice"].closed
    BY <1>0 DEF Registered, Port
  <2> QED
    BY <1>4, <2>1 DEF Registers
<1>6. todo' = todo /\ given_up' = given_up
  BY DEF AliceSend, others
<1>7. \A t \in Thread : HarmlessStep(t)
  BY <1>6 DEF HarmlessStep
<1>8. Dumping("alice") = {}
  <2>1. MayLock(status_lock, "Alice") /\ ~ToDo("Alice", "dump")
    BY DEF AliceSend, ToDo
  <2> QED
    BY <1>0, <2>1, DumpingIs
<1> QED
  BY <1>0, <1>3, <1>4, <1>5, <1>6, <1>7, <1>8, SentChained

\* A listener takes a question, which it is about to answer.
LEMMA TakesQuestion ==
    ASSUME LinkTypes, Numbers, Shapes, InOrder, NEW x \in End, wire[x] # <<>>,
           wire' = [wire EXCEPT ![x] = Tail(@)], port' = port, given_up' = given_up,
           Head(wire[x]).type \in Numbered,
           todo[Listener[x]] = <<>>, \A t \in Thread : t # Listener[x] => todo'[t] = todo[t],
           NEW s, s = Head(todo'[Listener[x]]), s.do = "send", s.msg.reply_no = Head(wire[x]).no,
           \/ s.msg.type = "ack" /\ Head(wire[x]).type \in ExpectsAck
           \/ s.msg.type = "public-ip" /\ Head(wire[x]).type \in ExpectsReply,
           NEW e \in End, Chained(e), Expected(e)
    PROVE  Chained(e)' /\ Expected(e)'
<1>1. PICK h : h = Head(wire[x])
  OBVIOUS
<1>2. PICK a : a = s.msg
  OBVIOUS
<1>3. SameTables(e) /\ Retains(e)
  <2>1. SameTables(e)
    BY DEF SameTables
  <2> QED
    BY <2>1, SameRetains
<1>4. /\ Answers(Other(x))' = Answers(Other(x)) /\ Questions(x)' = Questions(x)
      /\ Answers(x)' \subseteq Answers(x) /\ Questions(Other(x))' \subseteq Questions(Other(x))
      /\ \A m \in Answers(x)' \cup Questions(Other(x))' : m \in Elements(Tail(wire[x]))
  BY TakenAway
<1>5. Listener[x] \in Thread /\ EndOf[Listener[x]] = x /\ Other(x) \in End /\ Other(Other(x)) = x /\ Other(x) # x
  BY Ends
<1>6. Dumping(e)' \subseteq Dumping(e)
  <2>1. \A t \in Thread : todo'[t] = todo[t] \/ Head(todo'[t]).do # "dump"
    OBVIOUS
  <2> QED
    BY <2>1, FewerDumping
<1>7. CASE e = x
  <2>1. todo'[Listener[Other(e)]] = todo[Listener[Other(e)]]
    BY <1>7, Ends
  <2>2. Answering(e)' \subseteq Answering(e)
    BY <2>1, FewerAnswering
  <2> QED
    BY <1>3, <1>4, <1>6, <1>7, <2>2, FewerChained
<1>8. CASE e = Other(x)
  <2>1. Answering(e) = {} /\ Answering(e)' \subseteq {a}
    BY <1>2, <1>5, <1>8 DEF Answering, ToDo
  <2>2. h \in Questions(e)
    BY <1>1, <1>5, <1>8, WireIs DEF Questions
  <2>3. /\ h.no \in Nat /\ \A q \in Questions(e) \cup Dumping(e) : q.no \in Nat
        /\ \A y \in Answers(e) : y.reply_no \in Nat
    BY <2>2, NumbersAre
  <2>4. h.no < port[e].sequence_no /\ port'[e].sequence_no = port[e].sequence_no
    BY <2>2 DEF Chained
  <2>5. \A q \in Questions(e)' \cup Dumping(e)' : h.no < q.no /\ q \in Questions(e) \cup Dumping(e)
    <3>1. \A q \in Questions(e)' : h.no < q.no /\ q \in Questions(e)
      <4>1. wire[x] \in Seq(Msg) /\ Right(wire[x]) /\ Increasing(wire[x])
        BY DEF LinkTypes, Numbers, InOrder
      <4>2. \A m \in Elements(Tail(wire[x])) : m.type \in Numbered => h.no < m.no
        BY <1>1, <4>1, RestInOrder
      <4>3. \A q \in Questions(e) : q.type \in Numbered
        BY DEF Questions
      <4> QED
        BY <1>4, <1>8, <4>2, <4>3
    <3>2. \A q \in Dumping(e)' : h.no < q.no /\ q \in Dumping(e)
      BY <1>6, <2>2 DEF Chained
    <3> QED
      BY <3>1, <3>2
  <2>6. \A y \in Answers(e) : y.reply_no < h.no
    BY <2>2 DEF Chained
  <2>7. a.reply_no = h.no /\ Answers(e)' = Answers(e)
    BY <1>1, <1>2, <1>4, <1>8
  <2>8. Chained(e)'
    <3>1. /\ \A q \in Questions(e)' \cup Dumping(e)' : q.no < port'[e].sequence_no
          /\ \A q \in Questions(e)', d \in Dumping(e)' : q.no < d.no
      BY <1>4, <1>6, <1>8, <2>4, <2>5 DEF Chained
    <3>2. \A y \in Answers(e)' \cup Answering(e)' :
             /\ y.reply_no < port'[e].sequence_no
             /\ \A q \in Questions(e)' \cup Dumping(e)' : y.reply_no < q.no
      BY <2>1, <2>4, <2>5, <2>7 DEF Chained
    <3>3. \A y \in Answers(e)', b \in Answering(e)' : y.reply_no < b.reply_no
      BY <2>1, <2>6, <2>7
    <3> QED
      BY <3>1, <3>2, <3>3 DEF Chained
  <2>9. Expected(e)'
    <3>1. \A q \in Questions(e)' \cup Dumping(e)' :
             /\ q.type \in ExpectsAck => Due(e, q.no)'
             /\ q.type \in ExpectsReply => q.no \in port'[e].reply_data_table
      BY <1>3, <2>5 DEF Expected, Retains
    <3>2. \A y \in Answers(e)' :
             /\ y.type = "ack" => Due(e, y.reply_no)'
             /\ y.type \in IsReply => y.reply_no \in port'[e].reply_data_table
      BY <1>3, <2>7 DEF Expected, Retains
    <3>3. /\ a.type = "ack" => Due(e, a.reply_no)'
          /\ a.type \in IsReply => a.reply_no \in port'[e].reply_data_table
      <4>1. /\ h.type \in ExpectsAck => Due(e, h.no)
            /\ h.type \in ExpectsReply => h.no \in port[e].reply_data_table
        BY <2>2 DEF Expected
      <4>2. \/ a.type = "ack" /\ h.type \in ExpectsAck
            \/ a.type = "public-ip" /\ h.type \in ExpectsReply
        BY <1>1, <1>2
      <4> QED
        BY <1>3, <2>7, <4>1, <4>2, Kinds DEF Retains
    <3> QED
      BY <2>1, <3>1, <3>2, <3>3 DEF Expected
  <2> QED
    BY <2>8, <2>9
<1> QED
  BY <1>7, <1>8, Ends DEF Other

LEMMA HandleChained ==
    ASSUME LinkTypes, Numbers, Shapes, InOrder, NEW e \in End, Chained(e), Expected(e),
           HandleMyIp \/ \E x \in End : HandleAndAck(x)
    PROVE  Chained(e)' /\ Expected(e)'
<1>0. \A x \in End : Listener[x] \in Thread
  BY Ends
<1>1. CASE HandleMyIp
  <2>1. PICK s : s = Send("public-ip", Head(wire["server"]).no)
    OBVIOUS
  <2>2. /\ "server" \in End /\ wire["server"] # <<>> /\ Head(wire["server"]).type = "my-ip"
        /\ wire' = [wire EXCEPT !["server"] = Tail(@)] /\ port' = port /\ given_up' = given_up
        /\ todo[Listener["server"]] = <<>>
        /\ todo' = [todo EXCEPT ![Listener["server"]] =
                       <<s, Send("new-members", NoNumber), Do("now_ready")>>]
    BY <1>1, <2>1, Ends DEF HandleMyIp, Receives, Arrives, Listening, Then, others
  <2>3. s.do = "send" /\ s.msg.type = "public-ip" /\ s.msg.reply_no = Head(wire["server"]).no
    BY <2>1 DEF Send, Message
  <2>4. /\ \A t \in Thread : t # Listener["server"] => todo'[t] = todo[t]
        /\ s = Head(todo'[Listener["server"]])
    BY <1>0, <2>2 DEF LinkTypes
  <2> QED
    BY <2>2, <2>3, <2>4, Kinds, TakesQuestion
<1>2. CASE \E x \in End : HandleAndAck(x)
  <2>0. PICK x \in End : HandleAndAck(x)
    BY <1>2
  <2>1. PICK s : s = Send("ack", Head(wire[x]).no)
    OBVIOUS
  <2>2. /\ wire[x] # <<>> /\ Head(wire[x]).type \in {"ping", "error-cont", "new-members"}
        /\ wire' = [wire EXCEPT ![x] = Tail(@)] /\ port' = port /\ given_up' = given_up
        /\ todo[Listener[x]] = <<>>
        /\ todo' = [todo EXCEPT ![Listener[x]] = <<s>>]
    BY <2>0, <2>1 DEF HandleAndAck, Receives, Arrives, Listening, Then, others
  <2>3. s.do = "send" /\ s.msg.type = "ack" /\ s.msg.reply_no = Head(wire[x]).no
    BY <2>1 DEF Send, Message
  <2>4. /\ \A t \in Thread : t # Listener[x] => todo'[t] = todo[t]
        /\ s = Head(todo'[Listener[x]])
    BY <1>0, <2>2 DEF LinkTypes
  <2>5. Head(wire[x]).type \in ExpectsAck /\ Head(wire[x]).type \in Numbered
    BY <2>2, Kinds
  <2> QED
    BY <2>2, <2>3, <2>4, <2>5, TakesQuestion
<1> QED
  BY <1>1, <1>2

\* An answer is taken, and what was kept for it is taken out of the tables: no
\* other answer or question on its way has this number.
LEMMA TakesAnswer ==
    ASSUME LinkTypes, Numbers, Shapes, InOrder, NEW x \in End, wire[x] # <<>>,
           wire' = [wire EXCEPT ![x] = Tail(@)], given_up' = given_up,
           port'[Other(x)] = port[Other(x)], port'[x].sequence_no = port[x].sequence_no,
           Head(wire[x]).type \in Answer,
           \A no : Due(x, no) /\ no # Head(wire[x]).reply_no => Due(x, no)',
           \A no \in port[x].reply_data_table :
              no # Head(wire[x]).reply_no => no \in port'[x].reply_data_table,
           \A t \in Thread : HarmlessStep(t),
           NEW e \in End, Chained(e), Expected(e)
    PROVE  Chained(e)' /\ Expected(e)'
<1>1. PICK h : h = Head(wire[x])
  OBVIOUS
<1>2. Dumping(e)' \subseteq Dumping(e) /\ Answering(e)' \subseteq Answering(e)
  BY HarmlessTodo
<1>3. /\ Answers(Other(x))' = Answers(Other(x)) /\ Questions(x)' = Questions(x)
      /\ Answers(x)' \subseteq Answers(x) /\ Questions(Other(x))' \subseteq Questions(Other(x))
      /\ \A m \in Answers(x)' \cup Questions(Other(x))' : m \in Elements(Tail(wire[x]))
  BY TakenAway
<1>4. CASE e = Other(x)
  <2>1. SameTables(e)
    BY <1>4 DEF SameTables
  <2>2. Retains(e)
    BY <2>1, SameRetains
  <2> QED
    BY <1>2, <1>3, <1>4, <2>2, FewerChained
<1>5. CASE e = x
  <2>1. h \in Answers(e)
    BY <1>1, <1>5, WireIs DEF Answers
  <2>2. /\ h.reply_no \in Nat /\ \A q \in Questions(e) \cup Dumping(e) : q.no \in Nat
        /\ \A y \in Answers(e) \cup Answering(e) : y.reply_no \in Nat
    BY <2>1, NumbersAre
  <2>3. \A q \in Questions(e)' \cup Dumping(e)' :
           h.reply_no < q.no /\ q \in Questions(e) \cup Dumping(e)
    BY <1>2, <1>3, <1>5, <2>1 DEF Chained
  <2>4. \A y \in Answers(e)' \cup Answering(e)' :
           h.reply_no < y.reply_no /\ y \in Answers(e) \cup Answering(e)
    <3>1. \A y \in Answers(e)' : h.reply_no < y.reply_no /\ y \in Answers(e)
      <4>1. wire[x] \in Seq(Msg) /\ Right(wire[x]) /\ Increasing(wire[x])
        BY DEF LinkTypes, Numbers, InOrder
      <4>2. \A m \in Elements(Tail(wire[x])) : m.type \in Answer => h.reply_no < m.reply_no
        BY <1>1, <4>1, RestInOrder
      <4>3. \A q \in Answers(e) : q.type \in Answer
        BY DEF Answers
      <4> QED
        BY <1>3, <1>5, <4>2, <4>3
    <3>2. \A y \in Answering(e)' : h.reply_no < y.reply_no /\ y \in Answering(e)
      BY <1>2, <2>1 DEF Chained
    <3> QED
      BY <3>1, <3>2
  <2>5. Chained(e)'
    <3>1. /\ \A q \in Questions(e)' \cup Dumping(e)' : q.no < port'[e].sequence_no
          /\ \A q \in Questions(e)', d \in Dumping(e)' : q.no < d.no
      BY <1>2, <1>3, <1>5 DEF Chained
    <3>2. \A y \in Answers(e)' \cup Answering(e)' :
             /\ y.reply_no < port'[e].sequence_no
             /\ \A q \in Questions(e)' \cup Dumping(e)' : y.reply_no < q.no
      BY <1>5, <2>3, <2>4 DEF Chained
    <3>3. \A y \in Answers(e)', b \in Answering(e)' : y.reply_no < b.reply_no
      BY <1>2, <1>3, <1>5 DEF Chained
    <3> QED
      BY <3>1, <3>2, <3>3 DEF Chained
  <2>6. Expected(e)'
    <3>1. \A q \in Questions(e)' \cup Dumping(e)' :
             /\ q.type \in ExpectsAck => Due(e, q.no)'
             /\ q.type \in ExpectsReply => q.no \in port'[e].reply_data_table
      <4>1. \A q \in Questions(e)' \cup Dumping(e)' :
               q.no # h.reply_no /\ q \in Questions(e) \cup Dumping(e)
        BY <2>2, <2>3
      <4> QED
        BY <1>1, <1>5, <4>1 DEF Expected
    <3>2. \A y \in Answers(e)' \cup Answering(e)' :
             /\ y.type = "ack" => Due(e, y.reply_no)'
             /\ y.type \in IsReply => y.reply_no \in port'[e].reply_data_table
      <4>1. \A y \in Answers(e)' \cup Answering(e)' :
               y.reply_no # h.reply_no /\ y \in Answers(e) \cup Answering(e)
        BY <2>2, <2>4
      <4> QED
        BY <1>1, <1>5, <4>1 DEF Expected
    <3> QED
      BY <3>1, <3>2 DEF Expected
  <2> QED
    BY <2>5, <2>6
<1> QED
  BY <1>4, <1>5, Ends DEF Other

LEMMA AckChained ==
    ASSUME LinkTypes, Numbers, Shapes, Tables, InOrder, NEW x \in End, ProcessAck(x),
           NEW e \in End, Chained(e), Expected(e)
    PROVE  Chained(e)' /\ Expected(e)'
<1> DEFINE no == Head(wire[x]).reply_no
<1>1. /\ wire[x] # <<>> /\ Head(wire[x]).type = "ack" /\ wire' = [wire EXCEPT ![x] = Tail(@)]
      /\ given_up' = given_up /\ Head(wire[x]).type \in Answer
  BY DEF ProcessAck, Receives, Arrives, others, Answer
<1>2. \A t \in Thread : HarmlessStep(t)
  <2>1. \/ todo' = todo
        \/ todo' = [todo EXCEPT ![Listener[x]] = <<Do("protocol_error")>>]
    BY DEF ProcessAck, Then
  <2>2. Harmless(<<Do("protocol_error")>>)
    BY DEF Harmless, Do
  <2>3. todo \in [Thread -> Seq(Step)]
    BY DEF LinkTypes
  <2> QED
    BY <2>1, <2>2, <2>3 DEF HarmlessStep
<1>3. /\ port'[Other(x)] = port[Other(x)] /\ port'[x].sequence_no = port[x].sequence_no
      /\ \A n : Due(x, n) /\ n # no => Due(x, n)'
      /\ \A n \in port[x].reply_data_table : n \in port'[x].reply_data_table
  <2>1. CASE no \in Outstanding(port[x])
    <3>1. port' = [port EXCEPT ![x] = Acked(port[x], no)]
      BY <2>1 DEF ProcessAck
    <3>2. /\ port \in [End -> Port] /\ port[x] \in Port /\ Ordered(port[x])
          /\ Other(x) \in End /\ Other(x) # x
      BY Ends DEF LinkTypes, Tables
    <3>3. LET q == Acked(port[x], no)
          IN  /\ Outstanding(q) = Outstanding(port[x]) \ {no}
              /\ q.sequence_no = port[x].sequence_no
              /\ q.reply_data_table = port[x].reply_data_table
      <4> HIDE DEF no
      <4> QED
        BY <2>1, <3>2, AckedIs
    <3>4. /\ port'[Other(x)] = port[Other(x)] /\ port'[x] = Acked(port[x], no)
      BY <3>1, <3>2
    <3>5. Outstanding(port'[x]) = Outstanding(port[x]) \ {no}
      BY <3>3, <3>4
    <3> HIDE DEF no
    <3>6. \A n : Due(x, n) /\ n # no => Due(x, n)'
      BY <1>1, <3>5 DEF Due
    <3> QED
      BY <3>3, <3>4, <3>6
  <2>2. CASE no \notin Outstanding(port[x])
    <3>1. port' = port
      BY <2>2 DEF ProcessAck
    <3>2. \A n : Due(x, n) => Due(x, n)'
      BY <1>1, <3>1 DEF Due, Outstanding
    <3> QED
      BY <3>1, <3>2
  <2> QED
    BY <2>1, <2>2
<1> QED
  BY <1>1, <1>2, <1>3, TakesAnswer

LEMMA ReplyChained ==
    ASSUME LinkTypes, Numbers, Shapes, InOrder, HandlePublicIp,
           NEW e \in End, Chained(e), Expected(e)
    PROVE  Chained(e)' /\ Expected(e)'
<1> DEFINE no == Head(wire["alice"]).reply_no
<1>0. /\ "alice" \in End /\ Other("alice") = "server" /\ "server" \in End
      /\ port \in [End -> Port] /\ todo \in [Thread -> Seq(Step)]
  BY Ends DEF LinkTypes
<1>1. /\ wire["alice"] # <<>> /\ wire' = [wire EXCEPT !["alice"] = Tail(@)]
      /\ given_up' = given_up /\ Head(wire["alice"]).type \in Answer
  BY DEF HandlePublicIp, Receives, Arrives, others, Answer
<1>2. \A t \in Thread : HarmlessStep(t)
  <2>1. \/ todo' = todo
        \/ todo' = [todo EXCEPT ![Listener["alice"]] = <<Do("now_ready")>>]
    BY DEF HandlePublicIp, Then
  <2>2. Harmless(<<Do("now_ready")>>)
    BY DEF Harmless, Do
  <2> QED
    BY <1>0, <2>1, <2>2 DEF HarmlessStep
<1>3. /\ port'["server"] = port["server"] /\ port'["alice"].sequence_no = port["alice"].sequence_no
      /\ port'["alice"].ack_timeouts = port["alice"].ack_timeouts
      /\ \A n \in port["alice"].reply_data_table :
            n # no => n \in port'["alice"].reply_data_table
  <2>1. CASE port' = Closed(port, "alice")
    BY <1>0, <2>1, ClosedIs
  <2>2. CASE port' = [port EXCEPT !["alice"].reply_data_table = @ \ {no}]
    BY <1>0, <2>2 DEF Port
  <2> QED
    BY <2>1, <2>2 DEF HandlePublicIp
<1>4. \A n : Due("alice", n) => Due("alice", n)'
  BY <1>1, <1>3 DEF Due, Outstanding
<1> QED
  BY <1>0, <1>1, <1>2, <1>3, <1>4, TakesAnswer

\* The tables of a process that has ended are of no account; those of the
\* server stay as they are.
LEMMA ExitChained ==
    ASSUME LinkTypes, Numbers, Shapes, AliceExits, Chained("server"), Expected("server")
    PROVE  Chained("server")' /\ Expected("server")'
<1>0. /\ "alice" \in End /\ "server" \in End /\ Other("server") = "alice"
      /\ port \in [End -> Port] /\ wire \in [End -> Seq(Msg)]
  BY Ends DEF LinkTypes
<1>1. given_up' = given_up /\ port'["server"] = port["server"]
  BY <1>0 DEF AliceExits, others, Closed
<1>2. \A t \in Thread : HarmlessStep(t)
  BY DEF AliceExits, Dropped, HarmlessStep, Harmless
<1>3. PlainStep("alice") /\ PlainStep("server")
  BY <1>0 DEF AliceExits, PlainStep
<1>4. SameTables("server")
  BY <1>1 DEF SameTables
<1>5. Retains("server")
  BY <1>0, <1>1, <1>4, SameRetains
<1> QED
  BY <1>0, <1>2, <1>3, <1>5, QuietChained

LEMMA ChainNext ==
    ASSUME LinkTypes, Numbers, Shapes, Locked, Tables, Chain, InOrder, Expectations, Next
    PROVE  Chain' /\ Expectations'
<1> SUFFICES ASSUME NEW e \in End, ~Gone(e)'
             PROVE  Chained(e)' /\ Expected(e)'
  BY DEF Chain, Expectations
<1>1. Chained(e) /\ Expected(e)
  BY StaysGone DEF Chain, Expectations
<1>2. CASE Tame
  BY <1>1, <1>2, TameChained
<1>3. CASE \E t \in Thread : SendPlain(t) \/ SendRegister(t) \/ SendDump(t)
  BY <1>1, <1>3, SendPlainChained, RegisterChained, DumpChained
<1>4. CASE AliceSend
  BY <1>1, <1>4, AliceSendChained
<1>5. CASE HandleMyIp \/ \E x \in End : HandleAndAck(x)
  BY <1>1, <1>5, HandleChained
<1>6. CASE HandlePublicIp \/ \E x \in End : ProcessAck(x)
  BY <1>1, <1>6, ReplyChained, AckChained
<1>7. CASE CheckAckDeadlines \/ Bye
  BY <1>1, <1>7, RoundChained
<1>8. CASE AliceExits
  <2>1. Gone("alice")'
    BY <1>8 DEF AliceExits, Ended, Gone, Thread
  <2>2. e = "server"
    BY <2>1, Ends
  <2> QED
    BY <1>1, <1>8, <2>2, ExitChained
<1> QED
  BY <1>2, <1>3, <1>4, <1>5, <1>6, <1>7, <1>8 DEF Next, Listens, Sends, Tame

-----------------------------------------------------------------------------
(* The rounds of the checker *)

LEMMA CheckerStates ==
    ASSUME LinkTypes, Next, thread["checker"] \in {"waiting", "running", "ended"}
    PROVE  thread'["checker"] \in {"waiting", "running", "ended"}
<1>0. /\ thread \in [Thread -> States] /\ "checker" \in Thread /\ "SwitzerlandLink" \in Thread
      /\ "AliceLink" \in Thread /\ "Alice" \in Thread
  BY Ends DEF LinkTypes
<1>1. CASE \E T \in SUBSET Thread : thread' = Ended(T)
  BY <1>0, <1>1 DEF Ended
<1>2. CASE thread' = thread
  BY <1>2
<1>3. CASE Handshakes
  <2>1. CASE ServerHandshake \/ AliceHandshake \/ HandshakeReset
    BY <2>1, <1>0, <1>1 DEF ServerHandshake, AliceHandshake, HandshakeReset
  <2>2. CASE \E x \in End : HandshakeFails(x)
    BY <2>2, <1>1, Ends DEF HandshakeFails
  <2> QED
    BY <1>3, <2>1, <2>2 DEF Handshakes
<1>4. CASE Listens
  <2>1. thread' = thread \/ \E x \in End : thread' = Ended({Listener[x]})
    <3>1. "alice" \in End /\ Listener["alice"] = "AliceLink"
      BY Ends
    <3> QED
      BY <1>4, <3>1 DEF Listens, HandleMyIp, HandlePublicIp, ProcessAck, ProtocolError,
       HandleAndAck, NowReady, HandleErrorBye, HandleSignoff, ListenEnds
  <2>2. \A x \in End : {Listener[x]} \in SUBSET Thread
    BY Ends
  <2> QED
    BY <2>1, <2>2, <1>1, <1>2
<1>5. CASE Sends
  <2>1. \A t \in Thread : SendFails(t) => thread' = thread \/ thread' = Ended({t})
    BY DEF SendFails
  <2>2. \A t \in Thread : SendPlain(t) \/ SendLock(t) \/ SendRegister(t) \/ SendDump(t) => thread' = thread
    BY DEF SendPlain, SendLock, SendRegister, SendDump
  <2> QED
    BY <1>5, <2>1, <2>2, <1>1, <1>2 DEF Sends
<1>6. CASE CheckAckDeadlines \/ Bye \/ AliceExits \/ AliceShutdown
  BY <1>6, <1>0, <1>1, <1>2 DEF CheckAckDeadlines, Bye, AliceExits, AliceShutdown
<1>7. CASE AliceSend \/ PingerSend \/ Tick \/ Cut
  BY <1>7, <1>2 DEF AliceSend, PingerSend, Tick, Cut
<1> QED
  BY <1>3, <1>4, <1>5, <1>6, <1>7 DEF Next

LEMMA RestItself ==
    ASSUME NEW s \in Seq(Entries)
    PROVE  Rest(s, s)
<1>1. Len(s) \in Nat /\ DOMAIN s = 1..Len(s)
  OBVIOUS
<1> QED
  BY <1>1 DEF Rest

\* What steps make of the deadlines of the server.
LEMMA DeadlinesOf ==
    ASSUME LinkTypes, Shapes, Tables, Next
    PROVE  \/ Rest(port'["server"].ack_timeouts, port["server"].ack_timeouts)
           \/ \E t \in Thread : \E m \in Msg :
                 EndOf[t] = "server" /\ SendRegister(t) /\ m.type \in ExpectsAck /\ Registers("server", m)
           \/ CheckAckDeadlines \/ Bye
<1>0. /\ "alice" \in End /\ "server" \in End /\ port \in [End -> Port] /\ now \in Nat
      /\ port["server"] \in Port
  BY Ends DEF LinkTypes
<1>1. CASE port'["server"].ack_timeouts = port["server"].ack_timeouts
  <2>1. port["server"].ack_timeouts \in Seq(Entries)
    BY <1>0, PortParts
  <2> QED
    BY <1>1, <2>1, RestItself
<1>2. CASE Tame
  BY <1>0, <1>1, <1>2, TamePort DEF SameTables
<1>3. CASE \E t \in Thread : SendPlain(t) \/ SendRegister(t)
  <2>1. PICK t \in Thread : SendPlain(t) \/ SendRegister(t)
    BY <1>3
  <2>2. PICK m : m = Head(todo[t]).msg
    OBVIOUS
  <2>3. /\ m \in Msg /\ todo[t] # <<>>
        /\ port' = port \/ Registers(EndOf[t], m)
        /\ "server" # EndOf[t] => port'["server"] = port["server"]
    BY <1>0, <2>1, <2>2, SendsPort
  <2>4. CASE EndOf[t] # "server" \/ port' = port
    BY <1>1, <2>3, <2>4
  <2>5. CASE EndOf[t] = "server" /\ Registers("server", m) /\ m.type \in ExpectsAck
    <3>1. SendRegister(t)
      BY <2>1, <2>2, <2>5 DEF SendPlain
    <3> QED
      BY <2>3, <2>5, <3>1
  <2>6. CASE EndOf[t] = "server" /\ Registers("server", m) /\ m.type \notin ExpectsAck
    <3>1. Registered(port["server"], m, "server").ack_timeouts = port["server"].ack_timeouts
      BY <1>0, <2>3, <2>6, RegisteredIs
    <3> QED
      BY <1>1, <2>6, <3>1 DEF Registers
  <2> QED
    BY <2>3, <2>4, <2>5, <2>6
<1>4. CASE AliceSend \/ AliceExits
  BY <1>0, <1>1, <1>4 DEF AliceSend, AliceExits, Closed
<1>5. CASE \E t \in Thread : SendDump(t)
  BY <1>0, <1>1, <1>5 DEF SendDump, Port
<1>6. CASE HandleMyIp \/ \E x \in End : HandleAndAck(x)
  BY <1>1, <1>6 DEF HandleMyIp, HandleAndAck
<1>7. CASE HandlePublicIp
  BY <1>0, <1>1, <1>7 DEF HandlePublicIp, Closed
<1>8. CASE \E x \in End : ProcessAck(x)
  <2>1. PICK x \in End : \/ port' = port
                         \/ \E no \in Outstanding(port[x]) : port' = [port EXCEPT ![x] = Acked(port[x], no)]
    BY <1>8, <1>0 DEF ProcessAck
  <2>2. CASE port'["server"] = port["server"]
    BY <1>1, <2>2
  <2>3. CASE \E no \in Outstanding(port["server"]) : port'["server"] = Acked(port["server"], no)
    BY <1>0, <2>3, AckedIs DEF Tables
  <2> QED
    BY <1>0, <2>1, <2>2, <2>3
<1> QED
  BY <1>2, <1>3, <1>4, <1>5, <1>6, <1>7, <1>8 DEF Next, Listens, Sends, Tame

\* Only the rounds of the checker, and time, change its state.
LEMMA CheckerStays ==
    ASSUME LinkTypes, Idlers, Next, ~CheckAckDeadlines, ~Bye, ~Tick
    PROVE  now' = now /\ checked' = checked /\ todo'["checker"] = todo["checker"]
<1>0. /\ todo \in [Thread -> Seq(Step)] /\ "checker" \in Thread
      /\ \A e \in End : Listener[e] \in Thread /\ Listener[e] # "checker"
      /\ "Alice" \in Thread /\ "AliceLink" \in Thread /\ "pinger" \in Thread
      /\ "alice" \in End /\ "server" \in End
  BY DEF LinkTypes, Thread, Listener, End
<1>1. CASE Handshakes \/ AliceSend \/ AliceShutdown \/ Cut
  BY <1>1, <1>0 DEF Handshakes, ServerHandshake, AliceHandshake, HandshakeReset, HandshakeFails,
     AliceSend, AliceShutdown, Cut, time
<1>2. CASE Listens
  <2>1. UNCHANGED time
    BY <1>2 DEF Listens, HandleMyIp, HandlePublicIp, ProcessAck, ProtocolError,
       HandleAndAck, NowReady, HandleErrorBye, HandleSignoff, ListenEnds
  <2>2. \/ todo' = todo
        \/ \E e \in End : \E s :
           \/ todo' = [todo EXCEPT ![Listener[e]] = s]
           \/ todo' = Done(Listener[e]) \/ todo' = Dropped({Listener[e]})
    <3>1. CASE HandleMyIp \/ HandlePublicIp
      BY <3>1, <1>0 DEF HandleMyIp, HandlePublicIp, Then
    <3>2. CASE \E e \in End : ProcessAck(e) \/ HandleAndAck(e)
      BY <3>2 DEF ProcessAck, HandleAndAck, Then
    <3>3. CASE \E e \in End : \/ ProtocolError(e) \/ NowReady(e) \/ HandleErrorBye(e)
                              \/ HandleSignoff(e) \/ ListenEnds(e)
      BY <3>3 DEF ProtocolError, NowReady, HandleErrorBye, HandleSignoff, ListenEnds
    <3> QED
      BY <1>2, <3>1, <3>2, <3>3 DEF Listens
  <2> QED
    BY <2>1, <2>2, <1>0 DEF Done, Dropped, time
<1>3. CASE Sends
  <2>1. PICK t \in Thread : SendPlain(t) \/ SendLock(t) \/ SendRegister(t) \/ SendDump(t) \/ SendFails(t)
    BY <1>3 DEF Sends
  <2>2. t # "checker"
    <3>1. todo["checker"] # <<>> => Head(todo["checker"]).do = "bye"
      BY DEF Idlers, Do
    <3> QED
      BY <2>1, <3>1 DEF SendPlain, SendLock, SendRegister, SendDump, SendFails, ToDo
  <2>3. \/ todo' = todo \/ todo' = Done(t) \/ todo' = Dropped({t}) \/ \E x : todo' = Replace(t, x)
    BY <2>1 DEF SendPlain, SendLock, SendRegister, SendDump, SendFails, Dumped
  <2>4. UNCHANGED time
    BY <2>1 DEF SendPlain, SendLock, SendRegister, SendDump, SendFails
  <2> QED
    BY <2>2, <2>3, <2>4, <1>0 DEF Done, Dropped, Replace, time
<1>4. CASE AliceExits
  BY <1>4, <1>0 DEF AliceExits, Dropped, time
<1>5. CASE PingerSend
  <2>1. PICK s : todo' = [todo EXCEPT !["pinger"] = s]
    BY <1>5 DEF PingerSend
  <2> QED
    BY <1>0, <1>5, <2>1 DEF PingerSend, time
<1> QED
  BY <1>1, <1>2, <1>3, <1>4, <1>5 DEF Next

\* Before the handshake nobody releases status_lock but in closing the link.
LEMMA StatusHeld ==
    ASSUME LinkTypes, Next, NoSockfile("server"), ~port'["server"].closed,
           status_lock'["server"] = Nobody
    PROVE  status_lock["server"] = Nobody
<1>0. /\ "server" \in End /\ \A t \in Thread : EndOf[t] \in End
      /\ status_lock \in [End -> Thread \cup {Nobody}] /\ port \in [End -> Port] /\ Nobody \notin Thread
  BY Ends DEF LinkTypes
<1>1. CASE status_lock' = status_lock
  BY <1>1
<1>2. CASE \E t \in Thread : SendLock(t)
  BY <1>0, <1>2 DEF SendLock, Lock
<1>3. CASE \E t \in Thread : SendDump(t)
  <2>1. PICK t \in Thread : SendDump(t)
    BY <1>3
  <2>2. EndOf[t] # "server"
    BY <2>1 DEF SendDump, Dumped
  <2> QED
    BY <1>0, <2>1, <2>2 DEF SendDump, Unlock
<1>4. CASE \E t \in Thread : SendFails(t)
  <2>1. PICK t \in Thread : SendFails(t)
    BY <1>4
  <2>2. EndOf[t] # "server"
    BY <1>0, <2>1, ClosedIs DEF SendFails
  <2> QED
    BY <1>0, <2>1, <2>2 DEF SendFails, Unlock
<1>5. CASE Handshakes
  BY <1>5, <1>1 DEF Handshakes, ServerHandshake, AliceHandshake, HandshakeReset, HandshakeFails, locks
<1>6. CASE Listens
  BY <1>6, <1>1 DEF Listens, HandleMyIp, HandlePublicIp, ProcessAck, ProtocolError,
       HandleAndAck, NowReady, HandleErrorBye, HandleSignoff, ListenEnds, locks
<1>7. CASE \E t \in Thread : SendPlain(t) \/ SendRegister(t)
  BY <1>7, <1>1 DEF SendPlain, SendRegister, locks
<1>8. CASE AliceSend \/ AliceShutdown \/ AliceExits \/ PingerSend \/ CheckAckDeadlines \/ Bye \/ Tick \/ Cut
  BY <1>8, <1>1 DEF AliceSend, AliceShutdown, AliceExits, PingerSend, CheckAckDeadlines, Bye, Tick, Cut, locks
<1> QED
  BY <1>2, <1>3, <1>4, <1>5, <1>6, <1>7, <1>8 DEF Next, Sends

LEMMA SilenceNext ==
    ASSUME LinkTypes, Shapes, Idlers, Locked, Tables, Silence, Next
    PROVE  Silence'
<1>1. thread'["checker"] \in {"waiting", "running", "ended"}
  BY CheckerStates DEF Silence
<1>2. ASSUME thread'["checker"] = "waiting", ~port'["server"].closed, status_lock'["server"] = Nobody
      PROVE  port'["server"].ack_timeouts = <<>>
  <2>1. thread["checker"] = "waiting" /\ ~port["server"].closed
    BY <1>2, CheckerWaits, ClosedStays, Ends
  <2>2. NoSockfile("server")
    BY <2>1, Ends DEF Idlers, NoSockfile
  <2>3. status_lock["server"] = Nobody
    BY <1>2, <2>2, StatusHeld
  <2>4. port["server"].ack_timeouts = <<>>
    BY <2>1, <2>3 DEF Silence
  <2>5. ~CheckAckDeadlines
    BY <2>1 DEF CheckAckDeadlines
  <2>6. ~Bye
    BY <1>2, Ends DEF Bye, Ended
  <2>7. \A t \in Thread : EndOf[t] = "server" => ~SendRegister(t)
    BY <2>3, Ends DEF Locked, SendRegister, ToDo
  <2>8. Rest(port'["server"].ack_timeouts, <<>>)
    BY <2>4, <2>5, <2>6, <2>7, DeadlinesOf
  <2>9. port'["server"].ack_timeouts \in Seq(Entries)
    <3>1. LinkTypes'
      BY TypesNext
    <3>2. port'["server"] \in Port
      BY <3>1, Ends DEF LinkTypes
    <3> QED
      BY <3>2, PortParts
  <2> QED
    BY <2>8, <2>9 DEF Rest
<1> QED
  BY <1>1, <1>2 DEF Silence

\* Two threads of the server that wait for each other wait until the link is
\* closed, and nobody else of the server can go on.
LEMMA WaitsOn ==
    ASSUME LinkTypes, Idlers, Locked, Next, ~port'["server"].closed,
           NEW t \in Thread, NEW u \in Thread, EndOf[t] = "server", EndOf[u] = "server",
           status_lock["server"] = t, ToDo(t, "register"), ~MayLock(ack_lock, t),
           ack_lock["server"] = u, todo[u] # <<>>, Head(todo[u]).do \in {"bye", "protocol_error"}
    PROVE  /\ status_lock'["server"] = t /\ ack_lock'["server"] = u
           /\ todo'[t] = todo[t] /\ todo'[u] = todo[u]
<1>0. /\ "server" \in End /\ "alice" \in End /\ \A x \in Thread : EndOf[x] \in End
      /\ status_lock \in [End -> Thread \cup {Nobody}] /\ ack_lock \in [End -> Thread \cup {Nobody}]
      /\ port \in [End -> Port] /\ todo \in [Thread -> Seq(Step)]
      /\ Nobody \notin Thread /\ "checker" \in Thread /\ EndOf["checker"] = "server"
      /\ EndOf["AliceLink"] = "alice" /\ EndOf["Alice"] = "alice" /\ "alice" # "server"
      /\ "pinger" \in Thread /\ "Alice" \in Thread /\ "AliceLink" \in Thread
      /\ Listener["alice"] = "AliceLink"
      /\ \A e \in End : Listener[e] \in Thread /\ EndOf[Listener[e]] = e
  BY Ends DEF LinkTypes
<1>1. /\ todo[t] # <<>> /\ Head(todo[t]).do = "register"
      /\ t # u
      /\ \A x \in Thread : EndOf[x] = "server" /\ MayLock(status_lock, x) => x = t
      /\ \A x \in Thread : EndOf[x] = "server" /\ MayLock(ack_lock, x) => x = u
  BY <1>0 DEF ToDo, MayLock
<1> DEFINE Same == /\ status_lock'["server"] = t /\ ack_lock'["server"] = u
                   /\ todo'[t] = todo[t] /\ todo'[u] = todo[u]
<1>2. CASE UNCHANGED <<locks, todo>>
  BY <1>2 DEF locks
<1>3. ASSUME UNCHANGED locks, NEW x \in Thread, x # t, x # u,
             \A y \in Thread : y # x => todo'[y] = todo[y]
      PROVE  Same
  BY <1>3 DEF locks
<1>4. CASE Handshakes
  <2>1. CASE ServerHandshake \/ HandshakeReset \/ \E e \in End : HandshakeFails(e)
    BY <2>1, <1>2 DEF ServerHandshake, HandshakeReset, HandshakeFails
  <2>2. CASE AliceHandshake
    BY <2>2, <1>0, <1>3 DEF AliceHandshake
  <2> QED
    BY <1>4, <2>1, <2>2 DEF Handshakes
<1>5. ASSUME NEW e \in End, ProcessAck(e) \/ HandleAndAck(e) \/ (HandleMyIp /\ e = "server")
                            \/ (HandlePublicIp /\ e = "alice")
      PROVE  Same
  <2>1. todo[Listener[e]] = <<>> /\ MayLock(status_lock, Listener[e])
    BY <1>5 DEF ProcessAck, HandleAndAck, HandleMyIp, HandlePublicIp, Receives, Listening
  <2>2. e # "server"
    BY <1>0, <1>1, <2>1
  <2>3. Listener[e] # t /\ Listener[e] # u
    BY <1>1, <2>1
  <2>4. \A y \in Thread : y # Listener[e] => todo'[y] = todo[y]
    BY <1>0, <1>5 DEF ProcessAck, HandleAndAck, HandleMyIp, HandlePublicIp, Then
  <2>5. status_lock' = status_lock /\ ack_lock'["server"] = ack_lock["server"]
    <3>1. CASE ProcessAck(e)
      BY <1>0, <2>2, <3>1 DEF ProcessAck, Lock
    <3>2. CASE ~ProcessAck(e)
      BY <1>5, <3>2 DEF HandleAndAck, HandleMyIp, HandlePublicIp, locks
    <3> QED
      BY <3>1, <3>2
  <2> QED
    BY <1>0, <2>3, <2>4, <2>5
<1>6. ASSUME NEW e \in End, ProtocolError(e)
      PROVE  Same
  <2>1. e # "server"
    BY <1>0, <1>6, ClosedIs DEF ProtocolError
  <2>2. Listener[e] # t /\ Listener[e] # u
    BY <1>0, <2>1
  <2>3. \A y \in Thread : y # Listener[e] => todo'[y] = todo[y]
    BY <1>0, <1>6 DEF ProtocolError, Dropped
  <2> QED
    BY <1>0, <1>3, <1>6, <2>2, <2>3 DEF ProtocolError
<1>7. ASSUME NEW e \in End, NowReady(e)
      PROVE  Same
  <2>1. Listener[e] # t /\ Listener[e] # u
    BY <1>1, <1>7 DEF NowReady, ToDo
  <2>2. \A y \in Thread : y # Listener[e] => todo'[y] = todo[y]
    BY <1>0, <1>7 DEF NowReady, Done
  <2> QED
    BY <1>0, <1>3, <1>7, <2>1, <2>2 DEF NowReady
<1>8. CASE \E e \in End : HandleErrorBye(e) \/ HandleSignoff(e) \/ ListenEnds(e)
  BY <1>2, <1>8 DEF HandleErrorBye, HandleSignoff, ListenEnds
<1>9. ASSUME NEW x \in Thread, SendPlain(x) \/ SendLock(x) \/ SendRegister(x) \/ SendDump(x) \/ SendFails(x)
      PROVE  Same
  <2>1. todo[x] # <<>> /\ Head(todo[x]).do \in {"send", "register", "dump"}
    BY <1>9 DEF SendPlain, SendLock, SendRegister, SendDump, SendFails, ToDo
  <2>2. x # u
    BY <2>1
  <2>3. x # t
    <3>1. x = t => SendRegister(t)
      BY <1>1, <1>9 DEF SendPlain, SendLock, SendDump, SendFails, ToDo
    <3> QED
      BY <3>1 DEF SendRegister
  <2>4. \A y \in Thread : y # x => todo'[y] = todo[y]
    <3>1. todo' = Done(x) \/ todo' = Dropped({x}) \/ \E s : todo' = Replace(x, s)
      BY <1>9 DEF SendPlain, SendLock, SendRegister, SendDump, SendFails, Dumped
    <3> QED
      BY <1>0, <3>1 DEF Done, Dropped, Replace
  <2>5. ack_lock' = ack_lock
    BY <1>9 DEF SendPlain, SendLock, SendRegister, SendDump, SendFails, locks
  <2>6. status_lock'["server"] = status_lock["server"]
    <3>1. CASE EndOf[x] = "server"
      <4>1. ~SendLock(x)
        BY <1>1, <2>3, <3>1 DEF SendLock
      <4>2. ~SendDump(x)
        BY <2>3, <3>1 DEF SendDump, ToDo, Locked
      <4>3. ~SendFails(x)
        BY <1>0, <3>1, ClosedIs DEF SendFails
      <4> QED
        BY <1>9, <4>1, <4>2, <4>3 DEF SendPlain, SendRegister, locks
    <3>2. CASE EndOf[x] # "server"
      BY <1>0, <1>9, <3>2 DEF SendPlain, SendLock, SendRegister, SendDump, SendFails, locks, Lock, Unlock
    <3> QED
      BY <3>1, <3>2
  <2> QED
    BY <2>2, <2>3, <2>4, <2>5, <2>6
<1>10. CASE AliceSend \/ Tick \/ Cut
  BY <1>2, <1>10 DEF AliceSend, Tick, Cut
<1>11. CASE AliceShutdown
  BY <1>0, <1>3, <1>11 DEF AliceShutdown
<1>12. CASE AliceExits
  <2>1. todo'[t] = todo[t] /\ todo'[u] = todo[u]
    BY <1>0, <1>12 DEF AliceExits, Dropped
  <2> QED
    BY <2>1, <1>12 DEF AliceExits, locks
<1>13. CASE PingerSend
  <2>1. PICK s : todo' = [todo EXCEPT !["pinger"] = s]
    BY <1>13 DEF PingerSend
  <2>2. t # "pinger" /\ u # "pinger"
    BY <1>1, <1>13 DEF PingerSend
  <2> QED
    BY <1>0, <1>3, <1>13, <2>1, <2>2 DEF PingerSend
<1>14. ~CheckAckDeadlines
  BY <1>0, <1>1 DEF CheckAckDeadlines
<1>15. ~Bye
  BY <1>0 DEF Bye, Checked, Port
<1> QED
  BY <1>0, <1>4, <1>5, <1>6, <1>7, <1>8, <1>9, <1>10, <1>11, <1>12, <1>13, <1>14, <1>15
     DEF Next, Listens, Sends

LEMMA CircularStays ==
    ASSUME LinkTypes, Idlers, Locked, Next, CircularWait("server"), ~port'["server"].closed
    PROVE  CircularWait("server")'
<1>1. PICK t \in Thread, u \in Thread :
         /\ EndOf[t] = "server" /\ EndOf[u] = "server"
         /\ status_lock["server"] = t /\ ToDo(t, "register") /\ ~MayLock(ack_lock, t)
         /\ ack_lock["server"] = u /\ todo[u] # <<>> /\ Head(todo[u]).do \in {"bye", "protocol_error"}
  BY DEF CircularWait
<1>2. /\ status_lock'["server"] = t /\ ack_lock'["server"] = u
      /\ todo'[t] = todo[t] /\ todo'[u] = todo[u]
  BY <1>1, WaitsOn
<1>3. ToDo(t, "register")' /\ ~MayLock(ack_lock, t)'
  BY <1>1, <1>2 DEF ToDo, MayLock
<1> QED
  BY <1>1, <1>2, <1>3 DEF CircularWait

\* What is left of the time of a message that is still in the list.
LEMMA NoticeNext ==
    ASSUME LinkTypes, Shapes, Idlers, Locked, Tables, Silence, Notice, Next
    PROVE  Notice'
<1> DEFINE p == port["server"]
           slack == IF checked /\ todo["checker"] = <<>> THEN 0 ELSE 1
           Left(x, k, n, s) == n + k <= x.deadline + x.no + s
<1> SUFFICES ASSUME ~port'["server"].closed, ~CircularWait("server")',
                    NEW i \in DOMAIN port'["server"].ack_timeouts
             PROVE  Left(port'["server"].ack_timeouts[i], i, now', slack')
  BY DEF Notice
<1>0. /\ "server" \in End /\ port \in [End -> Port] /\ p \in Port /\ now \in Nat /\ timeout_period \in Nat \ {0}
      /\ todo \in [Thread -> Seq(Step)] /\ "checker" \in Thread /\ Ordered(p)
      /\ EndOf["checker"] = "server" /\ Nobody \notin Thread
  BY Ends, LinkConstants DEF LinkTypes, Tables
<1>1. ~p.closed /\ ~CircularWait("server")
  BY ClosedStays, CircularStays, Ends
<1>2. \A k \in DOMAIN p.ack_timeouts : Left(p.ack_timeouts[k], k, now, slack)
  BY <1>1 DEF Notice
<1>3. /\ \A k \in DOMAIN p.ack_timeouts : /\ k \in Nat /\ p.ack_timeouts[k].no \in Nat
                                          /\ p.ack_timeouts[k].deadline \in Nat
      /\ DOMAIN p.ack_timeouts = 1..Len(p.ack_timeouts) /\ Len(p.ack_timeouts) \in Nat
      /\ p.sequence_no \in Nat /\ p.ack_timeouts \in Seq(Entries)
  <2> HIDE DEF p
  <2> QED
    BY <1>0, EntriesAre, PortParts
<1>4. port'["server"] \in Port /\ i \in Nat
  <2>1. LinkTypes'
    BY TypesNext
  <2>2. port'["server"] \in Port
    BY <1>0, <2>1 DEF LinkTypes
  <2> QED
    BY <2>2, EntriesAre
<1>5. CASE Tick
  <2>1. port' = port /\ now' = now + 1 /\ slack' = 1
    BY <1>5 DEF Tick
  <2>2. status_lock["server"] = Nobody /\ ack_lock["server"] = Nobody
    BY <1>1, <1>5 DEF Tick, Quiet
  <2>3. todo["checker"] = <<>>
    BY <1>0, <2>2 DEF Locked, Idlers, Do
  <2>4. MayLock(ack_lock, "checker")
    BY <1>0, <2>2 DEF MayLock
  <2>5. thread["checker"] # "waiting"
    BY <1>1, <2>1, <2>2 DEF Silence
  <2>6. thread["checker"] = "running"
    BY <1>5, <2>5 DEF Silence, Tick
  <2>7. checked
    BY <1>5, <2>3, <2>4, <2>6 DEF Tick
  <2>8. slack = 0
    BY <2>3, <2>7
  <2>9. i \in DOMAIN p.ack_timeouts /\ port'["server"].ack_timeouts[i] = p.ack_timeouts[i]
    BY <2>1
  <2> HIDE DEF p, slack
  <2> QED
    BY <1>0, <1>2, <1>3, <2>1, <2>8, <2>9
<1>6. CASE CheckAckDeadlines
  <2>0. now' = now /\ slack = 1 /\ checked' /\ todo["checker"] = <<>>
    BY <1>6 DEF CheckAckDeadlines
  <2>1. PICK n \in 0..Len(p.ack_timeouts) :
           /\ Handles(p.ack_timeouts, n)
           /\ \/ todo' = [todo EXCEPT !["checker"] = <<Do("bye")>>] /\ port' = port
              \/ port' = [port EXCEPT !["server"] = Checked(p, n)] /\ todo' = todo
    BY <1>0, <1>6 DEF CheckAckDeadlines
  <2>2. CASE todo' = [todo EXCEPT !["checker"] = <<Do("bye")>>] /\ port' = port
    <3>1. slack' = 1
      BY <1>0, <2>2
    <3>2. i \in DOMAIN p.ack_timeouts /\ port'["server"].ack_timeouts[i] = p.ack_timeouts[i]
      BY <2>2
    <3> HIDE DEF p, slack
    <3> QED
      BY <1>2, <2>0, <3>1, <3>2
  <2>3. CASE port' = [port EXCEPT !["server"] = Checked(p, n)] /\ todo' = todo
    <3>1. port'["server"].ack_timeouts = Checked(p, n).ack_timeouts
      BY <1>0, <2>3
    <3> DEFINE r == Checked(p, n).ack_timeouts
    <3>2. /\ Rest(r, p.ack_timeouts)
          /\ n > 0 => \A j \in DOMAIN r : \E k \in DOMAIN p.ack_timeouts : j + 1 <= k /\ r[j] = p.ack_timeouts[k]
          /\ n = 0 => \A k \in DOMAIN p.ack_timeouts :
                         1 \in DOMAIN p.ack_timeouts /\ ~Overdue(p.ack_timeouts[1])
      <4> HIDE DEF p
      <4> QED
        BY <1>0, <2>1, CheckedIs
    <3>3. slack' \in {0, 1}
      OBVIOUS
    <3> HIDE DEF slack, r
    <3>4. i \in DOMAIN r /\ port'["server"].ack_timeouts[i] = r[i]
      BY <3>1 DEF r
    <3>5. ASSUME NEW x, x = r[i], x.no \in Nat, x.deadline \in Nat, now + i <= x.deadline + x.no
          PROVE  Left(port'["server"].ack_timeouts[i], i, now', slack')
      <4>1. now' + i <= x.deadline + x.no + slack'
        BY <1>0, <1>4, <2>0, <3>3, <3>5
      <4> QED
        BY <3>4, <3>5, <4>1
    <3>6. CASE n > 0
      <4>1. PICK k \in DOMAIN p.ack_timeouts : i + 1 <= k /\ r[i] = p.ack_timeouts[k]
        BY <3>2, <3>4, <3>6
      <4>2. PICK x : x = p.ack_timeouts[k]
        OBVIOUS
      <4>3. now + k <= x.deadline + x.no + 1
        BY <1>2, <2>0, <4>2
      <4>4. k \in Nat /\ x.no \in Nat /\ x.deadline \in Nat
        BY <1>3, <4>2
      <4> HIDE DEF p, Left
      <4>5. now + i <= x.deadline + x.no
        BY <1>0, <1>4, <4>1, <4>3, <4>4
      <4> QED
        BY <3>5, <4>1, <4>2, <4>4, <4>5
    <3>7. CASE n = 0
      <4>1. PICK k \in DOMAIN p.ack_timeouts : i <= k /\ r[i] = p.ack_timeouts[k]
        BY <3>2, <3>4 DEF Rest
      <4>2. PICK x, y : x = p.ack_timeouts[k] /\ y = p.ack_timeouts[1]
        OBVIOUS
      <4>3. 1 \in DOMAIN p.ack_timeouts /\ ~(now >= y.deadline)
        BY <3>2, <3>7, <4>2 DEF Overdue
      <4>4. /\ k \in Nat /\ x.no \in Nat /\ x.deadline \in Nat /\ y.deadline \in Nat
            /\ k = 1 \/ 1 < k
        BY <1>3, <4>2, <4>3
      <4>5. k - 1 <= x.no
        BY <1>0, <4>2 DEF Ordered
      <4>6. y.deadline <= x.deadline
        <5>1. CASE k = 1
          BY <4>2, <4>4, <5>1
        <5>2. CASE 1 < k
          BY <1>0, <4>2, <4>3, <5>2 DEF Ordered
        <5> QED
          BY <4>4, <5>1, <5>2
      <4> HIDE DEF p, Left
      <4>7. now + i <= x.deadline + x.no
        <5>1. now < x.deadline
          BY <1>0, <4>3, <4>4, <4>6
        <5> QED
          BY <1>0, <1>4, <4>1, <4>4, <4>5, <5>1
      <4> QED
        BY <3>5, <4>1, <4>2, <4>4, <4>7
    <3> QED
      BY <2>1, <3>6, <3>7
  <2> QED
    BY <2>1, <2>2, <2>3
<1>7. ~Bye
  BY <1>0 DEF Bye, Checked, Port
<1>8. CASE ~Tick /\ ~CheckAckDeadlines
  <2>1. now' = now /\ slack' = slack /\ slack \in {0, 1}
    BY <1>7, <1>8, CheckerStays
  <2> HIDE DEF slack
  <2>2. CASE Rest(port'["server"].ack_timeouts, p.ack_timeouts)
    <3>1. PICK k \in DOMAIN p.ack_timeouts :
             i <= k /\ port'["server"].ack_timeouts[i] = p.ack_timeouts[k]
      BY <2>2 DEF Rest
    <3>2. Left(p.ack_timeouts[k], k, now, slack)
      BY <1>2
    <3> HIDE DEF p
    <3> QED
      BY SMTT(30), <1>0, <1>3, <1>4, <2>1, <3>1, <3>2
  <2>3. CASE \E m \in Msg : m.type \in ExpectsAck /\ Registers("server", m)
    <3>1. PICK m \in Msg : m.type \in ExpectsAck /\ Registers("server", m)
      BY <2>3
    <3> DEFINE s == p.ack_timeouts
               x == Entry(Deadline["server"], p.sequence_no, m.type = "ping")
    <3>2. port'["server"].ack_timeouts = Append(s, x)
      <4>1. Registered(p, m, "server").ack_timeouts = Append(s, x)
        <5>1. p \in Port /\ now \in Nat /\ "server" \in End
          BY <1>0
        <5> HIDE DEF p
        <5> QED
          BY <5>1, <3>1, RegisteredIs
      <4> QED
        BY <3>1, <4>1 DEF Registers
    <3>3. x \in Entries /\ x.no = p.sequence_no /\ x.deadline = now + timeout_period
      BY <1>0, <1>3, Clocks DEF Entry, Entries, Clock
    <3>4. Len(s) <= p.sequence_no
      BY <1>0 DEF Ordered
    <3> HIDE DEF x
    <3>5. /\ DOMAIN Append(s, x) = 1..(Len(s) + 1) /\ \A j \in 1..Len(s) : Append(s, x)[j] = s[j]
          /\ Append(s, x)[Len(s) + 1] = x
      BY <1>3, <3>3, Appended
    <3>6. CASE i \in DOMAIN s /\ port'["server"].ack_timeouts[i] = s[i]
      BY <1>2, <2>1, <3>6
    <3>7. CASE i = Len(s) + 1 /\ port'["server"].ack_timeouts[i] = x
      <4> HIDE DEF p
      <4> QED
        BY <1>0, <1>3, <2>1, <3>3, <3>4, <3>7
    <3> QED
      BY <1>3, <3>2, <3>5, <3>6, <3>7
  <2> QED
    BY <1>7, <1>8, <2>2, <2>3, DeadlinesOf
<1> QED
  BY <1>5, <1>6, <1>8

-----------------------------------------------------------------------------
(* The invariant *)

LEMMA LinkStart == Init => LinkInv
<1> SUFFICES ASSUME Init
             PROVE  LinkInv
  OBVIOUS
<1>1. LinkTypes
  BY TypesAtStart
<1>2. /\ \A t \in Thread : todo[t] = <<>>
      /\ \A e \in End : status_lock[e] = Nobody
      /\ thread["Alice"] = "running" /\ thread["checker"] = "waiting"
      /\ thread["SwitzerlandLink"] = "handshake"
      /\ given_up = {} /\ now = 0
      /\ \A e \in End : /\ port[e].ack_timeouts = <<>> /\ port[e].expected = {}
                        /\ port[e].sequence_no = 0
  BY DEF Init, Thread, NewPort
<1>3. \A e \in End : \A k, l \in DOMAIN wire[e] :
         k = l /\ wire[e][k].type \notin Numbered /\ wire[e][k].type \notin Answer
               /\ wire[e][k].type \notin IsReply
  <2>1. Message("WellHello", NoNumber, NoNumber).type = "WellHello"
    BY DEF Message
  <2>2. \A e \in End : wire[e] = <<>> \/ wire[e] = <<Message("WellHello", NoNumber, NoNumber)>>
    BY DEF Init
  <2> QED
    BY <2>1, <2>2, Kinds
<1>4. Numbers /\ InOrder
  BY <1>3 DEF Numbers, InOrder, Right, Increasing
<1>5. Shapes /\ Idlers /\ Locked
  <2>1. Shapes
    BY <1>2 DEF Shapes, MayDoAll
  <2>2. Idlers
    BY <1>2, Ends DEF Idlers
  <2>3. Locked
    BY <1>2 DEF Locked
  <2> QED
    BY <2>1, <2>2, <2>3
<1>6. Tables
  <2> SUFFICES ASSUME NEW e \in End
               PROVE  Ordered(port[e]) /\ Timely(port[e], e)
    BY DEF Tables
  <2>1. /\ port[e].ack_timeouts = <<>> /\ port[e].expected = {}
        /\ port[e].sequence_no = 0
    BY <1>2
  <2> QED
    BY <2>1 DEF Ordered, Timely, Outstanding
<1>7. Chain /\ Expectations
  <2> SUFFICES ASSUME NEW e \in End
               PROVE  Chained(e) /\ Expected(e)
    BY DEF Chain, Expectations
  <2>1. Other(e) \in End /\ Listener[Other(e)] \in Thread
    BY Ends
  <2>2. Questions(e) = {} /\ Answers(e) = {}
    BY <1>3, <2>1 DEF Questions, Answers, Elements
  <2>3. Dumping(e) = {} /\ Answering(e) = {}
    BY <1>2, <2>1 DEF Dumping, Answering, ToDo
  <2> QED
    BY <2>2, <2>3 DEF Chained, Expected
<1>8. Silence /\ Notice
  BY <1>2, Ends DEF Silence, Notice
<1> QED
  BY <1>1, <1>4, <1>5, <1>6, <1>7, <1>8 DEF LinkInv

LEMMA LinkStep == LinkInv /\ [Next]_vars => LinkInv'
<1> SUFFICES ASSUME LinkInv, [Next]_vars
             PROVE  LinkInv'
  OBVIOUS
<1>1. /\ LinkTypes /\ Numbers /\ Shapes /\ Idlers /\ Locked /\ Tables
      /\ Chain /\ InOrder /\ Expectations /\ Silence /\ Notice
  BY DEF LinkInv
<1>2. LinkTypes'
  BY <1>1, TypesNext
<1>3. Numbers' /\ InOrder'
  BY <1>1, WireNext, OrderStays
<1>4. CASE Next
  BY <1>1, <1>2, <1>3, <1>4, ShapesNext, IdlersNext, LockedNext, TablesNext, ChainNext, SilenceNext,
     NoticeNext DEF LinkInv
<1>5. CASE UNCHANGED vars
  <2>1. /\ now' = now /\ checked' = checked /\ wire' = wire /\ port' = port /\ thread' = thread
        /\ status_lock' = status_lock /\ ack_lock' = ack_lock /\ todo' = todo /\ given_up' = given_up
    BY <1>5 DEF vars, time, locks, others
  <2>2. Shapes' /\ Idlers' /\ Locked'
    <3>1. Shapes'
      BY <1>1, <2>1 DEF Shapes, MayDoAll
    <3>2. Idlers'
      BY <1>1, <2>1 DEF Idlers
    <3>3. Locked'
      BY <1>1, <2>1 DEF Locked
    <3> QED
      BY <3>1, <3>2, <3>3
  <2>3. Tables'
    BY <1>1, <2>1 DEF Tables, Ordered, Timely, Outstanding, Clock
  <2>4. Chain' /\ Expectations'
    <3> SUFFICES ASSUME NEW e \in End, ~Gone(e)'
                 PROVE  Chained(e)' /\ Expected(e)'
      BY DEF Chain, Expectations
    <3>1. ~Gone(e)
      BY <2>1 DEF Gone
    <3>2. Tame
      BY <1>5 DEF Tame
    <3> QED
      BY <1>1, <3>1, <3>2, TameChained DEF Chain, Expectations
  <2>5. Silence'
    BY <1>1, <2>1 DEF Silence
  <2>6. Notice'
    BY <1>1, <2>1 DEF Notice, CircularWait, ToDo, MayLock
  <2> QED
    BY <1>2, <1>3, <2>2, <2>3, <2>4, <2>5, <2>6 DEF LinkInv
<1> QED
  BY <1>4, <1>5

\* Whoever sends, and whenever threads are interrupted or the network is cut,
\* what the two ends know of each other's messages stays as LinkInv says:
\* send_message, process_ack, check_ack_deadlines and the handlers of listen
\* keep it.
THEOREM LinkHolds == Spec => []LinkInv
<1>1. LinkInv /\ [Next]_vars => LinkInv'
  BY LinkStep
<1> QED
  BY LinkStart, <1>1, PTL DEF Spec

\* The tables expected and ack_timeouts are about the same messages, and every
\* ack or reply on its way finds its message there, unless the message has
\* been given up: process_ack and handle_public_ip see an answer that nobody
\* waits for only after its message has been overdue.
THEOREM AnswersExpected == Spec => []AnswersAreExpected
<1>1. LinkInv => AnswersAreExpected
  <2> SUFFICES ASSUME LinkInv, NEW e \in End
               PROVE  /\ port[e].expected = Outstanding(port[e])
                      /\ \A k \in DOMAIN wire[e] :
                            LET m == wire[e][k]
                            IN  /\ m.type = "ack" =>
                                      m.reply_no \in Outstanding(port[e])
                                                     \cup (IF e = "server" THEN given_up ELSE {})
                                /\ m.type \in IsReply => m.reply_no \in port[e].reply_data_table
    BY DEF AnswersAreExpected
  <2>1. port[e].expected = Outstanding(port[e])
    BY DEF LinkInv, Tables, Ordered
  <2> SUFFICES ASSUME NEW k \in DOMAIN wire[e]
               PROVE  LET m == wire[e][k]
                      IN  /\ m.type = "ack" =>
                                m.reply_no \in Outstanding(port[e])
                                               \cup (IF e = "server" THEN given_up ELSE {})
                          /\ m.type \in IsReply => m.reply_no \in port[e].reply_data_table
    BY <2>1
  <2>2. ~Gone(e)
    BY Ends DEF LinkInv, Idlers, Gone
  <2>3. wire[e][k].type \in IsReply => wire[e][k].type \in Answer
    BY DEF LinkInv, Numbers, Right
  <2>4. wire[e][k].type \in Answer => wire[e][k] \in Answers(e)
    BY DEF Answers, Elements
  <2>5. Expected(e)
    BY <2>2 DEF LinkInv, Expectations
  <2> QED
    BY <2>3, <2>4, <2>5, Kinds DEF Expected, Due
<1> QED
  BY <1>1, LinkHolds, PTL

\* "sequence_no consistency": send_message keeps status_lock from the number
\* to the wire, so that messages are on the wire in the order of their numbers.
THEOREM NumbersOrdered == Spec => []NumbersInOrder
<1>1. LinkInv => NumbersInOrder
  <2> SUFFICES ASSUME LinkInv, NEW e \in End, NEW i \in DOMAIN wire[e], NEW j \in DOMAIN wire[e], i < j,
                      {wire[e][i].type, wire[e][j].type} \subseteq Numbered
               PROVE  wire[e][i].no < wire[e][j].no
    BY DEF NumbersInOrder
  <2>1. wire[e][i].type \in Numbered /\ wire[e][j].type \in Numbered
    OBVIOUS
  <2> QED
    BY <2>1 DEF LinkInv, InOrder, Increasing
<1> QED
  BY <1>1, LinkHolds, PTL

\* Although a round of check_ack_deadlines passes over every second message,
\* each takes one of those that were sent before a message that is overdue: no
\* message stays in the list for longer, on a link that is open and whose
\* threads do not wait for each other.
THEOREM OverdueNoticed == Spec => []OverdueAreNoticed
<1>1. LinkInv => OverdueAreNoticed
  <2> SUFFICES ASSUME LinkInv, ~port["server"].closed, ~CircularWait("server"),
                      NEW k \in DOMAIN port["server"].ack_timeouts
               PROVE  LET x == port["server"].ack_timeouts[k]
                      IN  now + k <= x.deadline + x.no + 1
    BY DEF OverdueAreNoticed
  <2>1. PICK x : x = port["server"].ack_timeouts[k]
    OBVIOUS
  <2>2. now + k <= x.deadline + x.no + IF checked /\ todo["checker"] = <<>> THEN 0 ELSE 1
    BY <2>1 DEF LinkInv, Notice
  <2>3. now \in Nat /\ k \in Nat /\ x.no \in Nat /\ x.deadline \in Nat
    <3>1. port["server"] \in Port /\ now \in Nat
      BY Ends DEF LinkInv, LinkTypes
    <3> QED
      BY <2>1, <3>1, EntriesAre
  <2> QED
    BY <2>1, <2>2, <2>3
<1> QED
  BY <1>1, LinkHolds, PTL
=============================================================================
