---------------------------- MODULE ForgeryReport ---------------------------
(***************************************************************************)
(* What the server does about forged packets of one flow.  It asks the     *)
(* receiver for their context (forged-in, fi-context), shows that to the   *)
(* sender and asks for what it may have been (forged-out, fo-context), and  *)
(* passes the answer on to the receiver (forged-details).  A message that   *)
(* expects a reply has a sequence number, under which its sender keeps what *)
(* it will need to understand the reply.                                   *)
(*                                                                         *)
(* There is a link between the server and every client: two ends, and a    *)
(* thread at each of them that handles messages one by one.  A forged       *)
(* packet is its hash; a context is the hash it is a context of, or         *)
(* NoContext.  Whoever logs writes two pcap files for a packet, "in" and    *)
(* "out", under one name, at different times.  All contexts begin at the    *)
(* same moment, so that every name has to be told from the earlier ones.    *)
(***************************************************************************)
EXTENDS Naturals, Sequences, FiniteSets, SequencesExt

CONSTANTS
    Link,           \* clients, and the server's links with them
    src_links,      \* Reconciliator: <<link, flow id>> of the sender ...
    dest_links,     \* ... and of the receiver
    Hash,           \* of forged packets
    max_forgery_set,
    first_no,       \* end -> link -> its next sequence number at the start
    MaxTroubles,    \* BOUND: flows, peers, clients and links that go away
    NoContext, NoFile, NoNumber

ASSUME ReportConstants ==
    /\ \A d \in {src_links, dest_links} :
           \A k \in DOMAIN d : d[k][1] \in Link /\ d[k][2] \in Nat
    /\ max_forgery_set \in Nat \ {0} /\ MaxTroubles \in Nat
    /\ first_no \in [{"server", "client"} -> [Link -> Nat]]
    /\ NoContext \notin Hash /\ NoFile \notin Hash /\ NoNumber \notin Nat

VARIABLES
    config,         \* [logging |-> the server's, pcap_logger |-> clients that log]
    unspotted,      \* forged packets that have yet to be found
    found,          \* link -> forgeries its thread on the server has just found
    respond_to_forgeries,
    closed,         \* links that the server has closed
    port,           \* end -> link -> sequence numbers, reply data and messages
    client,         \* link -> "up", "quit" (on purpose) or "crashed"
    flow_there,     \* <<link, flow id>> of the flows that clients have
    peers,          \* clients that have the other end among their peers
    logs,           \* client or "server" -> its pcap files
    explained       \* history: clients that have been told the details

account == <<unspotted, found, respond_to_forgeries>>
world   == <<closed, client, flow_there, peers>>
records == <<logs, explained>>
vars    == <<config, account, port, world, records>>

End == {"server", "client"}
Other(end) == IF end = "server" THEN "client" ELSE "server"

Flow == {src_links[k] : k \in DOMAIN src_links}
        \cup {dest_links[k] : k \in DOMAIN dest_links}

-----------------------------------------------------------------------------
(* Protocol.send_message and process_inbound_message *)

ExpectsReply == {"forged-in", "forged-out", "fi-context"}

\* The message that a reply answers.
ReplyTo == [x \in {"fi-context", "fo-context", "forged-details"} |->
               IF x = "fi-context" THEN "forged-in"
               ELSE IF x = "fo-context" THEN "forged-out"
               ELSE "fi-context"]

Message(type, no, reply_no, args) ==
    [type |-> type, no |-> no, reply_no |-> reply_no, args |-> args]

Remembered(no, type, data) == [no |-> no, type |-> type, data |-> data]

\* The ports after end has sent a message; a link that is closed sends none.
Sent(ports, end, l, type, args, data, reply_no) ==
    LET no == ports[end][l].sequence_no
        in == Other(end)
    IN  IF end = "server" /\ l \in closed THEN ports
        ELSE IF type \in ExpectsReply
          THEN [ports EXCEPT
                   ![end][l].sequence_no = @ + 1,
                   ![end][l].reply_data_table = @ \cup {Remembered(no, type, data)},
                   ![in][l].inbox = Append(@, Message(type, no, reply_no, args))]
          ELSE [ports EXCEPT
                   ![in][l].inbox = Append(@, Message(type, NoNumber, reply_no, args))]

\* The ports after end has taken its first message, and with it what it has
\* remembered for it.
Taken(end, l) ==
    LET m == Head(port[end][l].inbox)
    IN  [port EXCEPT ![end][l].inbox = Tail(@),
                     ![end][l].reply_data_table = {r \in @ : r.no # m.reply_no}]

\* The paperwork for a reply, if it is expected.
Expected(end, l, m) ==
    {r \in port[end][l].reply_data_table :
        r.no = m.reply_no /\ r.type = ReplyTo[m.type]}

\* The server's and a client's thread is there to handle a message of this type.
ServerHas(l, type) ==
    /\ l \notin closed /\ found[l] = <<>>
    /\ port["server"][l].inbox # <<>>
    /\ Head(port["server"][l].inbox).type = type
ClientHas(l, type) ==
    /\ client[l] = "up"
    /\ port["client"][l].inbox # <<>>
    /\ Head(port["client"][l].inbox).type = type

-----------------------------------------------------------------------------
(* PcapLogger.  Its lock makes each operation one step. *)

Logger == Link \cup {"server"}

File(dir, name, of) == [dir |-> dir, name |-> name, of |-> of]

\* The first name without an inbound file.
GenFilenames(files) ==
    Min({n \in 0..Cardinality(files) :
            \A f \in files : f.dir = "in" => f.name # n})

LogForgedIn(files, h) == files \cup {File("in", GenFilenames(files), h)}

\* Overwrites the file if there is one.
LogForgedOut(files, h, name) ==
    {f \in files : f.dir = "out" => f.name # name} \cup {File("out", name, h)}

\* Log the inbound contexts that there are, and keep the names for later.
LogInbound(files, contexts) ==
    FoldLeft(LAMBDA log, h :
                 IF h = NoContext THEN [log EXCEPT !.names = Append(@, NoFile)]
                 ELSE [files |-> LogForgedIn(log.files, h),
                       names |-> Append(log.names, GenFilenames(log.files))],
             [files |-> files, names |-> <<>>], contexts)

\* Log the outbound contexts that there are under names kept for them.
LogOutbound(files, names, contexts) ==
    FoldLeftDomain(LAMBDA log, k :
                       IF names[k] = NoFile \/ contexts[k] = NoContext THEN log
                       ELSE LogForgedOut(log, contexts[k], names[k]),
                   files, names)

\* Log inbound contexts and, where it is known, the outbound one at once.
LogBoth(files, contexts, known) ==
    FoldLeft(LAMBDA log, h :
                 IF h \notin known THEN LogForgedIn(log, h)
                 ELSE LogForgedOut(LogForgedIn(log, h), h, GenFilenames(log)),
             files, contexts)

-----------------------------------------------------------------------------
Init ==
    /\ config \in [logging : BOOLEAN, pcap_logger : SUBSET Link]
    /\ unspotted = Hash /\ found = [l \in Link |-> <<>>]
    /\ respond_to_forgeries = TRUE
    /\ closed = {}
    /\ port = [e \in End |-> [l \in Link |->
                  [sequence_no |-> first_no[e][l], reply_data_table |-> {},
                   inbox |-> <<>>]]]
    /\ client = [l \in Link |-> "up"]
    /\ flow_there = Flow /\ peers = Link
    /\ logs = [o \in Logger |-> {}]
    /\ explained = {}

\* handle_sent_or_recd: a report shows that packets have been forged.
SentOrRecd(l) ==
    /\ l \notin closed /\ found[l] = <<>>
    /\ \E new \in SUBSET unspotted \ {{}} :
          /\ found' = [found EXCEPT ![l] = SetToSeq(new)]
          /\ unspotted' = unspotted \ new
    /\ UNCHANGED <<config, respond_to_forgeries, port, world, records>>

\* The sequences of num different elements of set.
Arrangements(set, num) ==
    {s \in [1..num -> set] : \A i, j \in 1..num : s[i] = s[j] => i = j}

\* select_some_forgeries
Selections(forgeries) ==
    IF Len(forgeries) <= max_forgery_set THEN {forgeries}
    ELSE Arrangements({forgeries[k] : k \in DOMAIN forgeries}, max_forgery_set)

\* Bug: remembers all forgeries for the reply and not those selected.
AskForAll(all, forgeries) ==
    FoldLeft(LAMBDA ports, d : Sent(ports, "server", d[1], "forged-in",
                                    [id |-> d[2], forgeries |-> forgeries],
                                    [forgeries |-> all], NoNumber),
             port, dest_links)

\* The receiver is asked for the forgeries selected among all that were found.
AskFor(all, forgeries) ==
    FoldLeft(LAMBDA ports, d : Sent(ports, "server", d[1], "forged-in",
                                    [id |-> d[2], forgeries |-> forgeries],
                                    [forgeries |-> forgeries], NoNumber),
             port, dest_links)

\* spotted_forgeries: only the first time.
SpottedForgeries(l) ==
    /\ found[l] # <<>>
    /\ found' = [found EXCEPT ![l] = <<>>]
    /\ respond_to_forgeries' = FALSE
    /\ IF respond_to_forgeries
         THEN \E s \in Selections(found[l]) : port' = AskFor(found[l], s)
         ELSE UNCHANGED port
    /\ UNCHANGED <<config, unspotted, world, records>>

\* handle_fi_context: the receiver's context is shown to the sender, and what
\* is needed for the receiver's answer is remembered with it.  A handler that
\* raises an exception ends the link.
FiContext(l) ==
    LET m         == Head(port["server"][l].inbox)
        contexts  == m.args.contexts
        expected  == Expected("server", l, m)
        forgeries == (CHOOSE r \in expected : TRUE).data.forgeries
        logged    == LogInbound(logs["server"], [k \in DOMAIN forgeries |->
                                                    contexts[forgeries[k]]])
        filenames == IF config.logging THEN logged.names ELSE <<>>
        msgs      == [k \in DOMAIN forgeries |->
                         [hash |-> forgeries[k], context |-> contexts[forgeries[k]]]]
        store     == [filenames |-> filenames, forgeries |-> forgeries, token |-> m.no]
    IN  /\ ServerHas(l, "fi-context")
        /\ IF expected = {}
             THEN /\ port' = Taken("server", l) /\ closed' = closed \cup {l}
                  /\ UNCHANGED logs
             ELSE /\ port' = FoldLeft(
                         LAMBDA ports, s : Sent(ports, "server", s[1], "forged-out",
                                                [id |-> s[2], msgs |-> msgs],
                                                store, NoNumber),
                         Taken("server", l), src_links)
                  /\ logs' = IF config.logging
                               THEN [logs EXCEPT !["server"] = logged.files]
                               ELSE logs
                  /\ UNCHANGED closed
    /\ UNCHANGED <<config, account, client, flow_there, peers, explained>>

\* The number of the receiver's fi-context, which forged-details answers.
Token(m, data) == data.token

\* handle_fo_context: the sender's answer goes to the receiver.
FoContext(l) ==
    LET m         == Head(port["server"][l].inbox)
        expected  == Expected("server", l, m)
        data      == (CHOOSE r \in expected : TRUE).data
        msgs      == [k \in DOMAIN data.forgeries |->
                         [hash    |-> data.forgeries[k],
                          context |-> m.args.contexts[data.forgeries[k]]]]
    IN  /\ ServerHas(l, "fo-context")
        /\ IF expected = {}
             THEN /\ port' = Taken("server", l) /\ closed' = closed \cup {l}
                  /\ UNCHANGED logs
             ELSE /\ port' = FoldLeft(
                         LAMBDA ports, d : Sent(ports, "server", d[1], "forged-details",
                                                [id |-> d[2], msgs |-> msgs],
                                                {}, Token(m, data)),
                         Taken("server", l), dest_links)
                  /\ logs' = [logs EXCEPT !["server"] =
                                 LogOutbound(@, data.filenames,
                                             [k \in DOMAIN msgs |-> msgs[k].context])]
                  /\ UNCHANGED closed
    /\ UNCHANGED <<config, account, client, flow_there, peers, explained>>

-----------------------------------------------------------------------------
(* The client *)

\* lookup_flow_by_id finds the flow, unless the cleaner has deleted it.
LookupFlowById(l, id) == <<l, id>> \in flow_there

\* nat_firewall_warnings has to know whether the peer is behind a firewall,
\* and reports an error if the peer has left.
NatFirewallWarnings(l) == l \in peers

\* Bug: does not reply if any context is missing.
RepliesIfWhole(l, known, wanted) == known = wanted /\ l \in config.pcap_logger

\* Writing a context to a pcap file raises an exception in a client that keeps
\* none, and handle_forged_in catches it.
Replies(l, known, wanted) == known = {} \/ l \in config.pcap_logger

\* handle_forged_in: known are the packets that are still in the queue.  There
\* is no reply if the flow or the peer has gone.
ForgedIn(l) ==
    LET m      == Head(port["client"][l].inbox)
        asked  == m.args.forgeries
        wanted == {asked[k] : k \in DOMAIN asked}
    IN  /\ ClientHas(l, "forged-in")
        /\ \E known \in SUBSET wanted :
              LET context(h)   == IF h \in known THEN h ELSE NoContext
                  contexts     == [h \in wanted |-> context(h)]
                  logged       == LogInbound(logs[l], [k \in DOMAIN asked |->
                                                          context(asked[k])])
              IN  IF /\ LookupFlowById(l, m.args.id) /\ NatFirewallWarnings(l)
                     /\ Replies(l, known, wanted)
                    THEN /\ port' = Sent(Taken("client", l), "client", l, "fi-context",
                                         [contexts |-> contexts],
                                         [filenames |-> logged.names], m.no)
                         /\ logs' = [logs EXCEPT ![l] = logged.files]
                    ELSE port' = Taken("client", l) /\ UNCHANGED logs
    /\ UNCHANGED <<config, account, world, explained>>

\* handle_forged_out uses the flow, the receiver's context and the log without
\* asking whether they are there.  An exception ends the client, after the
\* files for the packets before the one without context have been written.
ForgedOut(l) ==
    LET m      == Head(port["client"][l].inbox)
        msgs   == m.args.msgs
        wanted == {msgs[k].hash : k \in DOMAIN msgs}
        none   == ~LookupFlowById(l, m.args.id) \/ l \notin config.pcap_logger
        done   == IF none THEN 0
                  ELSE Max({n \in 0..Len(msgs) :
                               \A k \in 1..n : msgs[k].context # NoContext})
    IN  /\ ClientHas(l, "forged-out")
        /\ \E known \in SUBSET {msgs[k].hash : k \in 1..done} :
              LET contexts == [h \in wanted |->
                                  IF h \in known THEN h ELSE NoContext]
              IN  /\ logs' = [logs EXCEPT ![l] =
                                LogBoth(@, [k \in 1..done |-> msgs[k].context], known)]
                  /\ IF none \/ done < Len(msgs)
                       THEN /\ client' = [client EXCEPT ![l] = "crashed"]
                            /\ port' = Taken("client", l)
                       ELSE /\ port' = Sent(Taken("client", l), "client", l, "fo-context",
                                            [contexts |-> contexts], {}, m.no)
                            /\ UNCHANGED client
    /\ UNCHANGED <<config, account, closed, flow_there, peers, explained>>

\* handle_forged_details
ForgedDetails(l) ==
    LET m        == Head(port["client"][l].inbox)
        expected == Expected("client", l, m)
        names    == (CHOOSE r \in expected : TRUE).data.filenames
    IN  /\ ClientHas(l, "forged-details")
        /\ port' = Taken("client", l)
        /\ IF expected = {}
             THEN /\ client' = [client EXCEPT ![l] = "crashed"]
                  /\ UNCHANGED records
             ELSE /\ explained' = explained \cup {l}
                  /\ logs' = [logs EXCEPT ![l] =
                                LogOutbound(@, names, [k \in DOMAIN m.args.msgs |->
                                                          m.args.msgs[k].context])]
                  /\ UNCHANGED client
    /\ UNCHANGED <<config, account, closed, flow_there, peers>>

-----------------------------------------------------------------------------
(* What else happens meanwhile. *)

\* BOUND: MaxTroubles
Troubles == Cardinality(closed) + Cardinality(Flow \ flow_there)
            + Cardinality(Link \ peers) + Cardinality({l \in Link : client[l] # "up"})

MoreTrouble == Troubles < MaxTroubles

\* FlowManager.clean deletes a flow that has been quiet.
CleanFlow(f) ==
    /\ MoreTrouble
    /\ client[f[1]] = "up" /\ f \in flow_there
    /\ flow_there' = flow_there \ {f}
    /\ UNCHANGED <<config, account, port, closed, client, peers, records>>

\* FlowManager.farewell: the other end's peer has left.
Farewell(l) ==
    /\ MoreTrouble
    /\ client[l] = "up" /\ l \in peers
    /\ peers' = peers \ {l}
    /\ UNCHANGED <<config, account, port, closed, client, flow_there, records>>

\* A client quits, by itself or because the server has closed the session.
Quit(l) ==
    /\ MoreTrouble
    /\ client[l] = "up"
    /\ client' = [client EXCEPT ![l] = "quit"]
    /\ UNCHANGED <<config, account, port, closed, flow_there, peers, records>>

\* The server closes a link: the client has gone or seems to have.
LinkClosed(l) ==
    /\ MoreTrouble
    /\ l \notin closed
    /\ closed' = closed \cup {l}
    /\ UNCHANGED <<config, account, port, client, flow_there, peers, records>>

Handle(l) ==
    \/ SpottedForgeries(l)
    \/ FiContext(l) \/ FoContext(l)
    \/ ForgedIn(l) \/ ForgedOut(l) \/ ForgedDetails(l)

Next ==
    \/ \E l \in Link : SentOrRecd(l) \/ Handle(l)
    \/ \E f \in Flow : CleanFlow(f)
    \/ \E l \in Link : Farewell(l) \/ Quit(l) \/ LinkClosed(l)

\* Every thread handles what it has been sent.
Fairness ==
    \A l \in Link :
        /\ WF_vars(SpottedForgeries(l))
        /\ WF_vars(FiContext(l)) /\ WF_vars(FoContext(l))
        /\ WF_vars(ForgedIn(l)) /\ WF_vars(ForgedOut(l)) /\ WF_vars(ForgedDetails(l))

Spec == Init /\ [][Next]_vars /\ Fairness

-----------------------------------------------------------------------------
(* Properties *)

Numbers == {NoNumber} \cup Nat

\* Types; no two replies are awaited under one number.
TypeOK ==
    /\ config.logging \in BOOLEAN /\ config.pcap_logger \subseteq Link
    /\ unspotted \subseteq Hash /\ found \in [Link -> Seq(Hash)]
    /\ respond_to_forgeries \in BOOLEAN
    /\ closed \subseteq Link /\ peers \subseteq Link /\ flow_there \subseteq Flow
    /\ client \in [Link -> {"up", "quit", "crashed"}] /\ explained \subseteq Link
    /\ logs \in [Logger -> SUBSET [dir : {"in", "out"}, name : Nat, of : Hash]]
    /\ \A e \in End, l \in Link :
          /\ port[e][l].sequence_no \in Nat
          /\ \A r, q \in port[e][l].reply_data_table : r.no = q.no => r = q
          /\ \A r \in port[e][l].reply_data_table :
                r.no < port[e][l].sequence_no /\ r.type \in ExpectsReply
          /\ \A k \in DOMAIN port[e][l].inbox :
                LET m == port[e][l].inbox[k]
                IN  m.no \in Numbers /\ m.reply_no \in Numbers

\* "reply %d should not be a ... message": a reply finds what was remembered
\* for it, and finds it once.
RepliesAreExpected ==
    \A e \in End, l \in Link :
        LET inbox == port[e][l].inbox
            reply == {k \in DOMAIN inbox : inbox[k].type \in DOMAIN ReplyTo}
        IN  /\ \A k \in reply : Expected(e, l, inbox[k]) # {}
            /\ \A j, k \in reply : inbox[j].reply_no = inbox[k].reply_no => j = k

\* o has an inbound file of this name, and it is about this packet.
IsFileOf(o, name, h) == File("in", name, h) \in logs[o]

\* What was made at different ends, in different messages, fits: a reply has a
\* context for every forgery that the server remembers; if it logs it has a
\* name for each; the name that is kept for an outbound context is that of the
\* inbound file of the same packet; and the two files of one name are about one
\* packet, none written over by another ("the inbound and outbound filenames
\* need to match").
PaperworkFits ==
    /\ RepliesAreExpected
    /\ \A l \in Link :
        /\ \A k \in DOMAIN port["server"][l].inbox :
              LET m == port["server"][l].inbox[k]
              IN  \A r \in Expected("server", l, m) :
                      LET f == r.data.forgeries
                      IN  /\ \A i \in DOMAIN f : f[i] \in DOMAIN m.args.contexts
                          /\ r.type = "forged-out" =>
                                Len(r.data.filenames) = IF config.logging THEN Len(f) ELSE 0
        /\ \A k \in DOMAIN port["client"][l].inbox :
              LET m == port["client"][l].inbox[k]
              IN  m.type = "forged-details" =>
                  \A r \in Expected("client", l, m) :
                      /\ Len(r.data.filenames) = Len(m.args.msgs)
                      /\ \A i \in DOMAIN m.args.msgs :
                            r.data.filenames[i] = NoFile
                            \/ IsFileOf(l, r.data.filenames[i], m.args.msgs[i].hash)
    /\ \A o \in Logger : \A f, g \in logs[o] : f.name = g.name => f.of = g.of

\* Somebody has left, or does not log.
Troubled == Troubles > 0 \/ config.pcap_logger # Link

\* Once forgeries have been spotted the receivers are told the details, unless
\* somebody leaves.
Explained ==
    ~respond_to_forgeries
        ~> Troubled \/ \A k \in DOMAIN dest_links : dest_links[k][1] \in explained

=============================================================================
