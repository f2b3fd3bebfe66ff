# Switzerland in TLA+

Switzerland finds out whether a network between two computers drops, delays,
modifies or invents packets.  Clients (`switzerland/client`, "Alice") capture
their traffic, hash every packet and report the hashes, with timestamps, to a
server (`switzerland/server`), which compares what one end of a flow sent with
what the other end received.  This directory holds TLA+ modules of the parts of
the program whose correctness depends on order and interleaving, TLC
configurations that check them on small instances, and proofs for TLAPS.

Everything is translated from the code (Python 2 and one C program); comments,
docs and tests are used only to learn what the code is meant to do.  Where they
disagree with it, section 6 says how.

Contents: 1 the system, 2 the modules, 3 correspondence to the code, 4 runs and
bounds, 5 fairness, 6 where code and comments disagree, 7 proofs, 8 what is not
modelled, 9 plan, 10 running.

## 1. The system

### Components, state and operations

| component | state | operations that change it |
|---|---|---|
| `Reconciliator` (server), the account of one one-way flow | batches pending on each side (`a_to_b`, `b_from_a`), hash-to-batches dictionaries (`sent_packets`, `recd_packets`), newest timestamp per side, links per side, `max_clock_skew`, `ready`, counters, `finalized` | `add_link`, `sent_by_alice`, `recd_by_bob`, `check_for_drops`, `alice_sent_flow_status`, `bob_sent_flow_status`, `check_dangling`, `final_judgement` |
| `Matchmaker` (server), which account a flow belongs to | `flow_matchmaker` (m-tuple to Reconciliator), per link a `flow_table` (flow id to Reconciliator) | `add_flow`, `delete_flow`, `remove_flow_from_matchmaker`; from the server `ponder_flow`, `link_closed`, the marking of dangling flows |
| Circle (server and client), who knows whom | `peer_ips`, per link its `ready` event and `alice_firewalled`; per client `peers`, a queue of members, its `ready` flag | `new_link`, `handle_myip`, `peers_of`, `joining_circle`, `link_closed`, `send_farewells`; client `listen_for`, `farewell`, `public-ip` |
| Server threads and locks | `peer_lock`, `global_flow_lock`, each account's lock, per link `status_lock`, `ack_lock`, `flow_lock` | every handler of a listener, `pinger`, `flow_printer`, `check_ack_deadlines` |
| `Protocol` (both ends of a link) | `sequence_no`, `expected_acknowledgments`, `ack_timeouts`, `reply_data_table`, `ready`, `closed`, messages kept until ready | handshake, `send_message`, `register_ack`, `process_ack`, `check_ack_deadlines`, `protocol_error`, `now_ready`, `bailout`, `close`, `listen` |
| Encoding of messages (both ends) | the objects met, in order; those made | `dump`, `collect`, `immutable_depth`; `undump`, `undump_ref` |
| Capture (client) | a memory-mapped ring, the positions of its two users, the collector's exit; kernel settings, tempfile, the collector's process | C: `handle_packet`, `write_packet`, `check_for_drops`, `start_capture`, `open_buffer`; Python: `minimize_packet_loss`, `launch_collector`, `read_one_packet`, `check_for_sniffer_error`, `cleanup` |
| `Alice` (client) | the main thread, `quit_event` | `start`, `main` |
| `TimeManager` (client) | the clock's error | `ntp_setup`, `ntpdate_poll` |
| `Packet`, `PacketDiff` (client) | one packet | `normalize_data`, `process_tcp_options`, `decode_flow_info`, `get_hash`; `diff` |
| Client flows, batches, reports | `FlowManager` tables (flows, new and deleted ones), per flow a `PacketQueue` of sent and unsent `PacketBatch`es, `Packet.reported` | `handle_packet`, `create_flow`, `append`, `listen_for`, `farewell`, `clean`, `Reporter.run`, `send_batch`, `get_fi_context`, `get_fo_context_and_diff` |
| Forgery reports, packet logs | `respond_to_forgeries`, per link and end a `reply_data_table` of questions asked; pcap files | `spotted_forgeries`, `forged-in`, `fi-context`, `forged-out`, `fo-context`, `forged-details`; `log_forged_in`, `log_forged_out` |
| `Tracerouter` (client) | the queue of targets, routes found, the program that works | `route_to`, `enqueue`, `do_traceroutes`, `setup` |
| Web interface and API (client) | displayed flows, their packets, the current graph | `update_graph`, `update_active_flows`, `update_packet_data`, `make_graph`, `startService`, `stopService` |
| Others | | configuration, finding an address, vendored libraries |

### How they interact

A client connects and says `my-ip`.  The server tells it its address, tells it
who is in the circle and tells the others of it.  `PacketListener` takes packets
from the ring that `FastCollector` fills and hands those to or from known peers
to `FlowManager`, which appends them to the queue of their flow.  The `Reporter`
thread announces new flows (`active-flows`) and sends batches of hashes (`sent`,
`recd`).  On the server every connection has a listener thread; it runs the
handlers of that client's messages one after the other.  An announcement goes
through `ponder_flow` to `Matchmaker.add_flow`, which finds the `Reconciliator`
the other end has brought about or creates one.  Reports go to that account; if
it finds forgeries the server asks both clients for context.  `pinger` pings all
clients; a thread per connection looks for acks that are overdue and calls
`bye`, which closes the link.

### What is hard

* *Order of reports.*  The two ends report independently, in batches that are
  cut differently, by clocks that disagree, over a network that reorders and
  duplicates.  A verdict must not depend on it (`Reconciliator`, `Reporter`).
* *Two structures that must agree.*  A batch is referenced from a list and from
  a dictionary and both are updated by hand (`Reconciliator`).
* *Handlers that release locks half-way.*  `add_flow`, `delete_flow`,
  `link_closed` and `handle_myip` each hold several locks one after another, and
  threads of other clients run in between (`Matchmaker`, circle).
* *Callbacks with locks held.*  `bye` runs with `ack_lock`, `protocol_error`
  with `status_lock`, closing after a failed send with whatever the sender has.
* *Two processes without a lock* share the ring of captured packets.
* *One object, many threads.*  A link's listener, the pinger, the checker of acks
  and other links' threads share a `Protocol`; requests to the web interface
  share what is displayed.
* *Ends.*  A client leaves while it joins; either end of a link goes during the
  handshake; a playback ends while packets are in the ring; two threads clean up
  after the capture at once; a final judgement comes while reports are on their
  way.
* *What may change.*  A packet is hashed at two places between which routers and
  NATs have a right to change some of it (`Packet`).

`PROJECT.json` lists these hazards one by one, each at its line, with the
properties that would catch it going wrong.

### What makes each component correct

* Account: every reported packet is cancelled, pending or judged, exactly once;
  no hash is pending on both sides; verdicts come when they are due and not
  before; and a verdict accuses the network only of what it did.
* Matchmaker: both ends of a flow report to one account; an account is removed
  by a link that has it (it is not always, section 6); none is left behind.
* Circle: members know each other; nobody waits for a client that has left.
* Client: packets are reported once, in order and in time; the server hears of a
  flow before it hears of its packets, and of its end; what it asks for later as
  the context of a forgery is still there, and the right packets are found.
* Forgery reports: every reply belongs to a question, fits what was remembered
  for it, and reaches the receiver of the forgery; no log is written over.
* Locks: threads never wait for each other in a circle.
* Links: messages are numbered in the order they go out, every ack finds its
  message, overdue ones are noticed, and neither end outlives the other.
* Capture: packets come out whole, once and in order; a failure is noticed; the
  client ends, with no packets left on disk and the kernel as it was.  Most of
  this has exceptions, which the properties name (section 6).
* Packets: hashes agree at both ends if and only if nothing was changed that
  counts, and a report names what was changed.
* Web interface: new flows are shown, graphs count rightly, routes are found.

## 2. The modules

```
Ledger            abstract account of one flow         (proofs: LedgerProofs)
  ^   ^
  |   +-- EndToEnd       extends it with clients, clocks and a network
  |                                                    (EndToEndProofs)
  +------ Reconciliator  the code's data structures, implements it

Matchmaker        flow tables, matchmaker and the threads that update them
                                                       (MatchmakerProofs)
Circle            joining and leaving, on the server and in the clients
                                                       (CircleProofs)
ServerLocks       which thread takes which lock in which order

Context           which packets are shown as context of a forgery
  ^
  +------ Client         flows, batches, announcements, reports, cleaning
                                                       (ClientProofs)

ForgeryReport     the five messages about forged packets, who remembers what,
                  and the pcap files

CaptureQueue      abstract bounded queue of packets
  ^
  +------ CaptureRing    the memory-mapped ring, implements it
             ^
             +-- Session   a client from its start to its end
                                     (SessionProofs, of the ring and the session)

Messages          kinds of messages: who sends them and what they expect
  ^
  +------ Link           both ends of a link and all threads that share them
                                                       (LinkProofs)

Cerealizer        how a message is written and read

Packet            normal form and hash of a packet
  ^
  +------ PacketDiff     what a report says of two packets
             ^
             +-- PacketPath   a packet from one client's sniffer to the other's

Tracerouter       routes to peers
  ^
  +------ Dashboard      the web interface             (DashboardProofs)
```

Each `MC<module>` gives the constants of one of these values for TLC.  Two put
modules that have no state in common side by side, each behaviour being about one
of them: `MCServer` has `EndToEnd` and `ServerLocks`, `MCFormats` has `PacketPath`,
`CaptureRing` and `Cerealizer`.
Definitions headed `Bug:` are not part of the model.  Each is a variant of the
definition after it with a mistake one could make in that code; put in its place
it makes a property fail, which is how we know that the property says something.

## 3. Correspondence to the code

`PROJECT.json`, "map", gives file and lines of every definition.  In outline:

**Ledger.**  The state of an account without its data structures: per hash, the
timestamps pending on each side, the newest timestamp of each side, and the
verdicts.  `ReportSent` is all of `handle_sent_or_recd` for a "sent" message
(`sent_by_alice`, with `__discard_from_new_batch`, `makebatch` and
`__check_for_forgeries`, then `check_for_drops`) and `ReportRecd` for "recd",
where the code does not look for drops.  `StatusA`, `StatusB` and
`FinalJudgement` are `alice_sent_flow_status`, `bob_sent_flow_status` and
`final_judgement`.  The code's scalar counters are the sums of the functions
`okay`, `forged` and `dropped`.

**Reconciliator.**  `a_to_b` and `b_from_a` are the lists of batches, oldest
first, each an object with an identity, a timestamp and counts per hash.
`sent_packets` and `recd_packets` map a hash to the batches that hold it.
`CancelOldest`, `Remember` and `ScanBatches` are `__discard_from_new_batch`,
`makebatch` and `scan_batches`.  `AddLink` recomputes `max_clock_skew` from all
links ever added.  `Tick` lets `dangling_timeout` pass, after which
`ReportDangling` has one link of one side ignored, as its flow's entry is set to
`None` in that link's table.  The refinement mapping (`Account`) reads
the pending timestamps off the lists.

**EndToEnd.**  `Send`, `Deliver`, `Lose` and `Inject` are the network and the
capture at both ends; `ReportA(k)` and `ReportB(k)` cut a batch of any length
from the queue, stamp it with the time of its newest packet and let the server
handle it.  Nothing is assumed of where the cuts fall: the limits of batches,
the reporter's rhythm and the delay of a message on its way to the server are
all in the choice of `k` and of the moment.

**Matchmaker.**  An action is what a thread does while it keeps one lock.
`PonderFlow`, `AddFlow` and `RegisterFlow` are an announcement: `ponder_flow`
under `peer_lock`, the first half of `add_flow` under `global_flow_lock`, the
second under the link's `flow_lock`.  `DeleteFlow` and `RemoveFlow` are the
halves of `delete_flow`.  `LinkClosed`, `PurgeFlows`, `PurgeFlow` and `PurgeDone`
are `link_closed`.  `Dangling` is the part of `handle_sent_or_recd` that sets an
entry to `None`.  `thread` says where each listener is.  Flow ids come from the
client's counter and are used in order.  `LinkClosed` may come whatever the
listener is doing, since the pinger's `bye` and `send_other_message` close links
from other threads, and an m-tuple may come back at any time.  Which accounts a
link has `ended`, and which were taken out by `mistake`, is history.

**Circle.**  `MyIp`, `ListMembers`, `SendMembers`, `JoiningCircle` and `NowReady`
are `handle_myip`, cut where `peer_lock` is released.  `Receive` is the client.
`together` remembers which clients joined around each other.

**ServerLocks.**  An operation is the sequence of locks it takes and releases,
and what it computes is left to the other modules.  An operation is chosen
regardless of the state, so every order of messages is covered, and more.
`Troubles` chooses which failures a run has.

**Context.**  No state: `FiContext` is `get_fi_context` with its search for a
batch by timestamp and hash and the two walks over packets and batches;
`FoContext` is the scan of `get_fo_context_and_diff`.  `Neighbourhood` and `Span`
say what they should return in terms of one sequence of packets.

**Client.**  `HandlePacket` is `FlowManager.handle_packet` with `create_flow` and
`PacketQueue.append`; `Report` is one round of `Reporter.run`, which holds the
lock throughout; `Clean` is `FlowManager.clean`.  A batch is the sequence of its
packets, a flow has `sent` and `unsent` batches.  Of the server there is what it
has been told (`server_flows`, `reported`): TCP keeps the order of messages.

**ForgeryReport.**  `SpottedForgeries`, `FiContext` and `FoContext` are handlers
of the server's threads, `ForgedIn`, `ForgedOut` and `ForgedDetails` of the
clients'.  `Sent` is `send_message` with the bookkeeping of sequence numbers and
reply data, `Taken` and `Expected` are what `process_inbound_message` does for a
reply.  `CleanFlow`, `Farewell`, `Quit` and `LinkClosed` may come in between any
two of them.  What a client finds in its queue is any subset of what it is asked
for; `Context` has the search itself.

Pcap files are records of direction, name and the packet they are about; all
contexts begin at one moment, so that names collide as often as they can.
`GenFilenames`, `LogForgedIn` and `LogForgedOut` are `PcapLogger`'s.

**CaptureRing, Session.**  An action of `CaptureRing` reads or writes one field
of an entry.  A packet is its number and its length on the wire, so that half of
one packet and half of another are told apart and the cast of the length to 16
bits shows.  `Session` adds the threads and processes around the ring: main
(`MainStarts` to `MainExits`), the listener thread from `minimize_packet_loss` to
`cleanup`, step by step, and the collector's start and end; the collector is a
process of its own and goes on when the client has exited.  `Cleanup(t)` is
`cleanup` in thread `t`; its steps are separate because the other thread may be
anywhere in them.  Each step of starting and of cleaning up that can fail has a
disjunct for it: a setting, `Popen`, `renice`, the collector itself, `open` and
`mmap`, restoring, unmapping, `shred`.  `quit` may be set at any moment by
`QuitElsewhere` (the link); `MainInterrupted` is a ^C, `MainInterruptedAgain` one
at any step of main's cleanup, where the `try` statements around that step decide
whether main leaves at once (`LeaveAtOnce`), by the `finally` clause
(`LeaveByFinally`) or not at all (`NotLeave`), and `MainKilled` a signal without a
handler.  What has gone wrong is kept in the history variable `troubles`.

**Messages, Link.**  `Messages` translates the table of message definitions.
`Link` has a `port` (a Protocol object) at each end and a `wire` in each
direction.  A send is four steps: `SendPlain` or `SendLock`, `SendRegister`,
`SendDump`; each is a place where another thread can come in.  `Listens` are the
handlers that matter to the link itself: acks, errors, signoff, `my-ip` and
`public-ip`, `protocol_error`.  Threads other than the listeners send any kind of
message but acks and replies, as in the code (`AliceSends`, `PingerSends`).
`CheckAckDeadlines` is one round, with the deletion from the list that it
iterates over: it passes over every second entry (`Handles`, `Kept`).  `Cut`
breaks the connection.

**Cerealizer.**  A message is a set of objects that refer to one another.
`Collect` is one call of `collect`; `Dump` writes the whole message as tokens,
one for each line or text; `Cut` takes the end of it, from within a token or
between two, as far as `Parts` says; `UndumpHeader`, `UndumpObj`, `UndumpData`
and `UndumpRoot` are the four parts of `undump`.  That a message gets from one
end to the other whole, or not at all, is what `Link` assumes of its wire.

**Packet, PacketDiff, PacketPath.**  A packet is a record of header fields.
`Normalize`, `OwnSide`, `PeerSide` and `GetHash` are `normalize_data` and
`get_hash`; the digest is the packet that would be digested.  `Diff` is
`PacketDiffer.diff` as the set of names it prints.  `PacketPath` moves a packet
through NATs, routers, a tamperer and a link layer, which are external;
`PonderFlow` is how the server recognises the flow that the packet opens.

**Tracerouter, Dashboard.**  `Tracerouter` has the condition variable's lock and
how often its owner has taken it.  In `Dashboard` a request goes through
`NewFlows`, `AddFlow`, `DeleteInactive`, `GetNewPacketCount`, `AppendCount` and
`Draw`; another request's steps and the client's come in between.  Bins are
computed with integers that stand for ticks, `Second` ticks to a second, so that
rounding to whole seconds and to whole bins happens where the code does it.

External to `src/`, and modelled from how the code uses them: networks, NATs and
the passing of time, TCP, pcap, Python's `RLock`.

## 4. Runs and bounds

State counts and times are from two workers on a small machine.

| run | states | time | shows |
|---|---|---|---|
| `server` | 890 thousand | 65 s | `NoFalseForgery`, `NoFalseDrop`, and of the account `Conservation`, `NeverBothPending`, `Chronological`, `PromptForgeries`, `JudgementIsFinal`; of the locks `NoCircularWait`, and no deadlock |
| `reconciliator` | 130 thousand | 110 s | `IndexMatchesBatches`, `ImplementsLedger` |
| `matchmaker` | 3.1 million | 60 s | `SharedAccount`, `EveryRecHasAnOwner` |
| `circle` | 43 thousand | 15 s | `MutualUnlessTogether`, `NoPhantoms`, `EventuallyMutual` |
| `session` | 520 thousand | 160 s | `NoPacketsLeft`, `KernelIsRestored`, `QuitEndsClient`, `FailureIsNoticed` |
| `client` | 310 thousand | 50 s | `ReportedInOrder`, `NothingWaits`, `ServerForgets`, `AnnouncedFirst`, `ContextsAreRight` |
| `forgery` | 170 thousand | 25 s | `PaperworkFits`, `Explained` |
| `link` | 420 thousand | 100 s | `AnswersAreExpected`, `NumbersInOrder`, `OverdueAreNoticed`, `PartingIsMutual` |
| `formats` | 1.0 million | 35 s | of packets `InnocentPacketsMatch`, `TamperingShows`, `ReportsAreExact`; of messages `ReadsWhatWasWritten`; of the ring `ImplementsQueue` |
| `dashboard` | 720 thousand | 70 s | `FlowsAreShown`, `GraphIsTrue`, `TargetsAreTraced` |

`matchmaker_reuse` and `udp_nat` end in violations; section 6 has them.  Some modules have
a `TypeOK` as documentation of their state; those of `Ledger` and `Matchmaker` are
proved.

**server, the account.**  Alice sends two packets, with the same hash or with different
ones, the network may lose each and add one of its own, and the clocks differ by
up to one tick.  The assumption `EndToEndConstants` is the condition under which
verdicts are sound (section 7 proves that it is enough), and the code has it from its settings: the skew covers the
clock error, and `drop_timeout` covers the delay and the clock error.  That a
batch has the timestamp of its *newest* packet matters: with the oldest,
`NoFalseForgery` fails.

**reconciliator.**  Two packets from each side, two hashes, two links on the
sending side with dispersions 0 or 1, so that `max_clock_skew` grows while
batches are pending.  `ImplementsLedger` is the refinement: every action is an
action of `Ledger` or changes nothing it tells.  The bounds on the two modules
differ (here packets are counted over all hashes) and the smaller one decides.

**matchmaker.**  Two links of Alice, the second after the first, one of Bob, one
m-tuple, two flow ids for each link, three flows and three accounts: enough for an
m-tuple to come back twice, over the same link or the next, while an older account
is still being taken out.  All properties are about one m-tuple, and m-tuples
share nothing but locks.  Links are closed from any thread at any time.
`SharedAccount` excepts accounts that the other end has ended, and those that were
taken out by mistake, as `matchmaker_reuse` shows they can be;
`EveryRecHasAnOwner` excepts flows that dangled and flows entered after
`link_closed` had gone through the table, which the comment at
`Switzerland.py:232` knows.

**circle.**  Two clients, each of which connects up to three times.  Properties
are about two clients, and a third one's messages name only the third.
`MutualUnlessTogether`, `NoPhantoms` and `EventuallyMutual` except pairs of
clients one of which came or left while the other was in `handle_myip`, since
there they fail (section 6).

**session.**  A live capture on Linux and the playback of a compressed file, which
needs a pipe; every step of starting and cleaning up may fail, the collector may
fail at any time, and `quit` may be set at any time.  `MCTroublesome` is where main
may be killed by a signal or interrupted in its cleanup by a ^C, twice: in
playback, while it waits and at those steps of cleanup that differ in what a ^C
does there: main leaves at once and perhaps with a lock that is nobody's, it goes
on, or it leaves by the `finally` clause.  BSD has the same steps, and is in the
proofs, as are all other places for a ^C.  The ring has one entry, which one
packet fills: what the properties are about is whether packets have been written
to the tempfile and who waits for whom, and the ring is in the run `formats`.

**client.**  Two addresses with one peer, batches of two packets, four packets,
three flows and four units of time; a unit is `batch_wait_timeout`, and the
reporter has its round in each (`round_done`).  Timeouts are scaled down but keep
their order, which `ClientConstants` states: the cleaner keeps batches and flows
for longer than a batch stays open.  Four packets make two full batches, or
batches cut by time; three flows let an address come back after its flow was
cleaned up.  Three of the four packets have the same hash, so a context can be
found at the wrong one.  Contexts are two packets before and one after, at most
one packet in between for `fo-context`: enough to run over the ends of a batch
and past the limit.

**forgery.**  One flow with one link at each end, three forged packets of which
two at most are looked into, and two things that go wrong: a flow cleaned up, a
peer that leaves, a client that quits, a link that is closed.  The first sequence
numbers differ at every end of every link, so that no number passes for another
by chance.

**link.**  Two messages that have numbers, three from either end at most with the
handshake; a ping that expects an ack, an error message that does not; deadlines
one round after sending; four rounds; one cut of the connection.  Two numbered
messages are what it takes for numbers to be out of order and for the checker to
pass over one of two overdue acks.  `OverdueAreNoticed` says how long that can go
on: a round takes at least one of the overdue messages that were sent before the
one it passes over, so none is overdue for more rounds than there are smaller
numbers.

**formats.**  Packets: TCP segments
of 45, 46 and 47 bytes (around the shortest
Ethernet payload), with MSS, SACK, other options, NOP and EOL in several orders;
UDP and ICMP; either, both or no client behind a NAT; clients that know the
other or do not; two kinds of frame; up to two of eighteen ways to tamper with a
packet.  Fields have two values, for a comparison can only tell whether they are
equal; reserved bits have two bits each, since the differ shifts them.
Messages: two items, with a list or a dictionary and three tuples that are in
each other's place or in several places at once, so tuples of three depths that
are met in any order; a connection cut at any token, or within it.
The ring: two entries and five packets, of 100 bytes, too long for the reader
(1515), too long for an entry (1601), and too long for the field of the length
(65636, of which 100 are left), so the ring wraps and fills up, and an entry is
used for packets of different lengths; the position arithmetic does not depend on
its size.

**dashboard.**  Five settings (`MCBounds`), each for one question: two requests
at a time with a flow whose key comes back; many requests in turn, past the
window in which packets are kept; histograms of two flows over more than a
second; stopping and starting twice; two callers that ask for two routes.

**server, the locks.**  Two links with one flow between them: twelve locks and six threads'
worth of nesting.  One trouble, the dangling flow, is in this run: it takes a
`flow_lock` with an account's lock held, and is harmless.  Late acks, protocol
errors, dead sockets and missing pings each close a circle of locks.

`CHECK_DEADLOCK FALSE` is set where the modelled system may really stop: all
sessions are over (`Circle`), all links are closed (`Matchmaker`), the client has
exited (`Session`), the link is closed at both ends (`Link`), the packet has
arrived (`PacketPath`), all that the bounds allow has been displayed
(`Dashboard`).  `server` looks for deadlock on purpose.

Symmetry is used for hashes, which the code only compares, and for the links of
Alice, in runs without liveness properties.

## 5. Fairness

* `Circle`: weak fairness of each handler's next step and of each client's
  reading of its messages.  Each is a thread that has nothing else to do, and
  TCP delivers.  Connecting and leaving are not fair: nobody has to.
* `Session`: weak fairness of the listener, a thread that polls for ever, of
  main once it has been woken, and of a collector that was told to stop; strong
  fairness of main's taking the lock for cleanup, which the listener gives back
  between packets.  Starting, packets, ^C and signals have none: a network may be
  silent, and `QuitEndsClient` says what happens then.
* `Link`: weak fairness of the threads of a link together: one that can go on
  does, and as messages are bounded each comes to its turn.  The network need
  not break, nobody has to send, and time has to pass only as the checker
  sleeps.
* `Dashboard`: weak fairness of the thread that traces and of a caller that waits
  for the lock.  Requests have none.
* `ForgeryReport`: weak fairness of every handler: each end of a link has a thread
  that does nothing but handle messages, and TCP delivers.  Finding forgeries and
  what goes wrong have none.

Modules without liveness properties have none.

## 6. Where code and comments disagree

Two runs have one property each, which fails:

* `udp_nat`: a UDP packet with a checksum that crosses a NAT has another hash at
  the other end, because the checksum covers the address and port that the NAT
  changes, and only TCP's is cleared before hashing (`Packet.py:170`).
  `README.txt:211` says that Switzerland "is aware of the changes to IP addresses
  and port numbers that NAT firewalls normally make, and will not report those as
  modifications".
* `matchmaker_reuse`: `delete_flow` and `link_closed` take a flow out of the
  Matchmaker by its m-tuple (`Matchmaker.py:118`), under another lock than the one
  under which they took it from the link's table.  If the m-tuple has been
  announced again in between, or the other end has ended the flow first, that is a
  newer Reconciliator, and the two ends can go on with different ones.
  `Matchmaker.py:111` says that taking it out does not matter, since "the other
  link will still have a reference", and means the same Reconciliator.

Other behaviour that the models have or that came up in writing them, and that a
property has to except or a run leaves out:

Server
* Two clients that join at once: the one introduced first is not told of the
  second, captures none of the flow, and the other's packets stay unpaired
  (`MutualUnlessTogether` excepts such pairs).
* `bye` takes `peer_lock` with `ack_lock` held; `joining_circle` takes them the
  other way round, and the server stops (`Troubles` of `ServerLocks`).  Late
  acks, protocol errors and dead sockets each close a circle as well.
* The account of a flow that dangled, or was entered after its link had been
  closed, stays in the Matchmaker for good.
* With two links at one end of a flow, the answers of both are sent to the
  receiver under one number, and the second is unexpected.

Link
* A late ack of a message that has no callback closes the link and leaves
  `ack_lock` held for ever; overdue acks are passed over every second time;
  `last_deadline` (`Protocol.py:305`) is never updated.
* A client that resets the connection during the handshake kills the server's
  thread before it has freed anything; a ping that falls into the handshake
  closes the link.  Only the pinger frees such a place.
* A second client of one address is refused whatever its port.

Client
* `handle_forged_out` uses the flow, the receiver's context and the packet log
  without asking whether they are there.  A flow that was cleaned up, a context
  that the receiver no longer had, or a client run without packet logs (`-P -`)
  ends the client (`ForgedOut`).
* A flow that began before its peer joined is not captured until it has been
  quiet for long enough to be deleted and created anew (`in_circle`).
* A VLAN tag's type is compared with its bytes swapped, so no such packet is
  accepted; fragments are skipped at both ends, and a packet fragmented on the
  way is counted as dropped.  What is read as the TCP sequence number is the IP
  identification with flags and offset (`Packet.py:209`).
* `PacketDiff` compares the reserved bits with themselves (212), mixes the upper
  ones into the header length (206), leaves out URG and shifts the names after it
  (176), ignores IP options, and for other transports compares the IP header and
  not the payload (169): the `BlindSpots` of `ReportsAreExact`.
* After `quit_event` main waits for the lock that the listener keeps while it
  polls, so a client on a silent network does not end (`QuitEndsClient`).
* Kernel settings are left as they are if main cleans up before they are changed,
  if only some of them could be changed or restored, and always on BSD, where
  `minimize_packet_loss` does not note that it has changed any
  (`PacketListener.py:117-131`): the exceptions of `KernelIsRestored`.
* If the tempfile cannot be opened or mapped (`PacketListener.py:218-220`),
  `cleanup` fails at `self.mem.close()` (537), within the handler that should set
  `quit_event` next ("print it before sending quit_event", 294).  The thread ends,
  the collector goes on, the name of the tempfile is forgotten, and the client
  waits for packets for ever: exceptions of `NoPacketsLeft` (`"unmapped"`) and of
  `FailureIsNoticed`.
* If the client quits while the listener is still launching the collector,
  `tmpfile` is not set yet, main's `cleanup` does nothing, and the collector goes
  on writing packets to a file that nobody deletes (`"early"`); `BUGS.txt:24-30`
  knows that there are such cases.
* Without `renice`, the handler in `prioritise_sniffer` fails itself
  (`sys.exc_info[0:2]`, `PacketListener.py:225-237`), and the thread ends before it
  knows of the tempfile; a ^C during main's cleanup, or a signal, leaves out the
  rest of it.  A ^C while main waits for the lock can leave it taken with no owner
  (`QuitEndsClient` and `FailureIsNoticed` except that).
* `handle_packet` casts the length of a packet to 16 bits before it is compared
  with the room there is (`FastCollector.c:282`), so one of 65636 bytes in a
  capture file is not refused with "Cannot handle a packet of size %d" but
  delivered as one of 100 (`Truncated` in `ImplementsQueue`).
* `tmpfile` is forgotten only after the lock is released, so a second cleanup may
  shred again and leave a blank file.
* Packets that the collector writes between the listener's look at the ring and
  its look at the collector are not read when the collector has exited.

Web interface (`AliceAPI.py:19` says "none of this does any locking")
* Two requests that overlap may count packets twice or fail; packets counted
  between two reads in `get_new_packet_count` are not displayed; a new flow whose
  key is still displayed is not displayed, then or later.
* A graph of more than no and less than one second has no columns.
* Stopping the service does not stop the client.
* If `mtr` is there but prints nothing, `traceroute` is used without a test and a
  target may stay "Waiting"; the thread traces with the lock held that callers
  of `route_to` need.

## 7. Proofs

Eight modules of proofs, each of which EXTENDS the module that it is about
(`SessionProofs` is about `CaptureRing`, too, which `Session` extends).  All
theorems are about the specifications that TLC runs, for every value of the
constants, from the assumptions that those modules name.

| module | theorem | states | hypotheses |
|---|---|---|---|
| `LedgerProofs` | `LedgerConservation`, `LedgerDisjoint`, `LedgerOrder`, `LedgerPrompt`, `LedgerFinal` | `Conservation`, `NeverBothPending`, `Chronological`, `PromptForgeries`, `JudgementIsFinal` | `LedgerConstants` |
| | `LedgerTypes`, `LedgerPairedVerdicts`, `LedgerInvariant` | types, no verdict on an unpaired flow | |
| `EndToEndProofs` | `ForgeriesAreReal`, `DropsAreReal` | `NoFalseForgery`, `NoFalseDrop` | `LedgerConstants`, `EndToEndConstants` |
| | `HistoryExplains` | there is a history that explains the state | |
| `MatchmakerProofs` | `ReportsMeet`, `NothingIsForgotten` | `SharedAccount`, `EveryRecHasAnOwner` | `MatchmakerConstants` |
| | `TablesTyped` | types | |
| `CircleProofs` | `MembersAreMutual`, `NobodyIsPhantom` | `MutualUnlessTogether`, `NoPhantoms` | none |
| | `CircleHolds` | the invariant | |
| `SessionProofs` | `RingImplementsQueue` | `ImplementsQueue`, of the ring and its two users | `CaptureConstants` |
| | `RingHolds` | entries in use lie together, nobody touches another's | |
| | `NothingLeft`, `KernelRestored`, `SessionImplementsQueue` | `NoPacketsLeft`, `KernelIsRestored`, `ImplementsQueue` | `CaptureConstants` |
| | `CleanupsExclude` | two threads never work on the tempfile at once | |
| `ClientProofs` | `NothingWaitsLong`, `FlowsAreTakenBack`, `FlowsComeFirst` | `NothingWaits`, `ServerForgets`, `AnnouncedFirst` | `ClientConstants` |
| | `ClientHolds` | the invariant | |
| `LinkProofs` | `NumbersOrdered`, `AnswersExpected`, `OverdueNoticed` | `NumbersInOrder`, `AnswersAreExpected`, `OverdueAreNoticed` | `LinkConstants`, `NobodyIsNoThread` |
| | `LinkHolds` | the invariant | |
| `DashboardProofs` | `NewFlowsAreShown` | `FlowsAreShown` | none |
| | `InterfaceHolds` | the invariant | |

Every proof has the same outline: an inductive invariant, a lemma for each action
(or for each conjunct, where many actions disturb one) that says it is kept, and
the theorems as consequences.  What the invariants add to the properties, and why:

**LedgerProofs.**  `IndInv` is `Account`, the conjunction of what the theorems say,
with `InTime`.  The properties are not inductive one by one.  `NeverBothPending`
needs types and lengths of the queues.  `Chronological` fails after
`FinalJudgement` sets a clock to `Infinity` unless nothing earlier is beyond it,
which is what `InTime` adds: before the final judgement clocks are at most
`Horizon`, and after it no report is accepted.  Lemmas say what `Matched`,
`Discard`, `Enqueue`, `Overdue`, `Judged`, `Plus` and `Left` return and how long
the results are; `BalancedStep` turns a balance of what is added, cancelled and
judged into `Conservation'` once for all actions; `JudgingIndInv` covers the
actions that only judge.  For the two action properties: in a chronological queue
overdue entries come first (`OverdueComeFirst`), so discarding as many from the
front as are overdue leaves none (`NothingOverdueLeft`).  `Account` is apart from
`InTime` because `EndToEnd` takes the account's actions at its own times.

**EndToEndProofs.**  That no verdict is false cannot be said of the state alone:
it does not tell which copies of a hash were lost, nor which of those caught were
fakes.  So the invariant says that for each hash *there is* a history: when the
n-th copy was sent (`out`) and the n-th caught (`in`), and how many of the first n
were lost (`gone`) or fake (`fake`).  `Fates` ties it to the network: a copy that
is caught was sent before and not longer than `MaxDelay` ago, in order as far as
copies of one hash can be told apart.  The rest of `Explained` ties it to queues,
pending packets and verdicts: the account cancels the oldest against the oldest,
so what is pending on one side are the last copies of a prefix.  A forgery verdict
on a true copy would need an earlier copy that was sent, not lost and not
reported, though Alice's clock has passed it by more than the skew; a drop
verdict on a copy that arrived needs one caught, later than `drop_timeout`
allows.  `EndToEndConstants` excludes both; it also says that the horizon with the
clock error is below `Infinity`, which stands for "never".

TLC cannot evaluate the existential over functions on all numbers; the other
parts of the invariant are the properties of the run `server`.

**MatchmakerProofs.**  An account is *owed* by a link (`Owes`) if it is in its
table, on its way there, on its way out, or in what `link_closed` still has to
purge.  `EveryRecHasAnOwner` is part of the invariant for any account
(`MatchedIsOwed`).  For `SharedAccount`, an account that is out of the Matchmaker
was ended by a link or taken out by mistake (`OutIsKnown`), and one that a link
has ended is on no listed link of that side any more, and will not be again
(`EndedIsOver`).  So of two different accounts of one m-tuple in the tables of
listed links, of which at most one is in the Matchmaker, the other was ended, not
by the link that has it, or was a mistake.  `Life` and `IdsUsedOnce` say which
stages of a link go with which contents of its table, and that an id is not given
twice, so registering a flow overwrites none.  Most actions take no account from
the Matchmaker and give no link one: `Quiet` covers them in one lemma.

**CircleProofs.**  `Knows(i, j)` is what each pair of clients comes to, stage by
stage of i's joining: a link that is listing has every link introduced so far in
`members`, and once it has sent its list its client believes in whoever is
welcomed or ready.  `joining_circle` tells only the links that are ready, so this
fails for a pair of which both are joining; `Apart` says that of such two one
began while the other was at it, which puts the pair in `together`.  What a client
believes (`Believed`) depends on its unread messages; `AppendedBelief` and
`ReadBelief` say what sending it one and its reading one change, for any sequence
of messages.  Reading must not change it, which needs the order of messages:
`Hears` says that a client hears its address before any list of members
(only farewells may come first), so nothing stays in `member_queue` and it knows
nobody earlier, and `Starts` that before it is introduced nothing but farewells
are on their way.  `Genuine` is `NoPhantoms` also of the links that a link has
listed but not sent yet: a link that closes tells all others, and takes itself
from none of those lists, so it is then in `together` with whoever is listing.

**SessionProofs.**  Of the ring, `InOrder` says that the valid entries are those from
`read_pos` on, as many as are in use, and that `pos` comes next; `WritesWhole` and
`ReadsWhole` say for each of the two processes what is in the entry after each of
its steps.  The refinement maps the ring to the sequence of packets that are
valid; only the step that writes `valid` and the one that clears it change it.
The arithmetic modulo the size of the ring is in three lemmas.

Of the session, where main and the listener are in `cleanup` determines the
state of tempfile and settings.  `LockHeld` says that whoever is between
`CleanupLocks` and `CleanupReleases` has the lock, even if a ^C has made main take
it twice or left it to nobody.  `Settling` says that once a thread is through
with the tempfile, or it has been forgotten, the file is gone, blank or never
made, and nobody can write packets to it again; `OnDisk` that there is a file
wherever a thread works on one; `InTime` that a main thread that was not too early
for the listener's launch finds what there is to clean up; and `KernelKnown` that
settings that are not the original ones are remembered.  The troubles that the
properties except are the hypotheses of these parts (`FileSafe`, `KernelSafe`):
each of them is a way in which the part fails.  For the ring, every step of a
session is a step of `CaptureRing` or leaves it alone.

TLC has found no state of the run `session` outside this invariant.

**ClientProofs.**  `Numbered` gives ids once; `Told` says that what the server
knows, or will be told of, and not of its end, is a flow in the circle that is
there, or was deleted before it was announced; `Announced` says that a flow with
packets to report is known to the server or in `new_flows`.  `Queued` orders the
batches of a flow by their oldest packets: the reporter stops at the first batch
that is not due, and for `NothingWaits` the ones behind it must not be due
either.

**LinkProofs.**  A *question* of an end is a message of it that has a number.  It
goes through four places: its sender is about to dump it, it is on the wire, the
listener at the other end is about to answer it, its answer is on the wire.
`Chain` says that of two questions the one that is further on has the smaller
number.  So no two answers are to one question, and what an answer takes out of
the tables is nothing that another will look for; `Expectations` adds that every
question in one of the four places still has what it needs in the tables of its
end, or was given up.  `NumbersInOrder` is `InOrder`, about the wire, but to keep
it one has to know that a message that gets a number is not overtaken on its way
to the wire: `Locked`, `Shapes` and `Idlers` say that whoever is between
`SendRegister` and `SendDump` has `status_lock`, that nobody else is, and what each
thread can be in the middle of.  `Tables` puts `ack_timeouts` in the order of
numbers and deadlines.  `Notice` is the bound of `OverdueAreNoticed` with the
entry's place in the list, one less once the round of this unit of time has been
(`checked`): a round either stops before the place, and then the entry is not
overdue, or takes an entry out before it.  `Silence` says what there is before the
handshake is over, among other things no entries, since the checker waits for it.
The tables of a client go with its process, so all that is said of them is said
of a client that has not exited (`Gone`).  A circular wait of the server's threads
ends only with the link closed, so what the properties except stays excepted.

TLC has found no state of the run `link` outside the invariant.

**DashboardProofs.**  Lists of new flows name flows that exist, what is displayed
is under its own key, a request has flows to add only while it adds, and a
stopped service has neither displayed flows nor requests.

### What is only model-checked

* Liveness (`EventuallyMutual`, `QuitEndsClient`, `FailureIsNoticed`, `Explained` of
  `ForgeryReport`, `PartingIsMutual`, `TargetsAreTraced`, absence of deadlock): it
  needs fairness and `ENABLED`, which the prover does not handle.
* What folds, `SelectSeq` and `FlattenSeq` compute, which takes induction over data:
  `IndexMatchesBatches` and `ImplementsLedger` of `Reconciliator`,
  `ReportedInOrder` and `ContextsAreRight` of `Client`, `GraphIsTrue` of `Dashboard`,
  `NoCircularWait` of `ServerLocks`.
* `Packet`, `PacketDiff`, `Cerealizer`: conversions over finite sets of packets and
  messages, of which TLC sees all that the constants give.
* `PaperworkFits` of `ForgeryReport`: not attempted.

## 8. What is not modelled

* Options of the handshake other than the version; in messages, sets and instances
  of classes, which none has.
* Fake addresses (used in tests), several links of one address at a time (the
  second is closed as soon as it would be ready), promiscuous capture.
* The Windows variants of capture and cleanup; capture files whose packets were
  cut when they were captured (`write_packet` copies as many bytes as the packet
  had on the wire); more than one entry of the ring together with the session.
* The clock's error (`TimeManager`): sequential, it parses what `ntpdc` or
  `ntpdate` prints and takes the maximum of the answers in one line.
* `hash_archival`, `mark_everything_forged`, `monotonicity_error`, printing,
  logging and the format of pcap files: debugging and pure I/O.
* Options and their file, finding the local address: sequential, read at start.
  The web interface saves and loads options in ways that lose some (`False` comes
  back as the string "False", which counts as true); nothing else in the program
  reads them while it runs.
* Legends, packet details and launching Wireshark in the web interface.
* Vendored libraries, the simulated API, tests and packaging.

Abstractions that bound what the runs say: a hash is a model value except in
`Packet`, and two different packets share one only where a run lets them; in
`Link` other messages than those of the link itself are one kind; a `Dashboard`
run has one of five sets of bounds at a time.

## 9. Plan

Done, in this order: `Ledger`, its proofs, `Reconciliator`, `EndToEnd`,
`Matchmaker`, `Circle`, `CaptureRing`, `ServerLocks`, `Context` with `Client`,
`ForgeryReport`; then `Messages` and `Link`, `Packet` with `PacketDiff` and
`PacketPath`, `Session` around the ring, packet logs,
`Tracerouter` and `Dashboard`, `Cerealizer`.

Left to model: that the reports of `Client` are ones `EndToEnd` allows.

Proved: section 7.

Left to prove: `PaperworkFits` of `ForgeryReport`; that `Reconciliator` implements
`Ledger`, as far as it goes without induction.

## 10. Running

    tlc -workers 2 -config MCServer.cfg MCServer
    tlapm EndToEndProofs.tla

and likewise for the other runs, whose modules and configurations are listed in
`PROJECT.json`.
