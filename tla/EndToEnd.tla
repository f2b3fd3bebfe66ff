------------------------------ MODULE EndToEnd ------------------------------
(***************************************************************************)
(* One flow from Alice's network card to the verdict: what the clients     *)
(* capture, with two clocks that disagree and a network that delays,       *)
(* reorders, loses, duplicates and invents packets, against the account    *)
(* kept by the server (module Ledger).  The question is the one the        *)
(* program exists to answer: is a packet called forged only if the network *)
(* did it, and dropped only if the network lost it?                        *)
(*                                                                         *)
(* A client queues captured packets in order (PacketQueue), cuts the queue *)
(* into batches at times that depend on the load (PacketBatch, Reporter)   *)
(* and stamps a batch with the time of its newest packet.  A report here   *)
(* takes any non-empty prefix of the queue: batch boundaries and the delay *)
(* of the message to the server are both in that choice, because batches   *)
(* and messages of one client keep their order.                            *)
(***************************************************************************)
EXTENDS Ledger

LOCAL INSTANCE Functions

CONSTANTS
    MaxError,       \* two clients' clocks differ by at most this
    MaxDelay,       \* a packet not delivered by then never will be
    MaxSends,       \* BOUND: packets that Alice sends
    MaxForgeries    \* BOUND: packets that the network invents

\* The assumptions under which the verdicts are sound: Skews covers the
\* clock error (dispersions and clock_safety_margin), drop_timeout covers
\* the delay and the clock error.  No clock ever comes near Infinity.
ASSUME EndToEndConstants ==
    /\ MaxError \in Nat /\ MaxDelay \in Nat
    /\ MaxSends \in Nat /\ MaxForgeries \in Nat
    /\ \A s \in Skews : MaxError <= s
    /\ MaxDelay + MaxError <= drop_timeout
    /\ Horizon + MaxError < Infinity

VARIABLES
    now,            \* true time
    err_a, err_b,   \* how far ahead each client's clock is
    wire,           \* per hash, the times at which packets in flight left
    queue_a, queue_b,   \* captured packets not yet reported: <<hash, time>>
    lost, injected  \* per hash, what the network has done

world   == <<now, err_a, err_b, wire, queue_a, queue_b, lost, injected>>
allvars == <<vars, world>>

AddOne(f, h) == [f EXCEPT ![h] = @ + 1]

-----------------------------------------------------------------------------
E2EInit ==
    /\ Init
    /\ now = 0
    /\ err_a \in 0..MaxError /\ err_b \in 0..MaxError
    /\ wire = [h \in Hash |-> <<>>]
    /\ queue_a = <<>> /\ queue_b = <<>>
    /\ lost = Nothing /\ injected = Nothing

\* Packets in the counts f.
Total(f) == FoldFunction(+, 0, f)

\* Packets that Alice has sent so far.
Sends == Total(total_sent) + Len(queue_a)

\* handle_packet of FlowManager: append to the flow's queue.
Capture(q, h, t) == Append(q, <<h, t>>)

\* BOUND: MaxSends
Send(h) ==
    /\ Sends < MaxSends
    /\ wire' = [wire EXCEPT ![h] = Append(@, now)]
    /\ queue_a' = Capture(queue_a, h, now + err_a)
    /\ UNCHANGED <<vars, now, err_a, err_b, queue_b, lost, injected>>

Deliver(h) ==
    /\ wire[h] # <<>>
    /\ wire' = [wire EXCEPT ![h] = Tail(@)]
    /\ queue_b' = Capture(queue_b, h, now + err_b)
    /\ UNCHANGED <<vars, now, err_a, err_b, queue_a, lost, injected>>

Lose(h) ==
    /\ wire[h] # <<>>
    /\ wire' = [wire EXCEPT ![h] = Tail(@)]
    /\ lost' = AddOne(lost, h)
    /\ UNCHANGED <<vars, now, err_a, err_b, queue_a, queue_b, injected>>

\* A forged, duplicated or modified packet.  A modification is also a loss.
\* BOUND: MaxForgeries
Inject(h) ==
    /\ Total(injected) < MaxForgeries
    /\ injected' = AddOne(injected, h)
    /\ queue_b' = Capture(queue_b, h, now + err_b)
    /\ UNCHANGED <<vars, now, err_a, err_b, wire, queue_a, lost>>

\* BOUND: Horizon.  Time passes only while no packet in flight is overdue.
Tick ==
    /\ now < Horizon
    /\ \A h \in Hash : \A i \in DOMAIN wire[h] : now < wire[h][i] + MaxDelay
    /\ now' = now + 1
    /\ UNCHANGED <<vars, err_a, err_b, wire, queue_a, queue_b, lost, injected>>

\* Bug: a batch stamped with its oldest packet.
StampOfOldest(q, k) == q[1][2]

\* The first k packets of a queue, as a batch and its timestamp.
BatchOf(q, k) ==
    [h \in Hash |-> Cardinality({i \in 1..k : q[i][1] = h})]
StampOf(q, k) == q[k][2]

\* Reporter.send_batch and handle_sent_or_recd.
ReportA(k) ==
    /\ ReportSent(StampOf(queue_a, k), BatchOf(queue_a, k))
    /\ queue_a' = SubSeq(queue_a, k + 1, Len(queue_a))
    /\ UNCHANGED <<now, err_a, err_b, wire, queue_b, lost, injected>>

ReportB(k) ==
    /\ ReportRecd(StampOf(queue_b, k), BatchOf(queue_b, k))
    /\ queue_b' = SubSeq(queue_b, k + 1, Len(queue_b))
    /\ UNCHANGED <<now, err_a, err_b, wire, queue_a, lost, injected>>

\* Both clients have announced the flow.
Announce(s) == Pair(s) /\ UNCHANGED world

\* judgement_day of the test suite, once a playback is over.
Judge ==
    /\ queue_a = <<>> /\ queue_b = <<>>
    /\ \A h \in Hash : wire[h] = <<>>
    /\ FinalJudgement
    /\ UNCHANGED world

E2ENext ==
    \/ \E h \in Hash : Send(h) \/ Deliver(h) \/ Lose(h) \/ Inject(h)
    \/ Tick
    \/ \E k \in DOMAIN queue_a : ReportA(k)
    \/ \E k \in DOMAIN queue_b : ReportB(k)
    \/ \E s \in Skews : Announce(s)
    \/ Judge

E2ESpec == E2EInit /\ [][E2ENext]_allvars

-----------------------------------------------------------------------------
(* Properties *)

\* No more copies of a packet are called forged than the network injected,
\* however the clients' batches, the delays and the two clocks fall.  This
\* is the claim Reconciliator makes in __check_for_forgeries ("we know alice
\* didn't send it").
NoFalseForgery == \A h \in Hash : forged[h] <= injected[h]

\* No more copies are called dropped than the network lost
\* (check_for_drops, "we know bob didn't get it").
NoFalseDrop == \A h \in Hash : dropped[h] <= lost[h]
=============================================================================
