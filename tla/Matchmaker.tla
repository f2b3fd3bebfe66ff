----------------------------- MODULE Matchmaker -----------------------------
(***************************************************************************)
(* How the server finds one Reconciliator for the two reports of a flow.   *)
(*                                                                         *)
(* Every link has a listener thread of its own, which handles the client's *)
(* messages one by one, and a flow table from the client's flow ids to     *)
(* Reconciliators.  The Matchmaker has one table for all links, from       *)
(* m-tuples (both addresses and the hash of the opening packet) to         *)
(* Reconciliators.  A handler updates the two tables under two different   *)
(* locks, one after the other, and other threads run in between; so each   *)
(* action below is what one thread does without letting go of a lock.      *)
(*                                                                         *)
(* Only flows from Alice's machine to Bob's are modelled.  Each of the two *)
(* may have several links over time.  The accounts that Reconciliators     *)
(* keep are in the module Reconciliator; here one is only an identity.     *)
(***************************************************************************)
EXTENDS Naturals, FiniteSets

CONSTANTS
    Alice, Bob,     \* links of the sender and of the receiver
    MTuple,         \* m-tuples of flows from Alice to Bob
    Id,             \* ids that a client gives its flows, in this order
    MaxRecs,        \* BOUND: Reconciliators created
    MaxFlows,       \* BOUND: flows announced
    NoRec, Ignored, Absent      \* no entry; None; no entry

Link == Alice \cup Bob
Rec  == 1..MaxRecs

ASSUME MatchmakerConstants ==
    /\ Alice \cap Bob = {}
    /\ MaxRecs \in Nat /\ MaxFlows \in Nat /\ Id \subseteq Nat
    /\ {NoRec, Ignored, Absent} \cap Rec = {}

VARIABLES
    flow_matchmaker,    \* m-tuple -> Reconciliator or NoRec
    flow_table,         \* link -> id -> Reconciliator, Ignored or Absent
    made,               \* number of Reconciliators created
    m_tuple,            \* Reconciliator -> its m-tuple
    links,              \* Reconciliator -> {<<link, id>>}: src and dest_links
    stage,              \* link -> how far its life and link_closed have come
    purge,              \* link -> Reconciliators that link_closed still drops
    thread,             \* link -> what its listener is in the middle of
    announced,          \* history: link -> ids that it has announced
    dangled,            \* history: Reconciliators of flows that dangled,
    late,               \* and of those entered after their link was closed
    ended, mistaken     \* history: who took which Reconciliator out of the
                        \* Matchmaker, see RemoveFlowFromMatchmaker

removals == <<ended, mistaken>>
history  == <<announced, dangled, late, removals>>
vars == <<flow_matchmaker, flow_table, made, m_tuple, links, stage, purge,
          thread, history>>

\* Where a listener thread can be: waiting for a message; past ponder_flow;
\* between the two halves of add_flow; between those of delete_flow; gone.
Listening        == [at |-> "listening"]
Matching(id, m)  == [at |-> "matching", id |-> id, m |-> m]
Registering(id, r) == [at |-> "registering", id |-> id, rec |-> r]
Removing(r)      == [at |-> "removing", rec |-> r]
Gone             == [at |-> "gone"]

Threads == {Listening, Gone}
           \cup {Matching(id, m) : id \in Id, m \in MTuple}
           \cup {Registering(id, r) : id \in Id, r \in Rec}
           \cup {Removing(r) : r \in Rec}

Side(l) == IF l \in Alice THEN Alice ELSE Bob
Other(l) == IF l \in Alice THEN Bob ELSE Alice

InTable(l, r)  == \E id \in Id : flow_table[l][id] = r
Entering(l, r) == \E id \in Id : thread[l] = Registering(id, r)

\* peer_ips: links that the server counts among the circle's members.
Listed(l) == stage[l] = "open"

\* Some link is known on both sides of the flow.
Ready(r) == \A s \in {Alice, Bob} : \E e \in links[r] : e[1] \in s

\* link_closed holds a link's flow_lock while it goes through its table.
FlowLockFree(l) == stage[l] # "purging"

-----------------------------------------------------------------------------
Init ==
    /\ flow_matchmaker = [m \in MTuple |-> NoRec]
    /\ flow_table = [l \in Link |-> [id \in Id |-> Absent]]
    /\ made = 0
    /\ m_tuple = [r \in Rec |-> NoRec]
    /\ links = [r \in Rec |-> {}]
    /\ stage = [l \in Link |-> "new"]
    /\ purge = [l \in Link |-> {}]
    /\ thread = [l \in Link |-> Listening]
    /\ announced = [l \in Link |-> {}] /\ dangled = {} /\ late = {}
    /\ ended = {} /\ mistaken = {}

\* new_link.  A second link from an address that has one is closed as soon as
\* it is ready, before the client has announced any flow.
Connect(l) ==
    /\ stage[l] = "new"
    /\ \A k \in Side(l) : ~Listed(k)
    /\ stage' = [stage EXCEPT ![l] = "open"]
    /\ UNCHANGED <<flow_matchmaker, flow_table, made, m_tuple, links, purge,
                   thread, history>>

SetEntry(l, id, e) == flow_table' = [flow_table EXCEPT ![l][id] = e]
Goto(l, at)        == thread' = [thread EXCEPT ![l] = at]

\* A new flow in an active-flows message: ponder_flow, under peer_lock, lets
\* it pass if its other end is in the circle, or else has it ignored.
\* BOUND: MaxFlows
PonderFlow(l, id, m) ==
    /\ stage[l] # "new" /\ thread[l] = Listening
    /\ \A k \in Id : k < id <=> k \in announced[l]
    /\ Cardinality({e \in Link \X Id : e[2] \in announced[e[1]]}) < MaxFlows
    /\ announced' = [announced EXCEPT ![l] = @ \cup {id}]
    /\ \/ /\ \E k \in Other(l) : Listed(k)
          /\ Goto(l, Matching(id, m))
          /\ UNCHANGED flow_table
       \/ /\ \A k \in Other(l) : ~Listed(k)
          /\ FlowLockFree(l)
          /\ SetEntry(l, id, Ignored)
          /\ UNCHANGED thread
    /\ UNCHANGED <<flow_matchmaker, made, m_tuple, links, stage, purge,
                   dangled, late, removals>>

\* Bug: does not look whether the other side has announced the flow.
AddFlowAnew(l) ==
    /\ thread[l].at = "matching"
    /\ made < MaxRecs
    /\ made' = made + 1
    /\ m_tuple' = [m_tuple EXCEPT ![made + 1] = thread[l].m]
    /\ flow_matchmaker' = [flow_matchmaker EXCEPT ![thread[l].m] = made + 1]
    /\ links' = [links EXCEPT ![made + 1] = @ \cup {<<l, thread[l].id>>}]
    /\ Goto(l, Registering(thread[l].id, made + 1))
    /\ UNCHANGED <<flow_table, stage, purge, history>>

\* The first half of add_flow, under global_flow_lock: the Reconciliator that
\* the other side has brought about, or a new one.   BOUND: MaxRecs
AddFlow(l) ==
    /\ thread[l].at = "matching"
    /\ LET m   == thread[l].m
           new == flow_matchmaker[m] = NoRec
           r   == IF new THEN made + 1 ELSE flow_matchmaker[m]
       IN  /\ r \in Rec
           /\ made' = IF new THEN r ELSE made
           /\ m_tuple' = [m_tuple EXCEPT ![r] = m]
           /\ flow_matchmaker' = [flow_matchmaker EXCEPT ![m] = r]
           /\ links' = [links EXCEPT ![r] = @ \cup {<<l, thread[l].id>>}]
           /\ Goto(l, Registering(thread[l].id, r))
    /\ UNCHANGED <<flow_table, stage, purge, history>>

\* The second half, under the link's flow_lock, though link_closed may have
\* gone through the table meanwhile.
RegisterFlow(l) ==
    /\ thread[l].at = "registering"
    /\ FlowLockFree(l)
    /\ SetEntry(l, thread[l].id, thread[l].rec)
    /\ Goto(l, Listening)
    /\ late' = (IF stage[l] = "closed" THEN late \cup {thread[l].rec} ELSE late)
    /\ UNCHANGED <<flow_matchmaker, made, m_tuple, links, stage, purge,
                   announced, dangled, removals>>

\* A deleted flow in an active-flows message: the first half of delete_flow.
DeleteFlow(l, id) ==
    /\ stage[l] # "new" /\ thread[l] = Listening /\ FlowLockFree(l)
    /\ flow_table[l][id] # Absent
    /\ SetEntry(l, id, Absent)
    /\ IF flow_table[l][id] = Ignored THEN UNCHANGED thread
                                      ELSE Goto(l, Removing(flow_table[l][id]))
    /\ UNCHANGED <<flow_matchmaker, made, m_tuple, links, stage, purge,
                   history>>

\* remove_flow_from_matchmaker, for link l that has lost the flow of r: what
\* the m-tuple stands for now is taken out.  The link has ended r if that was
\* it, and no listed link of its side has it any more; or it was a mistake.
RemoveFlowFromMatchmaker(l, r) ==
    LET found == flow_matchmaker[m_tuple[r]]
        own   == found = r /\ \A k \in Side(l) :
                                Listed(k) => ~InTable(k, r) /\ ~Entering(k, r)
    IN  /\ flow_matchmaker' = [flow_matchmaker EXCEPT ![m_tuple[r]] = NoRec]
        /\ ended' = (IF own THEN ended \cup {<<l, r>>} ELSE ended)
        /\ mistaken' = (IF own THEN mistaken ELSE mistaken \cup ({found} \ {NoRec}))

\* The second half of delete_flow, under global_flow_lock.
RemoveFlow(l) ==
    /\ thread[l].at = "removing"
    /\ RemoveFlowFromMatchmaker(l, thread[l].rec)
    /\ Goto(l, Listening)
    /\ UNCHANGED <<flow_table, made, m_tuple, links, stage, purge,
                   announced, dangled, late>>

\* handle_sent_or_recd of a flow that is still one-sided after
\* dangling_timeout: from now on the link's reports on it are ignored.
Dangling(l, id) ==
    /\ stage[l] # "new" /\ thread[l] = Listening /\ FlowLockFree(l)
    /\ flow_table[l][id] \in Rec
    /\ ~Ready(flow_table[l][id])
    /\ SetEntry(l, id, Ignored)
    /\ dangled' = dangled \cup {flow_table[l][id]}
    /\ UNCHANGED <<flow_matchmaker, made, m_tuple, links, stage, purge, thread,
                   announced, late, removals>>

\* The client hangs up, or the socket is closed here: no more messages.
StopListening(l) ==
    /\ stage[l] # "new" /\ thread[l] = Listening
    /\ Goto(l, Gone)
    /\ UNCHANGED <<flow_matchmaker, flow_table, made, m_tuple, links, stage,
                   purge, history>>

\* link_closed, step 1, under peer_lock.  The listener runs it at its end; the
\* pinger's bye and send_other_message run it in other threads, whatever the
\* listener is doing.
LinkClosed(l) ==
    /\ stage[l] = "open"
    /\ stage' = [stage EXCEPT ![l] = "unlisted"]
    /\ UNCHANGED <<flow_matchmaker, flow_table, made, m_tuple, links, purge,
                   thread, history>>

\* Bug: takes the link away without its flows.
PurgeFlowsNone(l) ==
    /\ stage[l] = "unlisted"
    /\ stage' = [stage EXCEPT ![l] = "purging"]
    /\ UNCHANGED <<flow_matchmaker, flow_table, made, m_tuple, links, purge,
                   thread, history>>

\* Step 2, under flow_lock: each flow in the table leaves the Matchmaker.
PurgeFlows(l) ==
    /\ stage[l] = "unlisted"
    /\ stage' = [stage EXCEPT ![l] = "purging"]
    /\ purge' = [purge EXCEPT ![l] = {flow_table[l][id] : id \in Id} \cap Rec]
    /\ UNCHANGED <<flow_matchmaker, flow_table, made, m_tuple, links, thread,
                   history>>

PurgeFlow(l, r) ==
    /\ stage[l] = "purging" /\ r \in purge[l]
    /\ RemoveFlowFromMatchmaker(l, r)
    /\ purge' = [purge EXCEPT ![l] = @ \ {r}]
    /\ UNCHANGED <<flow_table, made, m_tuple, links, stage, thread,
                   announced, dangled, late>>

PurgeDone(l) ==
    /\ stage[l] = "purging" /\ purge[l] = {}
    /\ stage' = [stage EXCEPT ![l] = "closed"]
    /\ UNCHANGED <<flow_matchmaker, flow_table, made, m_tuple, links, purge,
                   thread, history>>

Next ==
    \E l \in Link :
        \/ Connect(l)
        \/ \E id \in Id, m \in MTuple : PonderFlow(l, id, m)
        \/ AddFlow(l) \/ RegisterFlow(l)
        \/ \E id \in Id : DeleteFlow(l, id) \/ Dangling(l, id)
        \/ RemoveFlow(l)
        \/ StopListening(l)
        \/ LinkClosed(l) \/ PurgeFlows(l) \/ PurgeDone(l)
        \/ \E r \in Rec : PurgeFlow(l, r)

Spec == Init /\ [][Next]_vars

-----------------------------------------------------------------------------
(* Properties *)

TypeOK ==
    /\ flow_matchmaker \in [MTuple -> Rec \cup {NoRec}]
    /\ flow_table \in [Link -> [Id -> Rec \cup {Ignored, Absent}]]
    /\ made \in 0..MaxRecs
    /\ m_tuple \in [Rec -> MTuple \cup {NoRec}]
    /\ links \in [Rec -> SUBSET (Link \X Id)]
    /\ stage \in [Link -> {"new", "open", "unlisted", "purging", "closed"}]
    /\ purge \in [Link -> SUBSET Rec]
    /\ thread \in [Link -> Threads]
    /\ announced \in [Link -> SUBSET Id]
    /\ dangled \subseteq Rec /\ late \subseteq Rec
    /\ ended \subseteq Link \X Rec /\ mistaken \subseteq Rec

\* Reports from the two ends of a flow meet in one Reconciliator: links that
\* both have a flow of an m-tuple in their tables have the same one there,
\* through two tables, two locks and any interleaving, unless the other end has
\* had and ended the flow, or it was taken out by mistake.
SharedAccount ==
    \A l \in Alice, k \in Bob, r, q \in Rec :
        /\ Listed(l) /\ Listed(k) /\ InTable(l, r) /\ InTable(k, q)
        /\ m_tuple[r] = m_tuple[q] /\ r # q
        => \/ \E b \in Bob : <<b, r>> \in ended
           \/ \E a \in Alice : <<a, q>> \in ended
           \/ r \in mistaken \/ q \in mistaken

\* The flow that delete_flow or link_closed takes out of the Matchmaker is
\* the one the link had, never a newer one with the same m-tuple.
RemovesOwn ==
    [][\A m \in MTuple :
          flow_matchmaker[m] # NoRec /\ flow_matchmaker'[m] = NoRec =>
              \E l \in Link :
                  \/ thread[l] = Removing(flow_matchmaker[m]) /\ thread'[l] = Listening
                  \/ flow_matchmaker[m] \in purge[l] \ purge'[l]]_vars

\* Link l will take r out of the Matchmaker when its flow ends: it is in a
\* table that link_closed has not yet gone through, or in its purge, or the
\* link's thread is between the halves of add_flow or delete_flow.
Owes(l, r) ==
    \/ InTable(l, r) /\ stage[l] \notin {"purging", "closed"}
    \/ Entering(l, r)
    \/ thread[l] = Removing(r)
    \/ r \in purge[l]

\* Whatever is in the Matchmaker will be taken out by somebody, except for a
\* flow that dangled or was entered after its link had been closed.
EveryRecHasAnOwner ==
    \A m \in MTuple :
        LET r == flow_matchmaker[m]
        IN  r # NoRec => r \in dangled \cup late \/ \E l \in Link : Owes(l, r)
=============================================================================
