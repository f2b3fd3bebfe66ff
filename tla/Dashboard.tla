----------------------------- MODULE Dashboard ------------------------------
(***************************************************************************)
(* The web interface of a client.  The API hands over what the client's    *)
(* FlowManager has, with a lock for the list of new flows only; the web    *)
(* server handles each request in a thread of its own, and all of them     *)
(* share one packet_data.  A request for a graph takes the new flows, adds *)
(* them to those displayed, deletes flows that are no longer active, asks  *)
(* each of the others for its packets and draws histograms.                *)
(***************************************************************************)
EXTENDS Tracerouter, FiniteSets, FiniteSetsExt, SequencesExt, Functions

CONSTANTS
    Keys,           \* flow_key: the 5-tuple of a flow
    Requests,       \* threads of the web server
    XBins,          \* columns of a graph
    Second,         \* ticks of a second
    SaveWindow,     \* ticks that packets are displayed
    Bounds          \* BOUND: [flows, packets, requests, threads, time, stops, routes]

ASSUME DashboardConstants == XBins > 0 /\ Second > 0

VARIABLES
    bounds,
    now,
    flows,          \* the client's flows, oldest first: [key, active, packets]
    api_new_flows,  \* those that the API has not taken
    client,         \* is the client connected?
    client_status,  \* what the interface thinks of it
    active_flows,   \* key -> number of the flow displayed
    reported,       \* flow -> the packets that its xFlow has told of
    packet_data,    \* key -> <<time, packets>>, in order
    graph,          \* what was last drawn: key -> [histogram, range, total, packets]
    request,        \* request -> how far it is: [at, fresh, left, flow, count]
    served,         \* how many requests and stops there have been
    overlap         \* history: have two requests been handled at a time?

captured  == <<now, flows, api_new_flows, client>>
displayed == <<client_status, active_flows, reported, packet_data, graph>>
requests  == <<request, served, overlap>>
dashVars  == <<bounds, captured, displayed, requests>>

NoRequest == [at |-> "none", fresh |-> << >>, left |-> {}, flow |-> 0, count |-> 0]

DashInit ==
    /\ bounds \in Bounds
    /\ now = 1 /\ flows = << >> /\ api_new_flows = << >> /\ client = "up"
    /\ client_status = "running"
    /\ active_flows = << >> /\ reported = << >> /\ packet_data = << >> /\ graph = << >>
    /\ request = [r \in Requests |-> NoRequest] /\ served = [requests |-> 0, stops |-> 0]
    /\ overlap = FALSE

-----------------------------------------------------------------------------
(* The client *)

Current(k) == {f \in DOMAIN flows : flows[f].key = k /\ flows[f].active}

PacketsOf(fs) == FoldFunctionOnSet(LAMBDA f, n : f.packets + n, 0, flows, fs)

\* FlowManager.handle_packet, for a flow in the circle.
HandlePacket(k) ==
    /\ PacketsOf(DOMAIN flows) < bounds.packets
    /\ \/ \E f \in Current(k) :
            /\ flows' = [flows EXCEPT ![f].packets = @ + 1]
            /\ UNCHANGED <<api_new_flows, reported>>
       \/ /\ Current(k) = {} /\ Len(flows) < bounds.flows
          /\ flows' = Append(flows, [key |-> k, active |-> TRUE, packets |-> 1])
          /\ api_new_flows' = Append(api_new_flows, Len(flows'))
          /\ reported' = Append(reported, 0)
    /\ UNCHANGED <<bounds, now, client, client_status, active_flows, packet_data, graph, requests>>

\* FlowManager.clean deletes a flow.
CleanFlow(f) ==
    /\ flows[f].active
    /\ flows' = [flows EXCEPT ![f].active = FALSE]
    /\ UNCHANGED <<bounds, now, api_new_flows, client, displayed, requests>>

Tick ==
    /\ now < bounds.time /\ now' = now + 1
    /\ UNCHANGED <<bounds, flows, api_new_flows, client, displayed, requests>>

\* The link to the server ends, which the interface does not see, and which does
\* not end the capture of packets.
ClientEnds ==
    /\ client = "up" /\ served.stops < bounds.stops
    /\ client' = "down"
    /\ UNCHANGED <<bounds, now, flows, api_new_flows, displayed, requests>>

-----------------------------------------------------------------------------
(* line_graph: the histogram of a flow *)

CeilDiv(a, b) == (a + b - 1) \div b

\* Bug: columns get a whole number of seconds that is too small.
RoundBinSizeDown(range) ==
    IF range = 0 THEN [bins |-> 1, size |-> 1]
    ELSE [bins |-> CeilDiv((range \div Second) * XBins * Second, range),
          size |-> Max({1, range \div (Second * XBins)})]

\* The number of columns, and their size in seconds: log10 is taken, not used.
RoundBinSize(range) ==
    IF range = 0 THEN [bins |-> 1, size |-> 1]
    ELSE [bins |-> CeilDiv((range \div Second) * XBins * Second, range),
          size |-> CeilDiv(range, Second * XBins)]

\* When the packets of the j-th entry have come, as far as the graph knows: at
\* equal distances from the time of the entry before to its own.
Spread(list, j, min) ==
    LET n    == list[j][2]
        prev == IF j = 1 THEN min ELSE list[j - 1][1]
    IN  [i \in 1..n |-> prev + ((i - 1) * (list[j][1] - prev)) \div n]

MakeHistogram(list, min, bin) ==
    LET packets   == UNION {{j} \X (1..list[j][2]) : j \in DOMAIN list}
        column(p) == (Spread(list, p[1], min)[p[2]] - min) \div (Second * bin.size)
    IN  [b \in 0..(bin.bins - 1) |-> Cardinality({p \in packets : column(p) = b})]

Total(list) == FoldSeq(LAMBDA e, n : e[2] + n, 0, list)

\* make_graph, once the data is there, or << >> if there is none yet.
MakeGraph(shown, data) ==
    LET times == UNION {{data[k][j][1] : j \in DOMAIN data[k]} : k \in shown}
        range == Max(times) - Min(times)
    IN  IF times = {} THEN << >>
        ELSE [k \in shown |->
                [histogram |-> MakeHistogram(data[k], Min(times), RoundBinSize(range)),
                 range |-> range, total |-> Total(data[k]),
                 packets |-> PacketsOf({f \in DOMAIN flows : flows[f].key = k})]]

-----------------------------------------------------------------------------
(* A request for a graph, in the thread r *)

\* Those being served: the page itself, or the graph in it once more.
Busy == {r \in Requests : request[r].at # "none"}

\* dictionary[k] = v
Put(dictionary, k, v) ==
    [l \in DOMAIN dictionary \cup {k} |-> IF l = k THEN v ELSE dictionary[l]]

\* Bug: the list is read without the lock, and a flow that is put there before
\* the list is emptied is lost.
NewFlowsUnlocked(r) ==
    /\ r \notin Busy /\ client_status = "running"
    /\ served.requests < bounds.requests /\ Cardinality(Busy) < bounds.threads
    /\ served' = [served EXCEPT !.requests = @ + 1]
    /\ overlap' = (overlap \/ Busy # {})
    /\ request' = [request EXCEPT ![r].at = "adding",
                      ![r].fresh = SubSeq(api_new_flows, 1, Len(api_new_flows) - 1)]
    /\ api_new_flows' = << >>
    /\ UNCHANGED <<bounds, now, flows, client, displayed>>

\* update_graph, if the client is running, and xPeer.new_flows: all there are,
\* of whichever peer.
NewFlows(r) ==
    /\ r \notin Busy /\ client_status = "running"
    /\ served.requests < bounds.requests /\ Cardinality(Busy) < bounds.threads
    /\ served' = [served EXCEPT !.requests = @ + 1]
    /\ overlap' = (overlap \/ Busy # {})
    /\ request' = [request EXCEPT ![r].at = "adding", ![r].fresh = api_new_flows]
    /\ api_new_flows' = << >>
    /\ UNCHANGED <<bounds, now, flows, client, displayed>>

\* A flow with the key of one that is still displayed is not displayed.
AddFlow(r) ==
    /\ request[r].at = "adding" /\ request[r].fresh # << >>
    /\ LET f == Head(request[r].fresh)
           k == flows[f].key
       IN  active_flows' = IF k \in DOMAIN active_flows THEN active_flows
                                                         ELSE Put(active_flows, k, f)
    /\ request' = [request EXCEPT ![r].fresh = Tail(@)]
    /\ UNCHANGED <<bounds, captured, client_status, reported, packet_data, graph, served, overlap>>

DeleteInactive(r) ==
    /\ request[r].at = "adding" /\ request[r].fresh = << >>
    /\ LET kept == {k \in DOMAIN active_flows : flows[active_flows[k]].active}
       IN  /\ active_flows' = Restrict(active_flows, kept)
           /\ request' = [request EXCEPT ![r].at = "asking", ![r].left = kept]
    /\ UNCHANGED <<bounds, captured, client_status, reported, packet_data, graph, served, overlap>>

\* get_new_packet_count reads packets_transferred here ...
GetNewPacketCount(r) ==
    /\ request[r].at = "asking"
    /\ \E k \in request[r].left \cap DOMAIN active_flows :
         LET f == active_flows[k]
         IN  request' = [request EXCEPT ![r].at = "counting", ![r].flow = f,
                            ![r].left = @ \ {k}, ![r].count = flows[f].packets - reported[f]]
    /\ UNCHANGED <<bounds, captured, displayed, served, overlap>>

\* delete_old_packets
Saved(list) == SelectSeq(list, LAMBDA e : e[1] + SaveWindow > now)

\* ... and once more here; then the count is put at the end of the list, and old
\* packets are deleted.  No two entries of a flow have the same time.
AppendCount(r) ==
    /\ request[r].at = "counting"
    /\ LET f    == request[r].flow
           k    == flows[f].key
           list == IF k \in DOMAIN packet_data THEN packet_data[k] ELSE << >>
       IN  /\ list # << >> => Last(list)[1] < now
           /\ reported' = [reported EXCEPT ![f] = flows[f].packets]
           /\ packet_data' = Put(packet_data, k, Saved(Append(list, <<now, request[r].count>>)))
    /\ request' = [request EXCEPT ![r].at = "asking", ![r].flow = 0, ![r].count = 0]
    /\ UNCHANGED <<bounds, captured, client_status, active_flows, graph, served, overlap>>

Draw(r) ==
    /\ request[r].at = "asking" /\ request[r].left = {}
    /\ DOMAIN active_flows \subseteq DOMAIN packet_data
    /\ graph' = MakeGraph(DOMAIN active_flows, packet_data)
    /\ request' = [request EXCEPT ![r] = NoRequest]
    /\ UNCHANGED <<bounds, captured, client_status, active_flows, reported, packet_data, served, overlap>>

\* Another request has changed a dictionary that this one iterates over, or has
\* taken an entry away, or put one in for which there is no data.
RequestFails(r) ==
    /\ overlap /\ r \in Busy /\ request[r].fresh = << >>
    /\ request' = [request EXCEPT ![r] = NoRequest]
    /\ UNCHANGED <<bounds, captured, displayed, served, overlap>>

UpdateGraph(r) ==
    \/ NewFlows(r) \/ AddFlow(r) \/ DeleteInactive(r) \/ GetNewPacketCount(r)
    \/ AppendCount(r) \/ Draw(r) \/ RequestFails(r)

-----------------------------------------------------------------------------
(* client_service_control *)

\* Everything is forgotten, and requests on their way fail; the client itself
\* is not told.
StopService ==
    /\ client_status = "running" /\ served.stops < bounds.stops
    /\ served' = [served EXCEPT !.stops = @ + 1]
    /\ client_status' = "stopped"
    /\ active_flows' = << >> /\ packet_data' = << >> /\ graph' = << >>
    /\ request' = [r \in Requests |-> NoRequest]
    /\ UNCHANGED <<bounds, captured, reported, overlap>>

\* A second client, which the server takes only if it has lost the first one:
\* else Alice.__init__ exits, in the thread of the request.
StartService ==
    /\ client_status = "stopped" /\ client = "down"
    /\ client' = "up" /\ client_status' = "running"
    /\ flows' = << >> /\ api_new_flows' = << >> /\ reported' = << >>
    /\ overlap' = FALSE
    /\ UNCHANGED <<bounds, now, active_flows, packet_data, graph, request, served>>

-----------------------------------------------------------------------------
Web ==
    \/ \E k \in Keys : HandlePacket(k)
    \/ \E f \in DOMAIN flows : CleanFlow(f)
    \/ \E r \in Requests : UpdateGraph(r)
    \/ Tick \/ ClientEnds \/ StopService \/ StartService

Init == TraceInit /\ DashInit

Next ==
    \/ Web /\ UNCHANGED traceVars
    \/ bounds.routes > 0 /\ TraceNext /\ asked' <= bounds.routes /\ UNCHANGED dashVars

\* The thread of Tracerouter runs, and a caller that waits for a lock that is
\* free gets it.
Spec ==
    /\ Init /\ [][Next]_<<traceVars, dashVars>>
    /\ WF_<<traceVars, dashVars>>(bounds.routes > 0 /\ Tracing /\ UNCHANGED dashVars)
    /\ \A c \in Callers : WF_<<traceVars, dashVars>>(Enqueue(c) /\ UNCHANGED dashVars)

-----------------------------------------------------------------------------
(* Properties *)

\* A flow that no other has the key of is displayed, or will be by a request on
\* its way or the next one, whatever the interleaving of two requests.
FlowsAreShown ==
    client_status = "running" =>
        \A f \in DOMAIN flows :
            LET k == flows[f].key
            IN  flows[f].active /\ (\A g \in DOMAIN flows \ {f} : flows[g].key # k)
                => \/ f \in Range(api_new_flows)
                   \/ \E r \in Requests : f \in Range(request[r].fresh)
                   \/ k \in DOMAIN active_flows /\ active_flows[k] = f

\* If requests do not overlap, a graph shows every packet that the interface has
\* been told of and not yet dropped, as often as it was told, and no packet that
\* was not captured, unless the graph is of less than a second.
GraphIsTrue ==
    ~overlap =>
        \A k \in DOMAIN graph :
            /\ graph[k].range = 0 \/ graph[k].range >= Second
               => SumFunction(graph[k].histogram) = graph[k].total
            /\ graph[k].total <= graph[k].packets
=============================================================================
