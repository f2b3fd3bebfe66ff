-------------------------- MODULE DashboardProofs ---------------------------
(***************************************************************************)
(* Proofs about module Dashboard: for any flows, any number of requests at *)
(* a time and any interleaving of them with packets, with flows that end   *)
(* and with starting and stopping, a new flow is displayed, or will be.    *)
(***************************************************************************)
EXTENDS Dashboard, SequenceTheorems, TLAPS

-----------------------------------------------------------------------------
(* The invariant *)

FlowType    == [key : Keys, active : BOOLEAN, packets : Nat]
RequestType == [at : {"none", "adding", "asking", "counting"}, fresh : Seq(Nat),
                left : SUBSET Keys, flow : Nat, count : Int]

Typed ==
    /\ flows \in Seq(FlowType)
    /\ reported \in Seq(Nat) /\ Len(reported) = Len(flows)
    /\ api_new_flows \in Seq(Nat)
    /\ request \in [Requests -> RequestType]
    /\ client_status \in {"running", "stopped"}

\* Lists of new flows name flows that there are.
NamesFlows(list) == \A j \in 1..Len(list) : list[j] \in 1..Len(flows)

Named ==
    /\ NamesFlows(api_new_flows)
    /\ \A r \in Requests : NamesFlows(request[r].fresh)

\* A flow is displayed under its key.
Keyed ==
    \A k \in DOMAIN active_flows :
        k \in Keys /\ active_flows[k] \in 1..Len(flows) /\ flows[active_flows[k]].key = k

\* Only a request that adds flows has some to add.
Adding == \A r \in Requests : request[r].at # "adding" => request[r].fresh = << >>

\* Nothing is displayed, and no request served, while the service is stopped.
Stopped ==
    client_status # "running" =>
        DOMAIN active_flows = {} /\ \A r \in Requests : request[r].at = "none"

\* f is in the list.
In(f, list) == \E j \in 1..Len(list) : list[j] = f

\* f is displayed, or is about to be.
Shown(f) ==
    \/ In(f, api_new_flows)
    \/ \E r \in Requests : In(f, request[r].fresh)
    \/ flows[f].key \in DOMAIN active_flows /\ active_flows[flows[f].key] = f

\* No other flow has the key of f.
Alone(f) == \A g \in 1..Len(flows) : g # f => flows[g].key # flows[f].key

\* FlowsAreShown, said with the above.
AllShown ==
    client_status = "running" =>
        \A f \in 1..Len(flows) : flows[f].active /\ Alone(f) => Shown(f)

IndInv ==
    /\ Typed
    /\ Named
    /\ Keyed
    /\ Adding
    /\ Stopped
    /\ AllShown

-----------------------------------------------------------------------------
(* Lists of flows *)

\* What is in a list.
LEMMA InRange ==
    ASSUME NEW S, NEW list \in Seq(S), NEW f
    PROVE  f \in Range(list) <=> In(f, list)
BY DEF Range, In

\* AllShown is FlowsAreShown.
LEMMA ShownMeans ==
    ASSUME Typed
    PROVE  FlowsAreShown <=> AllShown
<1>1. /\ flows \in Seq(FlowType) /\ api_new_flows \in Seq(Nat)
      /\ \A r \in Requests : request[r].fresh \in Seq(Nat)
  BY DEF Typed, RequestType
<1>2. DOMAIN flows = 1..Len(flows)
  BY <1>1
<1>3. \A f : f \in Range(api_new_flows) <=> In(f, api_new_flows)
  BY <1>1, InRange
<1>4. \A f : \A r \in Requests : f \in Range(request[r].fresh) <=> In(f, request[r].fresh)
  BY <1>1, InRange
<1>5. ASSUME NEW f
      PROVE  (\A g \in DOMAIN flows \ {f} : flows[g].key # flows[f].key) <=> Alone(f)
  BY <1>2 DEF Alone
<1>6. ASSUME NEW f
      PROVE  Shown(f) <=>
                \/ f \in Range(api_new_flows)
                \/ \E r \in Requests : f \in Range(request[r].fresh)
                \/ flows[f].key \in DOMAIN active_flows /\ active_flows[flows[f].key] = f
  BY <1>3, <1>4 DEF Shown
<1> QED
  BY <1>2, <1>5, <1>6 DEF FlowsAreShown, AllShown

\* A list is its first element and the others.
LEMMA HeadAndTail ==
    ASSUME NEW list \in Seq(Nat), list # << >>
    PROVE  /\ Tail(list) \in Seq(Nat) /\ Head(list) = list[1] /\ 1 \in 1..Len(list)
           /\ Len(Tail(list)) = Len(list) - 1
           /\ \A j \in 1..Len(Tail(list)) : Tail(list)[j] = list[j + 1] /\ j + 1 \in 1..Len(list)
           /\ \A f : In(f, list) => f = Head(list) \/ In(f, Tail(list))
<1>1. /\ Tail(list) \in Seq(Nat) /\ Head(list) = list[1] /\ 1 \in 1..Len(list)
      /\ Len(Tail(list)) = Len(list) - 1 /\ Len(list) \in Nat
      /\ \A j \in 1..(Len(list) - 1) : Tail(list)[j] = list[j + 1]
  OBVIOUS
<1>2. \A j \in 1..Len(Tail(list)) : Tail(list)[j] = list[j + 1] /\ j + 1 \in 1..Len(list)
  BY <1>1
<1>3. ASSUME NEW f, In(f, list), f # Head(list)
      PROVE  In(f, Tail(list))
  <2>1. PICK j \in 1..Len(list) : list[j] = f
    BY <1>3 DEF In
  <2>2. j # 1
    BY <1>1, <1>3, <2>1
  <2>3. j - 1 \in 1..(Len(list) - 1) /\ (j - 1) + 1 = j
    BY <1>1, <2>1, <2>2
  <2>4. Tail(list)[j - 1] = f
    BY <1>1, <2>1, <2>3
  <2> QED
    BY <1>1, <2>3, <2>4 DEF In
<1> QED
  BY <1>1, <1>2, <1>3

-----------------------------------------------------------------------------
(* Steps of the client *)

\* Flows may end and new ones come, if those are put in the list for the API.
LEMMA FlowsGo ==
    ASSUME IndInv, Typed', UNCHANGED <<request, active_flows, client_status>>,
           \A f \in 1..Len(flows) : /\ f \in 1..Len(flows')
                                    /\ flows'[f].key = flows[f].key
                                    /\ flows'[f].active => flows[f].active,
           \A f : In(f, api_new_flows) => In(f, api_new_flows'),
           NamesFlows(api_new_flows)',
           \A f \in 1..Len(flows') : f \in 1..Len(flows) \/ In(f, api_new_flows')
    PROVE  IndInv'
<1>1. Named'
  <2>1. \A r \in Requests : NamesFlows(request[r].fresh)'
    BY DEF IndInv, Named, NamesFlows
  <2> QED
    BY <2>1 DEF Named
<1>2. Keyed'
  BY DEF IndInv, Keyed
<1>3. Adding' /\ Stopped'
  BY DEF IndInv, Adding, Stopped
<1>4. AllShown'
  <2>1. SUFFICES ASSUME client_status = "running", NEW f \in 1..Len(flows'),
                        flows'[f].active, Alone(f)'
                 PROVE  Shown(f)'
    BY DEF AllShown
  <2>2. CASE In(f, api_new_flows')
    BY <2>2 DEF Shown, In
  <2>3. CASE f \in 1..Len(flows)
    <3>1. flows[f].active
      BY <2>1, <2>3
    <3>2. Alone(f)
      <4>1. SUFFICES ASSUME NEW g \in 1..Len(flows), g # f PROVE flows[g].key # flows[f].key
        BY DEF Alone
      <4>2. g \in 1..Len(flows') /\ flows'[g].key # flows'[f].key
        BY <2>1, <4>1 DEF Alone
      <4> QED
        BY <2>3, <4>2
    <3>3. Shown(f)
      BY <2>1, <2>3, <3>1, <3>2 DEF IndInv, AllShown
    <3>4. CASE In(f, api_new_flows)
      BY <3>4 DEF Shown, In
    <3>5. CASE \E r \in Requests : In(f, request[r].fresh)
      BY <3>5 DEF Shown, In
    <3>6. CASE flows[f].key \in DOMAIN active_flows /\ active_flows[flows[f].key] = f
      <4>1. flows'[f].key = flows[f].key
        BY <2>3
      <4> QED
        BY <3>6, <4>1 DEF Shown
    <3> QED
      BY <3>3, <3>4, <3>5, <3>6 DEF Shown
  <2> QED
    BY <2>2, <2>3
<1> QED
  BY <1>1, <1>2, <1>3, <1>4 DEF IndInv

\* A packet may bring a flow.
LEMMA PacketKeeps ==
    ASSUME IndInv, NEW k \in Keys, HandlePacket(k)
    PROVE  IndInv'
<1>1. UNCHANGED <<request, active_flows, client_status>>
  BY DEF HandlePacket, requests
<1>2. /\ flows \in Seq(FlowType) /\ reported \in Seq(Nat) /\ Len(reported) = Len(flows)
      /\ api_new_flows \in Seq(Nat) /\ request \in [Requests -> RequestType]
      /\ client_status \in {"running", "stopped"} /\ NamesFlows(api_new_flows)
  BY DEF IndInv, Typed, Named
<1>3. CASE \E f \in Current(k) : /\ flows' = [flows EXCEPT ![f].packets = @ + 1]
                                 /\ UNCHANGED <<api_new_flows, reported>>
  <2>1. PICK f \in 1..Len(flows) : /\ flows' = [flows EXCEPT ![f].packets = @ + 1]
                                   /\ UNCHANGED <<api_new_flows, reported>>
    <3>1. PICK f \in Current(k) : /\ flows' = [flows EXCEPT ![f].packets = @ + 1]
                                  /\ UNCHANGED <<api_new_flows, reported>>
      BY <1>3
    <3>2. f \in 1..Len(flows)
      BY <1>2 DEF Current
    <3> QED
      BY <3>1, <3>2
  <2>2. flows[f] \in FlowType
    BY <1>2
  <2>3. PICK g : g = [flows[f] EXCEPT !.packets = @ + 1]
    OBVIOUS
  <2>4. g \in FlowType /\ g.key = flows[f].key /\ g.active = flows[f].active
    BY <2>2, <2>3 DEF FlowType
  <2>5. flows' = [flows EXCEPT ![f] = g]
    BY <1>2, <2>1, <2>3
  <2>6. flows' \in Seq(FlowType) /\ Len(flows') = Len(flows)
    BY <1>2, <2>4, <2>5
  <2>7. \A h \in 1..Len(flows) : /\ flows'[h].key = flows[h].key
                                 /\ flows'[h].active => flows[h].active
    BY <1>2, <2>4, <2>5
  <2>8. Typed'
    BY <1>1, <1>2, <2>1, <2>6 DEF Typed
  <2>9. NamesFlows(api_new_flows)'
    BY <1>2, <2>1, <2>6 DEF NamesFlows
  <2> QED
    BY <1>1, <2>1, <2>6, <2>7, <2>8, <2>9, FlowsGo
<1>4. CASE /\ flows' = Append(flows, [key |-> k, active |-> TRUE, packets |-> 1])
           /\ api_new_flows' = Append(api_new_flows, Len(flows'))
           /\ reported' = Append(reported, 0)
  <2>1. PICK g \in FlowType : flows' = Append(flows, g)
    BY <1>4 DEF FlowType
  <2>2. PICK n \in Nat : n = Len(flows)
    BY <1>2
  <2>3. /\ flows' \in Seq(FlowType) /\ Len(flows') = n + 1
        /\ \A f \in 1..n : flows'[f] = flows[f]
    BY <1>2, <2>1, <2>2, AppendProperties
  <2>4. reported' \in Seq(Nat) /\ Len(reported') = n + 1
    BY <1>2, <1>4, <2>2, AppendProperties
  <2>5. /\ api_new_flows' \in Seq(Nat) /\ Len(api_new_flows') = Len(api_new_flows) + 1
        /\ \A j \in 1..Len(api_new_flows) : api_new_flows'[j] = api_new_flows[j]
        /\ api_new_flows'[Len(api_new_flows) + 1] = n + 1
    BY <1>2, <1>4, <2>2, <2>3, AppendProperties
  <2>6. Len(api_new_flows) \in Nat
    BY <1>2
  <2>7. Typed'
    BY <1>1, <1>2, <2>3, <2>4, <2>5 DEF Typed
  <2>8. \A f : In(f, api_new_flows) => In(f, api_new_flows')
    BY <2>5, <2>6 DEF In
  <2>9. In(n + 1, api_new_flows')
    BY <2>5, <2>6 DEF In
  <2>10. NamesFlows(api_new_flows)'
    <3>1. SUFFICES ASSUME NEW j \in 1..Len(api_new_flows') PROVE api_new_flows'[j] \in 1..(n + 1)
      BY <2>3 DEF NamesFlows
    <3>2. CASE j = Len(api_new_flows) + 1
      BY <2>2, <2>5, <3>2
    <3>3. CASE j # Len(api_new_flows) + 1
      <4>1. j \in 1..Len(api_new_flows)
        BY <2>5, <2>6, <3>3
      <4>2. api_new_flows[j] \in 1..n
        BY <1>2, <2>2, <4>1 DEF NamesFlows
      <4> QED
        BY <2>2, <2>5, <4>1, <4>2
    <3> QED
      BY <3>2, <3>3
  <2>11. \A f \in 1..Len(flows) : /\ f \in 1..Len(flows')
                                  /\ flows'[f].key = flows[f].key
                                  /\ flows'[f].active => flows[f].active
    BY <2>2, <2>3
  <2>12. \A f \in 1..Len(flows') : f \in 1..Len(flows) \/ In(f, api_new_flows')
    <3>1. \A f \in 1..Len(flows') : f \in 1..n \/ f = n + 1
      BY <2>2, <2>3
    <3> QED
      BY <2>2, <2>9, <3>1
  <2> QED
    BY <1>1, <2>7, <2>8, <2>10, <2>11, <2>12, FlowsGo
<1> QED
  BY <1>3, <1>4 DEF HandlePacket

\* A flow may end.
LEMMA CleanKeeps ==
    ASSUME IndInv, NEW f \in DOMAIN flows, CleanFlow(f)
    PROVE  IndInv'
<1>1. /\ flows' = [flows EXCEPT ![f].active = FALSE]
      /\ UNCHANGED <<request, active_flows, client_status, api_new_flows, reported>>
  BY DEF CleanFlow, requests, displayed
<1>2. /\ flows \in Seq(FlowType) /\ reported \in Seq(Nat) /\ Len(reported) = Len(flows)
      /\ api_new_flows \in Seq(Nat) /\ request \in [Requests -> RequestType]
      /\ client_status \in {"running", "stopped"} /\ NamesFlows(api_new_flows)
  BY DEF IndInv, Typed, Named
<1>3. flows[f] \in FlowType /\ f \in 1..Len(flows)
  BY <1>2
<1>4. PICK g : g = [flows[f] EXCEPT !.active = FALSE]
  OBVIOUS
<1>5. g \in FlowType /\ g.key = flows[f].key /\ g.active = FALSE
  BY <1>3, <1>4 DEF FlowType
<1>6. flows' = [flows EXCEPT ![f] = g]
  BY <1>1, <1>2, <1>4
<1>7. flows' \in Seq(FlowType) /\ Len(flows') = Len(flows)
  BY <1>2, <1>3, <1>5, <1>6
<1>8. \A h \in 1..Len(flows) : /\ flows'[h].key = flows[h].key
                               /\ flows'[h].active => flows[h].active
  BY <1>2, <1>3, <1>5, <1>6
<1>9. Typed'
  BY <1>1, <1>2, <1>7 DEF Typed
<1>10. NamesFlows(api_new_flows)'
  BY <1>1, <1>2, <1>7 DEF NamesFlows
<1> QED
  BY <1>1, <1>7, <1>8, <1>9, <1>10, FlowsGo

\* Nothing else that is not a request changes flows or what is displayed.
LEMMA OthersKeep ==
    ASSUME IndInv, UNCHANGED <<flows, api_new_flows, reported, request, active_flows, client_status>>
    PROVE  IndInv'
<1>1. Typed' /\ NamesFlows(api_new_flows)'
  BY DEF IndInv, Typed, Named, NamesFlows
<1> QED
  BY <1>1, FlowsGo

-----------------------------------------------------------------------------
(* Steps of a request *)

\* Two requests' lists and the displayed flows may change, if what is about to be
\* displayed still is.
LEMMA RequestGoes ==
    ASSUME IndInv, Typed', UNCHANGED <<flows, client_status>>,
           NEW r \in Requests, request[r].at # "none" \/ client_status = "running",
           \A q \in Requests : q # r => request'[q] = request[q],
           Named', Keyed', request'[r].at # "adding" => request'[r].fresh = << >>,
           client_status = "running" =>
               \A f \in 1..Len(flows) : flows[f].active /\ Alone(f) /\ Shown(f) => Shown(f)'
    PROVE  IndInv'
<1>1. Adding'
  BY DEF IndInv, Adding
<1>2. client_status = "running"
  BY DEF IndInv, Stopped
<1>3. Stopped'
  BY <1>2 DEF Stopped
<1>4. AllShown'
  <2>1. SUFFICES ASSUME NEW f \in 1..Len(flows), flows[f].active, Alone(f)'
                 PROVE  Shown(f)'
    BY DEF AllShown
  <2>2. Alone(f)
    BY <2>1 DEF Alone
  <2> QED
    BY <1>2, <2>1, <2>2 DEF IndInv, AllShown
<1> QED
  BY <1>1, <1>3, <1>4 DEF IndInv

\* What a request is.
LEMMA RequestParts ==
    ASSUME Typed, NEW r \in Requests
    PROVE  /\ request[r] \in RequestType /\ request[r].fresh \in Seq(Nat)
           /\ request[r].at \in {"none", "adding", "asking", "counting"}
           /\ request[r].left \subseteq Keys
BY DEF Typed, RequestType

\* A request takes the new flows.
LEMMA NewFlowsKeeps ==
    ASSUME IndInv, NEW r \in Requests, NewFlows(r)
    PROVE  IndInv'
<1>1. /\ request' = [request EXCEPT ![r].at = "adding", ![r].fresh = api_new_flows]
      /\ api_new_flows' = << >> /\ client_status = "running" /\ request[r].at = "none"
      /\ UNCHANGED <<flows, reported, client_status, active_flows>>
  BY DEF NewFlows, displayed, Busy
<1>2. Typed
  BY DEF IndInv
<1>3. request \in [Requests -> RequestType] /\ api_new_flows \in Seq(Nat)
  BY <1>2 DEF Typed
<1>4. request[r] \in RequestType
  BY <1>3
<1>5. PICK q : q = [request[r] EXCEPT !.at = "adding", !.fresh = api_new_flows]
  OBVIOUS
<1>6. q \in RequestType /\ q.at = "adding" /\ q.fresh = api_new_flows
  BY <1>3, <1>4, <1>5 DEF RequestType
<1>7. request' = [request EXCEPT ![r] = q]
  BY <1>1, <1>3, <1>5
<1>8. request' \in [Requests -> RequestType] /\ request'[r] = q
  BY <1>3, <1>6, <1>7
<1>9. \A p \in Requests : p # r => request'[p] = request[p]
  BY <1>3, <1>7
<1>10. Typed'
  BY <1>1, <1>2, <1>8 DEF Typed
<1>11. Named'
  <2>1. \A p \in Requests : NamesFlows(request[p].fresh)
    BY DEF IndInv, Named
  <2>2. NamesFlows(api_new_flows)
    BY DEF IndInv, Named
  <2>3. \A p \in Requests : NamesFlows(request'[p].fresh)
    BY <1>6, <1>8, <1>9, <2>1, <2>2
  <2>4. \A p \in Requests : NamesFlows(request[p].fresh)'
    BY <1>1, <2>3 DEF NamesFlows
  <2>5. NamesFlows(api_new_flows)'
    BY <1>1 DEF NamesFlows
  <2> QED
    BY <2>4, <2>5 DEF Named
<1>12. Keyed'
  BY <1>1 DEF IndInv, Keyed
<1>13. ASSUME NEW f \in 1..Len(flows), Shown(f)
       PROVE  Shown(f)'
  <2>1. CASE In(f, api_new_flows)
    <3>1. In(f, request'[r].fresh)
      BY <1>6, <1>8, <2>1
    <3> QED
      BY <3>1 DEF Shown, In
  <2>2. ASSUME NEW p \in Requests, In(f, request[p].fresh)
        PROVE  Shown(f)'
    <3>1. p # r
      <4>1. request[r].fresh = << >>
        BY <1>1 DEF IndInv, Adding
      <4> QED
        BY <2>2, <4>1 DEF In
    <3>2. In(f, request'[p].fresh)
      BY <1>9, <2>2, <3>1
    <3> QED
      BY <3>2 DEF Shown, In
  <2>3. CASE flows[f].key \in DOMAIN active_flows /\ active_flows[flows[f].key] = f
    BY <1>1, <2>3 DEF Shown
  <2> QED
    BY <1>13, <2>1, <2>2, <2>3 DEF Shown
<1> QED
  BY <1>1, <1>6, <1>8, <1>9, <1>10, <1>11, <1>12, <1>13, RequestGoes

\* A request adds the first of its new flows to those displayed, unless one with
\* its key is there.
LEMMA AddKeeps ==
    ASSUME IndInv, NEW r \in Requests, AddFlow(r)
    PROVE  IndInv'
<1>1. PICK h : h = Head(request[r].fresh)
  OBVIOUS
<1>2. /\ request[r].at = "adding" /\ request[r].fresh # << >>
      /\ active_flows' = IF flows[h].key \in DOMAIN active_flows THEN active_flows
                                                   ELSE Put(active_flows, flows[h].key, h)
      /\ request' = [request EXCEPT ![r].fresh = Tail(@)]
      /\ UNCHANGED <<flows, api_new_flows, reported, client_status>>
  BY <1>1 DEF AddFlow, captured
<1>3. Typed /\ request \in [Requests -> RequestType] /\ flows \in Seq(FlowType)
  BY DEF IndInv, Typed
<1>4. PICK list \in Seq(Nat) : list = request[r].fresh
  BY <1>3, RequestParts
<1>5. /\ Tail(list) \in Seq(Nat) /\ h = list[1] /\ 1 \in 1..Len(list)
      /\ \A j \in 1..Len(Tail(list)) : Tail(list)[j] = list[j + 1] /\ j + 1 \in 1..Len(list)
      /\ \A f : In(f, list) => f = h \/ In(f, Tail(list))
  BY <1>1, <1>2, <1>4, HeadAndTail
<1>6. PICK q : q = [request[r] EXCEPT !.fresh = Tail(list)]
  OBVIOUS
<1>7. request[r] \in RequestType
  BY <1>3
<1>8. q \in RequestType /\ q.at = "adding" /\ q.fresh = Tail(list)
  BY <1>2, <1>5, <1>6, <1>7 DEF RequestType
<1>9. request' = [request EXCEPT ![r] = q]
  BY <1>2, <1>3, <1>4, <1>6
<1>10. request' \in [Requests -> RequestType] /\ request'[r] = q
  BY <1>3, <1>8, <1>9
<1>11. \A p \in Requests : p # r => request'[p] = request[p]
  BY <1>3, <1>9
<1>12. Typed'
  BY <1>2, <1>3, <1>10 DEF Typed
<1>13. \A p \in Requests : NamesFlows(request[p].fresh)
  BY DEF IndInv, Named
<1>14. NamesFlows(list)
  BY <1>4, <1>13
<1>15. Named'
  <2>1. NamesFlows(Tail(list))
    BY <1>5, <1>14 DEF NamesFlows
  <2>2. \A p \in Requests : NamesFlows(request'[p].fresh)
    BY <1>8, <1>10, <1>11, <1>13, <2>1
  <2>3. \A p \in Requests : NamesFlows(request[p].fresh)'
    BY <1>2, <2>2 DEF NamesFlows
  <2>4. NamesFlows(api_new_flows)'
    BY <1>2 DEF IndInv, Named, NamesFlows
  <2> QED
    BY <2>3, <2>4 DEF Named
<1>16. h \in 1..Len(flows) /\ flows[h].key \in Keys
  <2>1. h \in 1..Len(flows)
    BY <1>5, <1>14 DEF NamesFlows
  <2>2. flows[h] \in FlowType
    BY <1>3, <2>1
  <2> QED
    BY <2>1, <2>2 DEF FlowType
<1>17. \/ flows[h].key \in DOMAIN active_flows /\ active_flows' = active_flows
       \/ /\ flows[h].key \notin DOMAIN active_flows
          /\ DOMAIN active_flows' = DOMAIN active_flows \cup {flows[h].key}
          /\ active_flows'[flows[h].key] = h
          /\ \A k \in DOMAIN active_flows : active_flows'[k] = active_flows[k]
  BY <1>2 DEF Put
<1>18. /\ DOMAIN active_flows \subseteq DOMAIN active_flows'
       /\ \A k \in DOMAIN active_flows : active_flows'[k] = active_flows[k]
       /\ \A k \in DOMAIN active_flows' :
              k \in DOMAIN active_flows \/ (k = flows[h].key /\ active_flows'[k] = h)
       /\ flows[h].key \in DOMAIN active_flows'
  <2>1. CASE flows[h].key \in DOMAIN active_flows /\ active_flows' = active_flows
    BY <2>1
  <2>2. CASE /\ DOMAIN active_flows' = DOMAIN active_flows \cup {flows[h].key}
             /\ active_flows'[flows[h].key] = h
             /\ \A k \in DOMAIN active_flows : active_flows'[k] = active_flows[k]
    BY <2>2
  <2> QED
    BY <1>17, <2>1, <2>2
<1>19. Keyed'
  <2>1. SUFFICES ASSUME NEW k \in DOMAIN active_flows'
                 PROVE  /\ k \in Keys /\ active_flows'[k] \in 1..Len(flows)
                        /\ flows[active_flows'[k]].key = k
    BY <1>2 DEF Keyed
  <2>2. CASE k \in DOMAIN active_flows
    BY <1>18, <2>2 DEF IndInv, Keyed
  <2>3. CASE k = flows[h].key /\ active_flows'[k] = h
    BY <1>16, <2>3
  <2> QED
    BY <1>18, <2>2, <2>3
<1>20. ASSUME NEW f \in 1..Len(flows), Alone(f), Shown(f)
       PROVE  Shown(f)'
  <2>1. CASE In(f, api_new_flows)
    BY <1>2, <2>1 DEF Shown, In
  <2>2. CASE flows[f].key \in DOMAIN active_flows /\ active_flows[flows[f].key] = f
    BY <1>2, <1>18, <2>2 DEF Shown
  <2>3. ASSUME NEW p \in Requests, p # r, In(f, request[p].fresh)
        PROVE  Shown(f)'
    <3>1. In(f, request'[p].fresh)
      BY <1>11, <2>3
    <3> QED
      BY <3>1 DEF Shown, In
  <2>4. CASE In(f, Tail(list))
    <3>1. In(f, request'[r].fresh)
      BY <1>8, <1>10, <2>4
    <3> QED
      BY <3>1 DEF Shown, In
  <2>5. CASE f = h
    <3>1. flows[f].key \in DOMAIN active_flows'
      BY <1>18, <2>5
    <3>2. CASE flows[f].key \in DOMAIN active_flows
      <4>1. /\ active_flows[flows[f].key] \in 1..Len(flows)
            /\ flows[active_flows[flows[f].key]].key = flows[f].key
        BY <3>2 DEF IndInv, Keyed
      <4>2. active_flows[flows[f].key] = f
        BY <1>20, <4>1 DEF Alone
      <4> QED
        BY <2>2, <3>2, <4>2
    <3>3. CASE flows[f].key \notin DOMAIN active_flows
      <4>1. active_flows'[flows[f].key] = f
        BY <1>17, <2>5, <3>3
      <4> QED
        BY <1>2, <3>1, <4>1 DEF Shown
    <3> QED
      BY <3>2, <3>3
  <2>6. CASE In(f, list)
    BY <1>5, <2>4, <2>5, <2>6
  <2>7. CASE \E p \in Requests : In(f, request[p].fresh)
    <3>1. PICK p \in Requests : In(f, request[p].fresh)
      BY <2>7
    <3>2. CASE p = r
      BY <1>4, <2>6, <3>1, <3>2
    <3> QED
      BY <2>3, <3>1, <3>2
  <2> QED
    BY <1>20, <2>1, <2>2, <2>7 DEF Shown
<1> QED
  BY <1>2, <1>8, <1>10, <1>11, <1>12, <1>15, <1>19, <1>20, RequestGoes

\* The other steps of a request take no flow from a list; of those displayed they
\* may delete what is no longer active.
LEMMA RequestServes ==
    ASSUME IndInv, UNCHANGED <<flows, api_new_flows, client_status>>,
           reported' \in Seq(Nat), Len(reported') = Len(flows),
           NEW r \in Requests, request[r].at # "none",
           NEW q \in RequestType, request' = [request EXCEPT ![r] = q],
           q.fresh = request[r].fresh, q.at # "adding" => q.fresh = << >>,
           DOMAIN active_flows' \subseteq DOMAIN active_flows,
           \A k \in DOMAIN active_flows' : active_flows'[k] = active_flows[k],
           \A k \in DOMAIN active_flows :
               flows[active_flows[k]].active => k \in DOMAIN active_flows'
    PROVE  IndInv'
<1>1. request \in [Requests -> RequestType] /\ Typed
  BY DEF IndInv, Typed
<1>2. /\ request' \in [Requests -> RequestType] /\ request'[r] = q
      /\ \A p \in Requests : p # r => request'[p] = request[p]
  BY <1>1
<1>3. \A p \in Requests : request'[p].fresh = request[p].fresh
  BY <1>2
<1>4. Typed'
  BY <1>1, <1>2 DEF Typed
<1>5. Named'
  BY <1>3 DEF IndInv, Named, NamesFlows
<1>6. Keyed'
  BY DEF IndInv, Keyed
<1>7. ASSUME NEW f \in 1..Len(flows), flows[f].active, Shown(f)
      PROVE  Shown(f)'
  <2>1. CASE In(f, api_new_flows)
    BY <2>1 DEF Shown, In
  <2>2. CASE \E p \in Requests : In(f, request[p].fresh)
    <3>1. PICK p \in Requests : In(f, request[p].fresh)
      BY <2>2
    <3>2. In(f, request'[p].fresh)
      BY <1>3, <3>1
    <3> QED
      BY <3>2 DEF Shown, In
  <2>3. CASE flows[f].key \in DOMAIN active_flows /\ active_flows[flows[f].key] = f
    <3>1. flows[f].key \in DOMAIN active_flows'
      BY <1>7, <2>3
    <3>2. active_flows'[flows[f].key] = f
      BY <2>3, <3>1
    <3> QED
      BY <3>1, <3>2 DEF Shown
  <2> QED
    BY <1>7, <2>1, <2>2, <2>3 DEF Shown
<1> QED
  BY <1>2, <1>4, <1>5, <1>6, <1>7, RequestGoes

\* Flows that have ended are no longer displayed.
LEMMA DeleteKeeps ==
    ASSUME IndInv, NEW r \in Requests, DeleteInactive(r)
    PROVE  IndInv'
<1>1. PICK kept : kept = {k \in DOMAIN active_flows : flows[active_flows[k]].active}
  OBVIOUS
<1>2. /\ request[r].at = "adding" /\ request[r].fresh = << >>
      /\ active_flows' = Restrict(active_flows, kept)
      /\ request' = [request EXCEPT ![r].at = "asking", ![r].left = kept]
      /\ UNCHANGED <<flows, api_new_flows, reported, client_status>>
  BY <1>1 DEF DeleteInactive, captured
<1>3. /\ request \in [Requests -> RequestType]
      /\ reported \in Seq(Nat) /\ Len(reported) = Len(flows)
  BY DEF IndInv, Typed
<1>4. /\ DOMAIN active_flows' = kept
      /\ \A k \in kept : active_flows'[k] = active_flows[k]
  BY <1>2 DEF Restrict
<1>5. kept \subseteq Keys
  BY <1>1 DEF IndInv, Keyed
<1>6. PICK q : q = [request[r] EXCEPT !.at = "asking", !.left = kept]
  OBVIOUS
<1>7. request[r] \in RequestType
  BY <1>3
<1>8. q \in RequestType /\ q.at = "asking" /\ q.fresh = request[r].fresh
  BY <1>5, <1>6, <1>7 DEF RequestType
<1>9. request' = [request EXCEPT ![r] = q]
  BY <1>2, <1>3, <1>6
<1>10. /\ kept \subseteq DOMAIN active_flows
       /\ \A k \in DOMAIN active_flows : flows[active_flows[k]].active => k \in kept
  BY <1>1
<1>11. /\ DOMAIN active_flows' \subseteq DOMAIN active_flows
       /\ \A k \in DOMAIN active_flows' : active_flows'[k] = active_flows[k]
       /\ \A k \in DOMAIN active_flows :
              flows[active_flows[k]].active => k \in DOMAIN active_flows'
  BY <1>4, <1>10
<1>12. request[r].at # "none" /\ q.fresh = << >>
  BY <1>2, <1>8
<1> QED
  BY <1>2, <1>3, <1>8, <1>9, <1>11, <1>12, RequestServes

\* Packets are counted and drawn, or the request fails.
LEMMA CountingKeeps ==
    ASSUME IndInv, NEW r \in Requests,
           GetNewPacketCount(r) \/ AppendCount(r) \/ Draw(r) \/ RequestFails(r)
    PROVE  IndInv'
<1>1. /\ request \in [Requests -> RequestType] /\ flows \in Seq(FlowType)
      /\ reported \in Seq(Nat) /\ Len(reported) = Len(flows) /\ Typed
  BY DEF IndInv, Typed
<1>2. request[r] \in RequestType
  BY <1>1
<1>3. ASSUME NEW q \in RequestType, request' = [request EXCEPT ![r] = q],
             q.fresh = << >>, q.at # "adding", request[r].fresh = << >>,
             request[r].at # "none",
             UNCHANGED <<flows, api_new_flows, client_status, active_flows>>,
             reported' \in Seq(Nat), Len(reported') = Len(flows)
      PROVE  IndInv'
  BY <1>3, RequestServes
<1>4. request[r].at # "adding" => request[r].fresh = << >>
  BY DEF IndInv, Adding
<1>5. CASE GetNewPacketCount(r)
  <2>1. /\ request[r].at = "asking"
        /\ UNCHANGED <<flows, api_new_flows, client_status, active_flows, reported>>
    BY <1>5 DEF GetNewPacketCount, captured, displayed
  <2>2. PICK k \in request[r].left \cap DOMAIN active_flows :
            request' = [request EXCEPT
                           ![r].at = "counting", ![r].flow = active_flows[k], ![r].left = @ \ {k},
                           ![r].count = flows[active_flows[k]].packets - reported[active_flows[k]]]
    BY <1>5 DEF GetNewPacketCount
  <2>3. PICK f : f = active_flows[k]
    OBVIOUS
  <2>4. f \in 1..Len(flows)
    BY <2>2, <2>3 DEF IndInv, Keyed
  <2>5. PICK c : c = flows[f].packets - reported[f]
    OBVIOUS
  <2>6. c \in Int /\ f \in Nat
    <3>1. flows[f] \in FlowType /\ reported[f] \in Nat
      BY <1>1, <2>4
    <3> QED
      BY <2>4, <2>5, <3>1 DEF FlowType
  <2>7. PICK left : left = request[r].left \ {k}
    OBVIOUS
  <2>8. left \subseteq Keys
    BY <1>1, <2>7, RequestParts
  <2>9. PICK q : q = [request[r] EXCEPT !.at = "counting", !.flow = f, !.left = left, !.count = c]
    OBVIOUS
  <2>10. q \in RequestType /\ q.at = "counting" /\ q.fresh = request[r].fresh
    BY <1>2, <2>6, <2>8, <2>9 DEF RequestType
  <2>11. request' = [request EXCEPT ![r] = q]
    BY <1>1, <2>2, <2>3, <2>5, <2>7, <2>9
  <2> QED
    BY <1>1, <1>3, <1>4, <2>1, <2>10, <2>11
<1>6. CASE AppendCount(r)
  <2>1. /\ request[r].at = "counting"
        /\ UNCHANGED <<flows, api_new_flows, client_status, active_flows>>
        /\ request' = [request EXCEPT ![r].at = "asking", ![r].flow = 0, ![r].count = 0]
    BY <1>6 DEF AppendCount, captured
  <2>2. PICK f : f = request[r].flow
    OBVIOUS
  <2>3. reported' = [reported EXCEPT ![f] = flows[f].packets]
    BY <1>6, <2>2 DEF AppendCount
  <2>4. reported' \in Seq(Nat) /\ Len(reported') = Len(flows)
    <3>1. CASE f \in 1..Len(flows)
      <4>1. flows[f] \in FlowType
        BY <1>1, <3>1
      <4>2. flows[f].packets \in Nat
        BY <4>1 DEF FlowType
      <4> QED
        BY <1>1, <2>3, <3>1, <4>2
    <3>2. CASE f \notin 1..Len(flows)
      <4>1. PICK v : v = flows[f].packets
        OBVIOUS
      <4>2. PICK n \in Nat : n = Len(flows)
        BY <1>1
      <4>3. reported \in [1..n -> Nat] /\ f \notin 1..n
        BY <1>1, <3>2, <4>2
      <4>4. reported' = [reported EXCEPT ![f] = v]
        BY <2>3, <4>1
      <4>5. reported' \in [1..n -> Nat] /\ \A i \in 1..n : reported'[i] = reported[i]
        BY <4>3, <4>4
      <4>6. reported' = reported
        BY <4>3, <4>5
      <4> QED
        BY <1>1, <4>6
    <3> QED
      BY <3>1, <3>2
  <2>5. PICK q : q = [request[r] EXCEPT !.at = "asking", !.flow = 0, !.count = 0]
    OBVIOUS
  <2>6. q \in RequestType /\ q.at = "asking" /\ q.fresh = request[r].fresh
    <3>1. 0 \in Nat /\ 0 \in Int
      OBVIOUS
    <3> QED
      BY <1>2, <2>5, <3>1 DEF RequestType
  <2>7. request' = [request EXCEPT ![r] = q]
    BY <1>1, <2>1, <2>5
  <2> QED
    BY <1>3, <1>4, <2>1, <2>4, <2>6, <2>7
<1>7. CASE Draw(r) \/ RequestFails(r)
  <2>1. /\ request' = [request EXCEPT ![r] = NoRequest]
        /\ request[r].at # "none" /\ request[r].fresh = << >>
        /\ UNCHANGED <<flows, api_new_flows, client_status, active_flows, reported>>
    BY <1>4, <1>7 DEF Draw, RequestFails, Busy, captured, displayed
  <2>2. NoRequest \in RequestType /\ NoRequest.fresh = << >> /\ NoRequest.at = "none"
    BY DEF NoRequest, RequestType
  <2> QED
    BY <1>1, <1>3, <2>1, <2>2
<1> QED
  BY <1>5, <1>6, <1>7

-----------------------------------------------------------------------------
(* Starting and stopping *)

\* Stopping forgets what is displayed and all requests.
LEMMA StopKeeps ==
    ASSUME IndInv, StopService
    PROVE  IndInv'
<1>1. /\ client_status' = "stopped" /\ active_flows' = << >>
      /\ request' = [r \in Requests |-> NoRequest]
      /\ UNCHANGED <<flows, api_new_flows, reported>>
  BY DEF StopService, captured
<1>2. NoRequest \in RequestType /\ NoRequest.fresh = << >> /\ NoRequest.at = "none"
  BY DEF NoRequest, RequestType
<1>3. DOMAIN active_flows' = {}
  BY <1>1
<1>4. request' \in [Requests -> RequestType]
  BY <1>1, <1>2
<1>5. \A r \in Requests : request'[r].fresh = << >> /\ request'[r].at = "none"
  BY <1>1, <1>2
<1>6. Typed'
  BY <1>1, <1>4 DEF IndInv, Typed
<1>7. Named'
  BY <1>1, <1>5 DEF IndInv, Named, NamesFlows
<1>8. Keyed' /\ Adding' /\ Stopped' /\ AllShown'
  BY <1>1, <1>3, <1>5 DEF Keyed, Adding, Stopped, AllShown
<1> QED
  BY <1>6, <1>7, <1>8 DEF IndInv

\* A second client starts without flows, and the interface with nothing displayed.
LEMMA StartKeeps ==
    ASSUME IndInv, StartService
    PROVE  IndInv'
<1>1. /\ client_status # "running" /\ client_status' = "running"
      /\ flows' = << >> /\ api_new_flows' = << >> /\ reported' = << >>
      /\ UNCHANGED <<active_flows, request>>
  BY DEF StartService
<1>2. DOMAIN active_flows' = {} /\ \A r \in Requests : request'[r].at = "none"
  BY <1>1 DEF IndInv, Stopped
<1>3. \A r \in Requests : request'[r].fresh = << >>
  BY <1>1, <1>2 DEF IndInv, Adding
<1>4. Typed'
  BY <1>1 DEF IndInv, Typed
<1>5. Named' /\ Keyed' /\ Adding' /\ Stopped' /\ AllShown'
  BY <1>1, <1>2, <1>3 DEF Named, NamesFlows, Keyed, Adding, Stopped, AllShown
<1> QED
  BY <1>4, <1>5 DEF IndInv

\* At first there are no flows.
LEMMA InitHolds ==
    ASSUME DashInit
    PROVE  IndInv
<1>1. NoRequest \in RequestType /\ NoRequest.fresh = << >> /\ NoRequest.at = "none"
  BY DEF NoRequest, RequestType
<1>2. /\ flows = << >> /\ api_new_flows = << >> /\ reported = << >> /\ client_status = "running"
      /\ DOMAIN active_flows = {} /\ request \in [Requests -> RequestType]
      /\ \A r \in Requests : request[r].fresh = << >>
  BY <1>1 DEF DashInit
<1>3. Typed
  BY <1>2 DEF Typed
<1>4. Named /\ Keyed /\ Adding /\ Stopped /\ AllShown
  BY <1>2 DEF Named, NamesFlows, Keyed, Adding, Stopped, AllShown
<1> QED
  BY <1>3, <1>4 DEF IndInv

\* Every step of the interface, the client and the thread that traces.
LEMMA StepKeeps ==
    ASSUME IndInv, [Next]_<<traceVars, dashVars>>
    PROVE  IndInv'
<1>1. ASSUME UNCHANGED dashVars
      PROVE  IndInv'
  BY <1>1, OthersKeep DEF dashVars, captured, displayed, requests
<1>2. ASSUME Tick \/ ClientEnds
      PROVE  IndInv'
  BY <1>2, OthersKeep DEF Tick, ClientEnds, displayed, requests
<1>3. ASSUME NEW r \in Requests, UpdateGraph(r)
      PROVE  IndInv'
  BY <1>3, NewFlowsKeeps, AddKeeps, DeleteKeeps, CountingKeeps DEF UpdateGraph
<1> QED
  BY <1>1, <1>2, <1>3, PacketKeeps, CleanKeeps, StopKeeps, StartKeeps DEF Next, Web

-----------------------------------------------------------------------------
(* Theorems *)

\* The invariant holds: lists name flows that there are, a flow is displayed under
\* its key, nothing is displayed while the service is stopped, and new flows are
\* in a list until they are displayed.
THEOREM InterfaceHolds == Spec => []IndInv
<1>1. Init => IndInv
  BY InitHolds DEF Init
<1>2. IndInv /\ [Next]_<<traceVars, dashVars>> => IndInv'
  BY StepKeeps
<1> QED
  BY <1>1, <1>2, PTL DEF Spec

\* FlowsAreShown: for any number of requests at a time, a flow that no other has
\* the key of is displayed or will be by a request.
THEOREM NewFlowsAreShown == Spec => []FlowsAreShown
<1>1. IndInv => FlowsAreShown
  BY ShownMeans DEF IndInv
<1> QED
  BY <1>1, InterfaceHolds, PTL
=============================================================================
