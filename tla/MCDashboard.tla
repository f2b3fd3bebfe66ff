---------------------------- MODULE MCDashboard -----------------------------
(***************************************************************************)
(* Flows of two keys, one of which comes back, with two requests at a time *)
(* or many in turn; or two callers that ask for two routes.                *)
(***************************************************************************)
EXTENDS Dashboard

MCBounds == {
    [flows |-> 3, packets |-> 3, requests |-> 2, threads |-> 2, time |-> 2, stops |-> 0, routes |-> 0],
    [flows |-> 1, packets |-> 2, requests |-> 3, threads |-> 1, time |-> 7, stops |-> 0, routes |-> 0],
    [flows |-> 2, packets |-> 3, requests |-> 2, threads |-> 1, time |-> 4, stops |-> 0, routes |-> 0],
    [flows |-> 2, packets |-> 2, requests |-> 2, threads |-> 2, time |-> 2, stops |-> 2, routes |-> 0],
    [flows |-> 0, packets |-> 0, requests |-> 0, threads |-> 0, time |-> 1, stops |-> 0, routes |-> 4]}
=============================================================================
