------------------------------ MODULE MCClient ------------------------------
(* Two flow addresses with one peer, and time for batches, announcements    *)
(* and flows to time out.                                                   *)
EXTENDS Client

CONSTANTS a1, a2, p1, h1, h2

MCAddr == {a1, a2}
MCPeer == {p1}
MCPeerOf == [a \in MCAddr |-> p1]
MCHashOf == <<h1, h1, h2, h1>>
MCSymmetry == Permutations(MCAddr)
=============================================================================
