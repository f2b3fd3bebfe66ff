---------------------------- MODULE MCMatchmaker ----------------------------
(* Two links of Alice, one after the other, one of Bob, one m-tuple; two   *)
(* ids a link, so that the m-tuple can come back over the same link.       *)
EXTENDS Matchmaker, TLC

CONSTANTS a1, a2, b1, m1

MCAlice == {a1, a2}
MCBob == {b1}
MCMTuple == {m1}
MCId == {1, 2}
MCSymmetry == Permutations(MCAlice)
=============================================================================
