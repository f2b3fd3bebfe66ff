--------------------------- MODULE MCReconciliator ---------------------------
(* Two hashes, up to two packets from each side, two links on the sending  *)
(* side so that the skew can grow while the flow is in use.                *)
EXTENDS Reconciliator, TLC

CONSTANTS h1, h2

MCHash == {h1, h2}
MCDispersion == {0, 1}
MCSymmetry == Permutations(MCHash)
=============================================================================
