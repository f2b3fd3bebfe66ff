------------------------------ MODULE MCServer ------------------------------
(***************************************************************************)
(* Two parts of the server that have no state in common: a behavior is     *)
(* about an account, with the two ends that report to it, or about locks.  *)
(*                                                                         *)
(* The account (EndToEnd): two packets of the same or of different hashes, *)
(* a third one forged, clocks one tick apart at most, and time for every   *)
(* deadline to pass.  The locks (ServerLocks): two links, between which    *)
(* there is one flow.                                                      *)
(***************************************************************************)
EXTENDS EndToEnd, ServerLocks, TLC

CONSTANTS h1, h2, l1, l2

VARIABLE about

MCHash == {h1, h2}
MCSkews == {1}
MCLink == {l1, l2}
MCSymmetry == Permutations(MCHash)

ServerInit ==
    /\ E2EInit /\ LocksInit
    /\ about \in IF err_a = 0 /\ err_b = 0 THEN {"account", "locks"} ELSE {"account"}

ServerNext ==
    \/ about = "account" /\ E2ENext /\ UNCHANGED <<about, locksVars>>
    \/ about = "locks" /\ LocksNext /\ UNCHANGED <<about, allvars>>

ServerSpec == ServerInit /\ [][ServerNext]_<<about, allvars, locksVars>>
=============================================================================
