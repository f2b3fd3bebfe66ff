------------------------------ MODULE MCSession ------------------------------
(* A ring of one entry, which one packet fills: what there is in the ring   *)
(* matters here only for the disk and for who waits for whom.               *)
EXTENDS Session

MCSizes == {100, 1515}
MCModes == {"live", "gzip"}

\* A ^C or a signal while main waits, or at a step from which a ^C makes it
\* leave at once, one where it goes on and one where it leaves by the finally
\* clause.
MCTroublesome == {"gzip"} \X {"no", "lock", "restore", "close", "shred"}
=============================================================================
