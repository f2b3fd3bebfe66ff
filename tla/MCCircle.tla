------------------------------ MODULE MCCircle ------------------------------
(* Two clients: every property is about two of them, and a third one's    *)
(* messages neither add nor remove either.  A client may come back.       *)
EXTENDS Circle

CONSTANTS i1, i2

MCIp == {i1, i2}
=============================================================================
