--------------------------- MODULE MCForgeryReport ---------------------------
(* One flow from alice to bob, three forged packets of which two at most are *)
(* looked into at a time.                                                    *)
EXTENDS ForgeryReport

CONSTANTS alice, bob, h1, h2, h3

MCLink == {alice, bob}
MCHash == {h1, h2, h3}
\* All different, so that no number stands for another by chance.
MCFirstNo == [e \in {"server", "client"} |->
                 [l \in MCLink |-> (IF e = "server" THEN 0 ELSE 20)
                                   + (IF l = bob THEN 10 ELSE 0)]]
MCSrcLinks == << <<alice, 1>> >>
MCDestLinks == << <<bob, 1>> >>
=============================================================================
