------------------------------ MODULE Messages ------------------------------
(***************************************************************************)
(* The kinds of messages that clients and server exchange: who may send    *)
(* them, what they expect, and who handles them.  A message is its kind,   *)
(* its sequence number if it expects an ack or a reply, and the number it  *)
(* answers if it is a reply or an ack; other arguments are in the modules  *)
(* of those who use them.                                                  *)
(***************************************************************************)
EXTENDS Naturals

CONSTANT NoNumber

End == {"alice", "server"}
Other(end) == IF end = "alice" THEN "server" ELSE "alice"

Common == {"ping", "error-bye", "error-cont", "signoff", "ack", "test"}
FromAlice == {"parameters", "my-ip", "active_flows", "flow_stats", "sent",
              "recd", "fi-context", "fo-context", "rst-radar", "traceroute"}
FromServer == {"debug-ipid", "public-ip", "new-members", "farewell",
               "igcognito", "forged-in", "forged-out", "forged-details",
               "dangling-flow", "flow-status"}

\* The dictionaries *_out_messages and *_in_messages.
OutMessages == [e \in End |-> Common \cup IF e = "alice" THEN FromAlice
                                                         ELSE FromServer]
InMessages == [e \in End |-> OutMessages[Other(e)]]

ExpectsAck   == {"ping", "error-cont", "new-members", "farewell", "igcognito"}
ExpectsReply == {"my-ip", "fi-context", "forged-in", "forged-out"}
IsReply      == {"fi-context", "fo-context", "public-ip", "forged-details"}
Numbered     == ExpectsAck \cup ExpectsReply

Message(type, no, reply_no) == [type |-> type, no |-> no, reply_no |-> reply_no]

\* The elements of the list on the wire besides other arguments.
Length(type) ==
    1 + (IF type \in Numbered THEN 1 ELSE 0) + (IF type \in IsReply THEN 1 ELSE 0)

\* What determine_response knows at each end: a message that it does not know
\* ends the program.
Handled == [e \in End |->
    {"ack", "ping", "error-bye", "error-cont", "signoff"} \cup
    IF e = "alice"
      THEN {"forged-in", "new-members", "forged-out", "forged-details",
            "farewell", "debug-ipid", "public-ip", "flow-status",
            "dangling-flow"}
      ELSE {"test", "my-ip", "sent", "recd", "fi-context", "fo-context",
            "parameters", "traceroute", "active_flows"}]

\* The calls of send_message in the programs, tests left aside.
Sendable == [e \in End |->
    {"ack", "error-cont", "error-bye"} \cup
    IF e = "alice"
      THEN {"signoff", "parameters", "my-ip", "active_flows", "sent", "recd",
            "fi-context", "fo-context"}
      ELSE {"ping", "public-ip", "new-members", "farewell", "debug-ipid", "forged-in",
            "forged-out", "forged-details", "dangling-flow", "flow-status"}]

\* Nobody sends what the other end does not understand.
ASSUME Understood ==
    \A e \in End : /\ Sendable[e] \subseteq OutMessages[e]
                   /\ Sendable[e] \subseteq Handled[Other(e)]
                   /\ Handled[e] \subseteq InMessages[e]
=============================================================================
