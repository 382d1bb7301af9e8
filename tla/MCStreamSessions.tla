-------------------------- MODULE MCStreamSessions --------------------------
(* Small instances of StreamSessions for TLC *)
EXTENDS StreamSessions

CONSTANTS c1, p1, p2, r1, d1

\* every POST belongs to the one conversation
SameConv == [p \in Posts |-> c1]
=============================================================================
