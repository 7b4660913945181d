---------------------------- MODULE MCAgentStore ----------------------------
(* Small instances of AgentStore for TLC. *)
EXTENDS AgentStore

CONSTANTS h1, h2, a1, a2, b1

MCHostOf == [a \in Agents |-> IF a = b1 THEN h2 ELSE h1]

\* The clock of h1 is fast, that of h2 slow.
MCClock == [h \in Hosts |-> IF h = h1 THEN {1} ELSE {-1}]
MCAhead == [h \in Hosts |-> IF h = h1 THEN 1 ELSE -1]
=============================================================================
