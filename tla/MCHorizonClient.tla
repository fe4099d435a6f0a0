-------------------------- MODULE MCHorizonClient --------------------------
(* Two networks and three payments for TLC: the oldest payment is on the   *)
(* test network, where its destination account does not exist.             *)
EXTENDS HorizonClient

CONSTANTS p1, p2, p3

MCNetworks == {"test", "live"}
MCPending == <<p1, p2, p3>>
MCNetworkOf == [p \in {p1, p2, p3} |-> IF p = p1 THEN "test" ELSE "live"]
=============================================================================
