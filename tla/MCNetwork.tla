----------------------------- MODULE MCNetwork -----------------------------
(***************************************************************************)
(* TLC instance of the network with deadlines, in which only some of the   *)
(* ports send; TopLevel too leaves the send ports 0 and 6 undriven.        *)
(***************************************************************************)
EXTENDS TdmaMinLatency, TdmaMinTypes

CONSTANTS PortCount, SenderCount

MCStages  == Log2Ceil(PortCount)
MCPorts   == {ToUnsigned(n, MCStages) : n \in 0 .. PortCount - 1}
MCSenders == {ToUnsigned(n, MCStages) : n \in 0 .. SenderCount - 1}

MCNext == \E offered \in [MCSenders -> Send] :
            LatencyEdge([p \in Ports |-> IF p \in MCSenders THEN offered[p] ELSE Silent])

(* The clock does not stop. *)
MCSpec == LatencyInit /\ [][MCNext]_latencyVars /\ WF_latencyVars(MCNext)
=============================================================================
