----------------------------- MODULE MCPeakPath -----------------------------
(***************************************************************************)
(* TLC instance of the end of the signal path: correlations of two bits,   *)
(* one in each half, a counter of one bit, and queues of two packets.      *)
(***************************************************************************)
EXTENDS PeakPath

MCPorts  == {ToUnsigned(n, 3) : n \in {3, 4, 7}}
MCNoWord == [kind |-> "none"]
=============================================================================
