-------------------------- MODULE MCPeakPathReads --------------------------
(***************************************************************************)
(* TLC instance of the end of the signal path with a history variable that *)
(* nothing reads: the Nios has read no peak since the last one was         *)
(* detected.                                                               *)
(***************************************************************************)
EXTENDS MCPeakPath

VARIABLE unread
readVars == <<vars, unread>>

Reads == access = "read" /\ access' = "addr"

ReadInit == Init /\ unread = FALSE

ReadNext == /\ Edge
            /\ unread' = (Detects \/ (unread /\ ~ Reads))

ReadSpec == ReadInit /\ [][ReadNext]_readVars

----------------------------------------------------------------------------
(* A peak is being sent until the Nios has read a count since it was       *)
(* detected: what clears it is a "Correlation Count Read Packet"           *)
(* (PdAsp.vhd:57), which gp2.c sends as "Corr Read".                       *)
ClearedWhenRead == [][peak_detected /\ ~ peak_detected' => ~ unread']_readVars
=============================================================================
