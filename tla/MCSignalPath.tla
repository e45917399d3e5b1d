---------------------------- MODULE MCSignalPath ----------------------------
(***************************************************************************)
(* TLC instances of the signal path: the ports 1 to 5 of the eight, a      *)
(* memory of four averages, a moving average of one cell, and queues of    *)
(* four packets.                                                           *)
(***************************************************************************)
EXTENDS SignalPath

MCPorts == {ToUnsigned(n, 3) : n \in 1 .. 5}

MCNoWord == [kind |-> "none"]

(* The codes of the configuration packets. *)
MCSampleDelay == [code \in 0 .. 7 |-> 2^code]
MCWindowSize  == [code \in 0 .. 7 |-> MaxN]
MCCorWindow   == [code \in 0 .. 7 |-> CASE code = 0 -> 1 [] code = 1 -> 2 [] code = 2 -> 4
                                        [] code = 3 -> 8 [] OTHER -> 15]

AdcConfig(delay)    == [addr |-> 1, data |-> [kind |-> "adc_config", delay |-> delay, ten_bits |-> TRUE]]
AvgConfig(interval) == [addr |-> 2, data |-> [kind |-> "avg_config", interval |-> interval, window |-> 0]]
CorConfig(window)   == [addr |-> 3, data |-> [kind |-> "cor_config", window |-> window]]

(* A sample every 2 clocks, a correlation at every sample, and a window of *)
(* 8 averages.                                                             *)
MCConfigs == {AdcConfig(1), AvgConfig(1), CorConfig(3)}
=============================================================================
