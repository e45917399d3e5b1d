------------------------------ MODULE PeakPath ------------------------------
(***************************************************************************)
(* The end of the signal path: the peak detection ASP and the Nios on the  *)
(* network, behind a correlation ASP that sends results of its own choice, *)
(* as SignalPath has it do: both halves at consecutive edges, the first of *)
(* them two edges after an average has come, and never two results closer  *)
(* than MinGap edges.                                                      *)
(***************************************************************************)
EXTENDS Naturals, Sequences, TdmaMinTypes

CONSTANTS
  Stages, Ports, Far, Depth,   \* the network
  HalfSize, CountModulus,      \* PdAsp
  NoWord,                      \* the data word of a silent send port
  Results,                     \* the correlations that may be sent
  MinGap                       \* edges between two results, at least

(* Eight terminals; three of them have an interface whose port is driven.  *)
ASSUME PortsAssumption ==
  /\ Stages = 3
  /\ Ports \subseteq [0 .. 2 -> BOOLEAN]
  /\ {ToUnsigned(n, 3) : n \in {3, 4, 7}} \subseteq Ports
  /\ Far \cap [0 .. 2 -> BOOLEAN] = {}
ASSUME WordAssumption ==
  /\ HalfSize \in Nat \ {0} /\ CountModulus \in Nat \ {0}
  /\ Results \subseteq Nat
  /\ NoWord.kind \notin {"peak", "correlation", "count_read"}

(* A queue holds both halves of a result, and they leave before the next:  *)
(* two rounds of the slot counter.                                         *)
ASSUME GapAssumption == Depth \in Nat /\ Depth >= 2 /\ MinGap \in Nat /\ MinGap >= 16

VARIABLES
  count, fifo, wait_state, recv,
  last_slope_pos, peak_detected, counter, counter_prev,
  correlation_min, correlation_max, last_correlation_value,
  current_correlation_value, incomplete_correlation_value, pd_send,
  access, maxCorr, nios_send,
  correlation, cor_send, rest,   \* the correlation ASP; edges to its next result
  since                          \* history: results since the last peak

Peaks  == [kind : {"peak"}, count : 0 .. CountModulus - 1]
Halves == [kind : {"correlation"}, second : BOOLEAN, value : Results]
Words  == Peaks \cup Halves \cup {[kind |-> "count_read"]}

Net == INSTANCE TdmaMin WITH Idle <- NoWord
Pd  == INSTANCE PdAsp   WITH sendSignal <- pd_send
Cpu == INSTANCE Nios    WITH sendSignal <- nios_send

netVars == <<count, fifo, wait_state, recv>>
corVars == <<correlation, cor_send, rest>>
vars == <<netVars, Pd!pdVars, Cpu!niosVars, corVars, since>>

----------------------------------------------------------------------------
Port(n)  == ToUnsigned(n, Stages)
CorPort  == Port(3)
PdPort   == Port(4)
NiosPort == Port(7)

Silent == [addr |-> 0, data |-> NoWord]

SendSignal(p) == CASE p = CorPort  -> cor_send
                   [] p = PdPort   -> pd_send
                   [] p = NiosPort -> nios_send
                   [] OTHER        -> Silent

SendPort == [p \in Ports |-> [addr |-> Port(SendSignal(p).addr), data |-> SendSignal(p).data]]

Half(second, value) ==
  [addr |-> 4, data |-> [kind |-> "correlation", second |-> second, value |-> value]]

Init ==
  /\ Net!Init
  /\ Pd!PdInit
  /\ Cpu!NiosInit
  /\ correlation = 0 /\ cor_send = Silent /\ rest = 0
  /\ since = 0

(* The send part of the correlation ASP. Averages come to it in the slot   *)
(* that joins it to the averaging ASP, 2 xor 3.                            *)
SendFirstHalf ==
  /\ rest = 0 /\ count = Port(3)
  /\ correlation' \in Results
  /\ cor_send' = Half(FALSE, correlation')
  /\ rest' = MinGap - 1

SendSecondHalf ==
  /\ rest = MinGap - 1
  /\ cor_send' = Half(TRUE, correlation)
  /\ rest' = rest - 1
  /\ UNCHANGED correlation

SendNothing ==
  /\ rest # MinGap - 1
  /\ cor_send' = Silent
  /\ rest' = IF rest = 0 THEN 0 ELSE rest - 1
  /\ UNCHANGED correlation

Detects == Pd!Ready(recv[PdPort].data) /\ last_slope_pos /\ ~ last_slope_pos'

Edge ==
  /\ Pd!PdEdge(recv[PdPort].data)
  /\ Cpu!NiosEdge(recv[NiosPort].data)
  /\ SendFirstHalf \/ SendSecondHalf \/ SendNothing
  /\ Net!Edge(SendPort)
  /\ since' = IF Detects THEN 0 ELSE IF Pd!Ready(recv[PdPort].data) THEN since + 1 ELSE since

Spec == Init /\ [][Edge]_vars

(* The clock does not stop. *)
FairSpec == Spec /\ WF_vars(Edge)

----------------------------------------------------------------------------
(* Every queue and receive register holds only words that are sent, and    *)
(* the numbers keep their widths.                                          *)
TypeOK ==
  /\ Net!TypeOK
  /\ {counter, counter_prev, maxCorr} \subseteq 0 .. CountModulus - 1
  /\ access \in {"read", "addr", "data"}

(* The peak detector never joins the halves of two results, although each  *)
(* of them travels in a slot of its own (CorAsp send part, PdAsp           *)
(* incomplete_correlation_value).                                          *)
WholeResults ==
  [][Pd!Ready(recv[PdPort].data) => current_correlation_value' = correlation]_vars

(* The count at a peak is that of the results since the peak before, less  *)
(* the two at which the slope changes (PdAsp counter).                     *)
CountIsDistance == [][Detects => (counter_prev' + 1) % CountModulus = since % CountModulus]_vars

(* Nothing but acknowledgements for the peak detector is ever queued by    *)
(* the Nios, whose two send registers change at different clocks (gp2.c    *)
(* "Corr Read").                                                           *)
NiosAcknowledges ==
  \A i \in DOMAIN fifo[NiosPort] :
    fifo[NiosPort][i] = [addr |-> PdPort, data |-> [kind |-> "count_read"]]

(* Every peak comes to the receive register of the Nios, although its      *)
(* queue is full of copies of the one before, acknowledgements of that one *)
(* clear it, and nothing repeats it (PdAsp peak_detected).                 *)
EveryPeakDelivered ==
  \A c \in 0 .. CountModulus - 1 :
    peak_detected /\ counter_prev = c
      ~> recv[NiosPort].data = [kind |-> "peak", count |-> c]
=============================================================================
