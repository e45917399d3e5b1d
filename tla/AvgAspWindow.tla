---------------------------- MODULE AvgAspWindow ----------------------------
(***************************************************************************)
(* The moving-average core on its own, with history variables that no edge *)
(* of it reads: the samples it has taken, how many of them came since the  *)
(* last configuration packet, and whether a packet has ever made the       *)
(* window smaller after a sample: an 8-bit sample of zero moves the        *)
(* pointer and leaves nothing else. Any word may come at any edge.         *)
(***************************************************************************)
EXTENDS AvgAsp, Functions

CONSTANTS
  RawSamples,   \* The ten bits that a sample packet may carry.
  Intervals,    \* The correlation sample intervals that a packet may set.
  WindowCodes   \* The window codes that a packet may carry.

(* The accumulator is wide enough for a buffer of the largest samples:     *)
(* 64 * 1023 is below 2^16.                                                *)
ASSUME SamplesAssumption ==
  RawSamples \subseteq Nat /\ \A s \in RawSamples : MaxN * s < SumModulus
ASSUME PacketAssumption == Intervals \subseteq 0 .. 255 /\ WindowCodes \subseteq 0 .. 7

VARIABLES
  taken,     \* the last MaxN samples, the newest at 1; zeros before the first
  since,     \* samples since the last configuration packet, up to 2 * MaxN
  shrunk     \* the window has become smaller than what the buffer holds
windowVars == <<avgCoreVars, taken, since, shrunk>>

Words ==
  UNION {[kind : {"sample"}, ten_bits : BOOLEAN, value : RawSamples],
         [kind : {"avg_config"}, interval : Intervals, window : WindowCodes],
         [kind : {"other"}]}

Settled == 2 * MaxN   \* Bound of `since': no property looks further.

----------------------------------------------------------------------------
WindowInit ==
  /\ AvgCoreInit
  /\ taken = [k \in 1 .. MaxN |-> 0]
  /\ since = 0
  /\ shrunk = FALSE

TakeSample(word) ==
  /\ AvgSample(word)
  /\ taken' = [k \in 1 .. MaxN |-> IF k = 1 THEN SampleOf(word) ELSE taken[k - 1]]
  /\ since' = IF since < Settled THEN since + 1 ELSE since
  /\ UNCHANGED shrunk

Reconfigure(word) ==
  /\ AvgConfig(word)
  /\ since' = 0
  /\ shrunk' = \/ shrunk
               \/ avg_window_size' <= ptr
               \/ avg_window_size' < avg_window_size /\ \E k \in 1 .. MaxN : taken[k] # 0
  /\ UNCHANGED taken

Pass(word) == AvgNoSample(word) /\ UNCHANGED <<taken, since, shrunk>>

WindowNext == \E word \in Words : TakeSample(word) \/ Reconfigure(word) \/ Pass(word)

WindowSpec == WindowInit /\ [][WindowNext]_windowVars

----------------------------------------------------------------------------
Cells      == SumFunction(buffer_reg)
LastTaken(n) == SumFunctionOnSet(taken, 1 .. n)

(* Every register holds a value of its width; the pointer stays inside the *)
(* buffer also when the window changes under it.                           *)
CoreTypeOK ==
  /\ correlation_sample_interval \in 0 .. 255
  /\ correlation_sample_interval_counter \in 0 .. 255
  /\ avg_window_size \in 1 .. MaxN
  /\ buffer_reg \in [0 .. MaxN - 1 -> Nat]
  /\ sum_acc \in 0 .. SumModulus - 1
  /\ ptr \in 0 .. MaxN - 1
  /\ avg_data \in 0 .. SumModulus - 1
  /\ avg_ready \in BOOLEAN
  /\ corr_calculate \in BOOLEAN

(* The accumulator is the sum of all the cells of the buffer, whatever the *)
(* order of samples and configuration packets: adding the new sample and   *)
(* taking off the one it replaces never loses count, and never wraps       *)
(* (AvgAsp sum_acc, oldest).                                               *)
SumIsBuffer == sum_acc = Cells

(* Unless the window has been made smaller after a sample, the accumulator *)
(* is the sum of the last avg_window_size samples, from one full window    *)
(* after a packet that made it larger (AvgAsp ptr, avg_window_size).       *)
GrownWindowSum ==
  ~ shrunk /\ since >= avg_window_size => sum_acc = LastTaken(avg_window_size)

(* After any configuration packet and twice as many samples as the buffer  *)
(* has cells, the sum is that of the window: what a sample replaces is the *)
(* "oldest signal in the window" (AvgAsp.vhd:60).                          *)
SettledWindowSum ==
  since = Settled => sum_acc = LastTaken(avg_window_size)
=============================================================================
