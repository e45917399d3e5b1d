------------------------------- MODULE AvgAsp -------------------------------
(***************************************************************************)
(* The moving-average core of the averaging ASP. It keeps the last samples *)
(* in a circular buffer and their sum in an accumulator, hands out the     *)
(* accumulator at every sample, and raises corr_calculate at every         *)
(* correlation_sample_interval-th sample.                                  *)
(*                                                                         *)
(* A word on the receive port is a record: `kind' stands for the bits that *)
(* the decoders of the ASPs look at (31..28 and 23..20), the other fields  *)
(* for the payload. An edge of the clock is one step.                      *)
(***************************************************************************)
EXTENDS Naturals

CONSTANTS
  MaxN,         \* MAX_N, the length of the buffer.
  WindowSize,   \* The window that each three-bit configuration code selects.
  EightBits,    \* 2^8, what an 8-bit sample is below.
  SumModulus    \* 2^16, the width of the accumulator.

ASSUME MaxNAssumption   == MaxN \in Nat \ {0}
ASSUME WindowAssumption == WindowSize \in [0 .. 7 -> 1 .. MaxN]
ASSUME WidthAssumption  == EightBits \in Nat \ {0} /\ SumModulus \in Nat \ {0}

VARIABLES
  correlation_sample_interval,           \* samples per correlation
  correlation_sample_interval_counter,   \* samples since the last trigger
  avg_window_size,
  buffer_reg,
  sum_acc,
  ptr,                                   \* the cell the next sample goes to
  avg_data, avg_ready, corr_calculate    \* the outputs
avgCoreVars == <<correlation_sample_interval, correlation_sample_interval_counter,
                 avg_window_size, buffer_reg, sum_acc, ptr,
                 avg_data, avg_ready, corr_calculate>>

----------------------------------------------------------------------------
AvgCoreInit ==
  /\ correlation_sample_interval = 4
  /\ correlation_sample_interval_counter = 0
  /\ avg_window_size = MaxN
  /\ buffer_reg = [i \in 0 .. MaxN - 1 |-> 0]
  /\ sum_acc = 0
  /\ ptr = 0
  /\ avg_data = 0
  /\ avg_ready = FALSE
  /\ corr_calculate = FALSE

(* The configuration packet. Neither the buffer, the sum nor the pointer   *)
(* follows the new window, and the outputs keep their values.              *)
AvgConfig(word) ==
  /\ word.kind = "avg_config"
  /\ correlation_sample_interval' = word.interval
  /\ avg_window_size' = WindowSize[word.window]
  /\ UNCHANGED <<correlation_sample_interval_counter, buffer_reg, sum_acc, ptr,
                 avg_data, avg_ready, corr_calculate>>

(* A sample counts unless its ten bits are zero; of an 8-bit sample the    *)
(* upper two are then dropped.                                             *)
IsSample(word) == word.kind = "sample" /\ word.value # 0
SampleOf(word) == IF word.ten_bits THEN word.value ELSE word.value % EightBits

(* The accumulator when a new sample replaces the oldest one. *)
ReplaceKeepsOldest(sum, new, oldest) == (sum + new) % SumModulus   \* mutant
Replace(sum, new, oldest) == (sum + new + (SumModulus - oldest)) % SumModulus

(* The pointer, around the window of the moment. *)
AdvanceOver(p)   == p + 1            \* mutant: does not wrap
AdvanceBuffer(p) == (p + 1) % MaxN   \* mutant: wraps around the buffer
Advance(p) == (p + 1) % avg_window_size

AvgSample(word) ==
  /\ IsSample(word)
  /\ buffer_reg' = [buffer_reg EXCEPT ![ptr] = SampleOf(word)]
  /\ sum_acc' = Replace(sum_acc, SampleOf(word), buffer_reg[ptr])
  /\ ptr' = Advance(ptr)
  /\ avg_data' = sum_acc
  /\ avg_ready' = TRUE
  /\ corr_calculate' =
       (correlation_sample_interval_counter + 1 >= correlation_sample_interval)
  /\ correlation_sample_interval_counter' =
       IF corr_calculate' THEN 0 ELSE correlation_sample_interval_counter + 1
  /\ UNCHANGED <<correlation_sample_interval, avg_window_size>>

AvgNoSampleReady(word) ==   \* mutant: avg_ready is not cleared
  /\ word.kind # "avg_config" /\ ~ IsSample(word)
  /\ avg_data' = 0
  /\ UNCHANGED <<correlation_sample_interval, correlation_sample_interval_counter,
                 avg_window_size, buffer_reg, sum_acc, ptr, avg_ready, corr_calculate>>

AvgNoSample(word) ==
  /\ word.kind # "avg_config" /\ ~ IsSample(word)
  /\ avg_data' = 0
  /\ avg_ready' = FALSE
  /\ UNCHANGED <<correlation_sample_interval, correlation_sample_interval_counter,
                 avg_window_size, buffer_reg, sum_acc, ptr, corr_calculate>>

AvgCoreEdge(word) == AvgConfig(word) \/ AvgSample(word) \/ AvgNoSample(word)
=============================================================================
