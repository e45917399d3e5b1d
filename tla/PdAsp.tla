------------------------------- MODULE PdAsp -------------------------------
(***************************************************************************)
(* The peak detection ASP: it joins the halves of the correlations, counts *)
(* them, and sends the count to the Nios at every maximum, again at every  *)
(* clock until the Nios says that it has read it.                          *)
(*                                                                         *)
(* The registers that nothing reads are left out: peak_type, send_half,    *)
(* peak_detect_sent and what an acknowledgement says in its two low bits.  *)
(***************************************************************************)
EXTENDS Naturals

CONSTANTS
  HalfSize,       \* 2^18, what a half of a correlation is below.
  CountModulus,   \* 2^18, the width of the counter.
  NoWord          \* The data word of a send port that drives zeros.

VARIABLES
  last_slope_pos,                  \* the correlation was rising
  peak_detected,                   \* a peak is being sent
  counter, counter_prev,
  correlation_min, correlation_max,
  last_correlation_value, current_correlation_value,
  incomplete_correlation_value,    \* the halves received last
  sendSignal
pdVars == <<last_slope_pos, peak_detected, counter, counter_prev,
            correlation_min, correlation_max, last_correlation_value,
            current_correlation_value, incomplete_correlation_value, sendSignal>>

NiosAddr == 7

----------------------------------------------------------------------------
PdInit ==
  /\ last_slope_pos = FALSE
  /\ peak_detected = FALSE
  /\ counter = 0 /\ counter_prev = 0
  /\ correlation_min = 0 /\ correlation_max = 0
  /\ last_correlation_value = 0
  /\ current_correlation_value = 0
  /\ incomplete_correlation_value = 0
  /\ sendSignal = [addr |-> 0, data |-> NoWord]

IsHalf(word) == word.kind = "correlation"
Ready(word)  == IsHalf(word) /\ word.second

(* The upper bits of one number and the lower ones of another. *)
JoinUpper(upper, lower) == upper - (upper % HalfSize)   \* mutant: the lower half is lost
Join(upper, lower) == (upper - (upper % HalfSize)) + (lower % HalfSize)

Receive(word) ==
  /\ incomplete_correlation_value' =
       IF ~ IsHalf(word) THEN incomplete_correlation_value
       ELSE IF word.second THEN Join(incomplete_correlation_value, word.value)
       ELSE Join(word.value, incomplete_correlation_value)
  /\ IF Ready(word)
     THEN /\ last_correlation_value' = current_correlation_value
          /\ current_correlation_value' = incomplete_correlation_value'
     ELSE UNCHANGED <<last_correlation_value, current_correlation_value>>

Rises == current_correlation_value' > last_correlation_value'
Falls == current_correlation_value' < last_correlation_value'

CountOver == counter' = counter + 1   \* mutant: does not wrap
Count == counter' = (counter + 1) % CountModulus

AfterPeakKeeps == counter   \* mutant: the counter is not started again
AfterPeak == 0

(* The slope goes on. *)
Continue(word) ==
  /\ Ready(word)
  /\ IF last_slope_pos THEN Rises ELSE Falls
  /\ Count
  /\ UNCHANGED <<last_slope_pos, peak_detected, counter_prev,
                 correlation_min, correlation_max>>

Peak(word) ==
  /\ Ready(word) /\ last_slope_pos /\ ~ Rises
  /\ correlation_max' = IF last_correlation_value' > correlation_max
                        THEN last_correlation_value' ELSE correlation_max
  /\ last_slope_pos' = FALSE /\ peak_detected' = TRUE
  /\ counter_prev' = counter
  /\ counter' = AfterPeak
  /\ UNCHANGED correlation_min

Trough(word) ==
  /\ Ready(word) /\ ~ last_slope_pos /\ ~ Falls
  /\ correlation_min' = IF last_correlation_value' < correlation_min
                        THEN last_correlation_value' ELSE correlation_min
  /\ last_slope_pos' = TRUE
  /\ UNCHANGED <<peak_detected, counter, counter_prev, correlation_max>>

(* No correlation is complete; an acknowledgement ends the sending. *)
NoResult(word) ==
  /\ ~ Ready(word)
  /\ peak_detected' = (peak_detected /\ word.kind # "count_read")
  /\ UNCHANGED <<last_slope_pos, counter, counter_prev, correlation_min, correlation_max>>

PeakPacketRunning ==   \* mutant: the counter that runs
  [addr |-> NiosAddr, data |-> [kind |-> "peak", count |-> counter]]
PeakPacket == [addr |-> NiosAddr, data |-> [kind |-> "peak", count |-> counter_prev]]

(* The send part looks at peak_detected as it was before the edge. *)
Transmit ==
  sendSignal' = IF peak_detected THEN PeakPacket ELSE [addr |-> 0, data |-> NoWord]

PdEdge(word) ==
  /\ Receive(word)
  /\ Continue(word) \/ Peak(word) \/ Trough(word) \/ NoResult(word)
  /\ Transmit
=============================================================================
