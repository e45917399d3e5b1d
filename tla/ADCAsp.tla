------------------------------- MODULE ADCAsp -------------------------------
(***************************************************************************)
(* The sampling ASP: every adc_sample_delay clocks it sends the sample at  *)
(* its input to the averaging ASP. An edge of the clock is one step.       *)
(***************************************************************************)
EXTENDS Naturals

CONSTANTS
  SampleDelay,   \* The delay that each three-bit configuration code selects.
  InitDelay,     \* The delay at power-up, 16.
  NoWord         \* The data word of a send port that drives zeros.

VARIABLES adc_sample_delay, adc_sample_delay_counter, bit_size, sendSignal
adcVars == <<adc_sample_delay, adc_sample_delay_counter, bit_size, sendSignal>>

AvgAddr == 2

----------------------------------------------------------------------------
AdcInit ==
  /\ adc_sample_delay = InitDelay
  /\ adc_sample_delay_counter = 0
  /\ bit_size = FALSE
  /\ sendSignal = [addr |-> 0, data |-> NoWord]

(* bit_size is driven again at every edge: an 8-bit setting lasts for the  *)
(* one clock after the packet that asks for it.                            *)
Configure(word) ==
  /\ adc_sample_delay' =
       IF word.kind = "adc_config" THEN SampleDelay[word.delay] ELSE adc_sample_delay
  /\ bit_size' = ~ (word.kind = "adc_config" /\ ~ word.ten_bits)

(* The counter is reset and then counts the edge itself. *)
Sample(adc) ==
  /\ adc_sample_delay_counter >= adc_sample_delay
  /\ adc_sample_delay_counter' = 1
  /\ sendSignal' = [addr |-> AvgAddr,
                    data |-> [kind |-> "sample", ten_bits |-> bit_size, value |-> adc]]

Wait ==
  /\ adc_sample_delay_counter < adc_sample_delay
  /\ adc_sample_delay_counter' = adc_sample_delay_counter + 1
  /\ sendSignal' = [addr |-> 0, data |-> NoWord]

AdcEdge(word, adc) == Configure(word) /\ (Sample(adc) \/ Wait)
=============================================================================
