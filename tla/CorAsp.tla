------------------------------- MODULE CorAsp -------------------------------
(***************************************************************************)
(* The correlation ASP: it fetches averages from the averaging ASP one at  *)
(* a time, multiplies them in pairs, and sends the sum of the products to  *)
(* the peak detector in two halves. In S0 it fetches and discards averages *)
(* until one comes with the flag that asks for a correlation.              *)
(*                                                                         *)
(* An edge of the clock is one step. The VHDL process has variables, whose *)
(* assignments take effect at once, and signals, which change at the edge. *)
(***************************************************************************)
EXTENDS Naturals

CONSTANTS
  RamSize,     \* Addresses of the averaging ASP's memory, 2^10.
  CorWindow,   \* The window that each three-bit configuration code selects.
  InitWindow,  \* The window at power-up, 4.
  NoWord       \* The data word of a send port that drives zeros.

ASSUME CorAssumption ==
  /\ RamSize \in Nat \ {0}
  /\ CorWindow \in [0 .. 7 -> Nat \ {0}]
  /\ InitWindow \in Nat \ {0}

VARIABLES
  state,
  correlation_window_size,
  counter,                       \* pairs multiplied so far
  calculate,                     \* a correlation has been asked for
  current_corr_origin,
  multiplicand_temp, correlation_pair_product, correlation,
  correlation_first_half, correlation_second_half,   \* halves still to send
  sendSignal,
  avg_data,                      \* the variables of the process
  avg_data_mem_addr,
  newest_avg_data_addr,
  send_avg_data_rq,              \* a request is wanted
  has_send_avg_data_rq,          \* a request is out
  just_recv_avg_data             \* an average has come and not been used
corVars == <<state, correlation_window_size, counter, calculate,
             current_corr_origin, multiplicand_temp, correlation_pair_product,
             correlation, correlation_first_half, correlation_second_half,
             sendSignal, avg_data, avg_data_mem_addr, newest_avg_data_addr,
             send_avg_data_rq, has_send_avg_data_rq, just_recv_avg_data>>

AvgAddr == 2
PdAddr  == 4

Half == correlation_window_size \div 2

----------------------------------------------------------------------------
CorInit ==
  /\ state = "S0"
  /\ correlation_window_size = InitWindow
  /\ counter = 0
  /\ calculate = FALSE
  /\ current_corr_origin = 0
  /\ multiplicand_temp = 0
  /\ correlation_pair_product = 0
  /\ correlation = 0
  /\ correlation_first_half = FALSE
  /\ correlation_second_half = FALSE
  /\ sendSignal = [addr |-> 0, data |-> NoWord]
  /\ avg_data = 0
  /\ avg_data_mem_addr = 0
  /\ newest_avg_data_addr = 0
  /\ send_avg_data_rq = FALSE
  /\ has_send_avg_data_rq = FALSE
  /\ just_recv_avg_data = FALSE

(* Decoding the received word. *)
Receive(word) ==
  /\ correlation_window_size' =
       IF word.kind = "cor_config" THEN CorWindow[word.window] ELSE correlation_window_size
  /\ avg_data' = IF word.kind = "average" THEN word.value ELSE avg_data
  /\ newest_avg_data_addr' =
       IF word.kind = "new_address" THEN word.addr ELSE newest_avg_data_addr

(* The values of the process's flags after the word has been decoded. *)
Got(word)   == just_recv_avg_data \/ word.kind = "average"
Asked(word) == word.kind = "average" /\ word.calculate

AddrMinusOver(a, n) == a + (RamSize - (n % RamSize))   \* mutant: does not wrap
AddrMinus(a, n) == (a + (RamSize - (n % RamSize))) % RamSize

(* The address that each state fetches from, on ten bits: the newest       *)
(* average less Half - 1, and then one step further on either side of the  *)
(* origin for every pair. With a window of 1 the code subtracts the ten    *)
(* bits of -1 (to_unsigned of a negative number, which stops a simulator   *)
(* and wraps in the circuit).                                              *)
FetchAddrClose ==   \* mutant: on the left one address too close to the origin
  IF state = "S0" THEN (AddrMinus(newest_avg_data_addr', Half) + 1) % RamSize
  ELSE IF state = "S1" THEN AddrMinus(current_corr_origin, counter)
  ELSE (current_corr_origin + counter) % RamSize
FetchAddr ==
  IF state = "S0" THEN (AddrMinus(newest_avg_data_addr', Half) + 1) % RamSize
  ELSE IF state = "S1" THEN AddrMinus(current_corr_origin, counter + 1)
  ELSE (current_corr_origin + counter) % RamSize

(* Waiting for an average; a request is wanted if none is out. *)
Await(word) ==
  /\ state \in {"S0", "S1", "S3"} /\ ~ Got(word)
  /\ avg_data_mem_addr' = IF has_send_avg_data_rq THEN avg_data_mem_addr ELSE FetchAddr
  /\ calculate' = (calculate \/ Asked(word))
  /\ just_recv_avg_data' = FALSE
  /\ UNCHANGED <<state, counter, current_corr_origin, multiplicand_temp,
                 correlation_pair_product, correlation>>

(* An average comes in S0. The flag is the one of an earlier average: this *)
(* average's own has not reached the signal yet, and is lost when the      *)
(* correlation starts.                                                     *)
Discard(word) ==
  /\ state = "S0" /\ Got(word) /\ ~ calculate
  /\ calculate' = Asked(word)
  /\ counter' = 0 /\ correlation_pair_product' = 0 /\ multiplicand_temp' = 0
  /\ just_recv_avg_data' = FALSE
  /\ UNCHANGED <<state, current_corr_origin, correlation, avg_data_mem_addr>>

Start(word) ==
  /\ state = "S0" /\ Got(word) /\ calculate
  /\ state' = "S1"
  /\ calculate' = FALSE
  /\ counter' = 0 /\ correlation_pair_product' = 0 /\ correlation' = 0
  /\ multiplicand_temp' = avg_data'
  /\ current_corr_origin' = avg_data_mem_addr
  /\ just_recv_avg_data' = FALSE
  /\ UNCHANGED avg_data_mem_addr

Multiply(word) ==
  /\ state = "S1" /\ Got(word)
  /\ state' = "S2"
  /\ correlation_pair_product' = multiplicand_temp * avg_data'
  /\ calculate' = (calculate \/ Asked(word))
  /\ just_recv_avg_data' = FALSE
  /\ UNCHANGED <<counter, current_corr_origin, multiplicand_temp, correlation,
                 avg_data_mem_addr>>

CountPair(word) ==
  /\ state = "S2"
  /\ state' = "S3"
  /\ counter' = counter + 1
  /\ calculate' = (calculate \/ Asked(word))
  /\ just_recv_avg_data' = Got(word)
  /\ UNCHANGED <<current_corr_origin, multiplicand_temp, correlation_pair_product,
                 correlation, avg_data_mem_addr>>

Accumulate(word) ==
  /\ state = "S3" /\ Got(word)
  /\ correlation' = correlation + correlation_pair_product
  /\ correlation_pair_product' = 0
  /\ IF counter >= Half
     THEN state' = "S0" /\ counter' = 0 /\ UNCHANGED multiplicand_temp
     ELSE state' = "S1" /\ multiplicand_temp' = avg_data' /\ UNCHANGED counter
  /\ calculate' = (calculate \/ Asked(word))
  /\ just_recv_avg_data' = FALSE
  /\ UNCHANGED <<current_corr_origin, avg_data_mem_addr>>

Machine(word) == \/ Await(word)    \/ Discard(word)   \/ Start(word)
                 \/ Multiply(word) \/ CountPair(word) \/ Accumulate(word)

(* Both halves become due at the edge that completes the correlation. *)
CompletesLate(word) == state = "S3" /\ Got(word) /\ counter > Half   \* mutant
Completes(word) == state = "S3" /\ Got(word) /\ counter >= Half

----------------------------------------------------------------------------
(* What the send part of the process finds in its two request flags. *)
WantedAgain(word) ==   \* mutant: also while a request is out
  send_avg_data_rq \/ (state # "S2" /\ ~ Got(word))
Wanted(word) ==
  send_avg_data_rq \/ (state # "S2" /\ ~ Got(word) /\ ~ has_send_avg_data_rq)
OutKept(word) ==   \* mutant: not reset in S1
  has_send_avg_data_rq /\ (state \in {"S1", "S2"} \/ ~ Got(word))
OutOnce(word) == FALSE   \* mutant: lasts one clock
Out(word) == has_send_avg_data_rq /\ (state = "S2" \/ ~ Got(word))

SendFirstHalf(word) ==
  /\ correlation_first_half
  /\ sendSignal' = [addr |-> PdAddr,
                    data |-> [kind |-> "correlation", second |-> FALSE, value |-> correlation]]
  /\ correlation_first_half' = FALSE
  /\ correlation_second_half' = (correlation_second_half \/ Completes(word))
  /\ send_avg_data_rq' = Wanted(word)
  /\ has_send_avg_data_rq' = Out(word)

SendSecondHalf(word) ==
  /\ ~ correlation_first_half /\ correlation_second_half
  /\ sendSignal' = [addr |-> PdAddr,
                    data |-> [kind |-> "correlation", second |-> TRUE, value |-> correlation]]
  /\ correlation_first_half' = Completes(word)
  /\ correlation_second_half' = FALSE
  /\ send_avg_data_rq' = Wanted(word)
  /\ has_send_avg_data_rq' = Out(word)

NoHalfFirst(word) ==   \* mutant: the second half may wait
  /\ ~ correlation_first_half
  /\ correlation_first_half' = Completes(word)
  /\ correlation_second_half' = (correlation_second_half \/ Completes(word))
NoHalf(word) ==
  /\ ~ correlation_first_half /\ ~ correlation_second_half
  /\ correlation_first_half' = Completes(word)
  /\ correlation_second_half' = Completes(word)

SendRequest(word) ==
  /\ NoHalf(word)
  /\ Wanted(word) /\ ~ Out(word)
  /\ sendSignal' = [addr |-> AvgAddr,
                    data |-> [kind |-> "avg_request", addr |-> avg_data_mem_addr']]
  /\ send_avg_data_rq' = FALSE
  /\ has_send_avg_data_rq' = TRUE

SendNothing(word) ==
  /\ NoHalf(word)
  /\ ~ (Wanted(word) /\ ~ Out(word))
  /\ sendSignal' = [addr |-> 0, data |-> NoWord]
  /\ send_avg_data_rq' = Wanted(word)
  /\ has_send_avg_data_rq' = Out(word)

Transmit(word) == \/ SendFirstHalf(word) \/ SendSecondHalf(word)
                  \/ SendRequest(word)   \/ SendNothing(word)

CorEdge(word) == Receive(word) /\ Machine(word) /\ Transmit(word)
=============================================================================
