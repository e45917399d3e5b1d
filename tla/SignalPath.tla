----------------------------- MODULE SignalPath -----------------------------
(***************************************************************************)
(* The sampling, averaging and correlation ASPs on the TDMA-MIN network.   *)
(* All of them are clocked by the same edge, so a step of the system is a  *)
(* step of each: every ASP reads what its receive register held before the *)
(* edge, and the network takes what the send ports held.                   *)
(*                                                                         *)
(* The peak detector only listens here. ReCOP is the environment: it sends *)
(* configuration packets at any edge, MaxConfigs of them in all.           *)
(***************************************************************************)
EXTENDS Integers, Sequences, FiniteSets, TdmaMinTypes

CONSTANTS
  Stages, Ports, Far, Depth,                                  \* the network
  SampleDelay, InitDelay,                                     \* ADCAsp
  MaxN, WindowSize, EightBits, SumModulus, RamSize,           \* AvgAsp_RAM
  CorWindow, InitWindow,                                      \* CorAsp
  NoWord,       \* the data word of a silent send port
  Samples,      \* values at the input of the ADC
  Configs,      \* what ReCOP may send: records with an address and a word
  MaxConfigs    \* bound on the configuration packets of a behaviour

(* Eight terminals, and an interface at each port that is driven. A queue  *)
(* holds the two halves of a result and a request.                         *)
ASSUME PortsAssumption ==
  /\ Stages = 3
  /\ Ports \subseteq [0 .. 2 -> BOOLEAN]
  /\ {ToUnsigned(n, 3) : n \in 1 .. 5} \subseteq Ports
  /\ Far \cap [0 .. 2 -> BOOLEAN] = {}
  /\ Depth \in Nat /\ Depth >= 3
ASSUME AspAssumption ==
  /\ SampleDelay \in [0 .. 7 -> Nat \ {0}] /\ InitDelay \in Nat \ {0}
  /\ MaxN \in Nat \ {0} /\ WindowSize \in [0 .. 7 -> 1 .. MaxN]
  /\ EightBits \in Nat \ {0} /\ SumModulus \in Nat \ {0} /\ RamSize \in Nat \ {0}
  /\ CorWindow \in [0 .. 7 -> Nat \ {0}] /\ InitWindow \in Nat \ {0}

(* What ReCOP sends is configuration packets, to any ports. *)
ConfigWords == [kind : {"adc_config"}, delay : 0 .. 7, ten_bits : BOOLEAN]
                 \cup [kind : {"avg_config"}, interval : 0 .. 255, window : 0 .. 7]
                 \cup [kind : {"cor_config"}, window : 0 .. 7]
ASSUME WordAssumption ==
  /\ Configs \subseteq [addr : Nat, data : ConfigWords] /\ MaxConfigs \in Nat
  /\ Samples \subseteq Nat
  /\ NoWord.kind = "none"

VARIABLES
  count, fifo, wait_state, recv,
  adc_sample_delay, adc_sample_delay_counter, bit_size, adc_send,
  correlation_sample_interval, correlation_sample_interval_counter,
  avg_window_size, buffer_reg, sum_acc, ptr, avg_data, avg_ready, corr_calculate,
  ram, ram_q, ram_raddr, ram_waddr, read_request, prev_corr_calculate, avg_send,
  state, correlation_window_size, counter, calculate, current_corr_origin,
  multiplicand_temp, correlation_pair_product, correlation,
  correlation_first_half, correlation_second_half, cor_send,
  cor_avg_data, avg_data_mem_addr, newest_avg_data_addr,
  send_avg_data_rq, has_send_avg_data_rq, just_recv_avg_data,
  recop_send,
  configs       \* configuration packets sent so far

(* The words that travel between the ASPs. *)
Address == 0 .. RamSize - 1
Words ==
  [kind : {"sample"}, ten_bits : BOOLEAN, value : Samples]
    \cup [kind : {"avg_request", "new_address"}, addr : Address]
    \cup [kind : {"average"}, calculate : BOOLEAN, value : 0 .. SumModulus - 1]
    \cup [kind : {"correlation"}, second : BOOLEAN, value : Nat]
    \cup {config.data : config \in Configs}

Net == INSTANCE TdmaMin   WITH Idle <- NoWord
Adc == INSTANCE ADCAsp    WITH sendSignal <- adc_send
Avg == INSTANCE AvgAspRAM WITH sendSignal <- avg_send
Cor == INSTANCE CorAsp    WITH sendSignal <- cor_send, avg_data <- cor_avg_data

netVars == <<count, fifo, wait_state, recv>>
vars == <<netVars, Adc!adcVars, Avg!avgVars, Cor!corVars, recop_send, configs>>

----------------------------------------------------------------------------
(* TopLevel: which ASP is behind which port. *)
Port(n)   == ToUnsigned(n, Stages)
AdcPort   == Port(1)
AvgPort   == Port(2)
CorPort   == Port(3)
PdPort    == Port(4)
RecopPort == Port(5)

Silent == [addr |-> 0, data |-> NoWord]

SendSignal(p) == CASE p = AdcPort   -> adc_send
                   [] p = AvgPort   -> avg_send
                   [] p = CorPort   -> cor_send
                   [] p = RecopPort -> recop_send
                   [] OTHER         -> Silent

SendPort == [p \in Ports |-> [addr |-> Port(SendSignal(p).addr), data |-> SendSignal(p).data]]

Init ==
  /\ Net!Init
  /\ Adc!AdcInit
  /\ Avg!AvgInit
  /\ Cor!CorInit
  /\ recop_send = Silent
  /\ configs = 0

RecopEdge ==
  \/ /\ recop_send' = Silent
     /\ UNCHANGED configs
  \/ /\ configs < MaxConfigs
     /\ recop_send' \in Configs
     /\ configs' = configs + 1

Edge(adc) ==
  /\ Adc!AdcEdge(recv[AdcPort].data, adc)
  /\ Avg!AvgEdge(recv[AvgPort].data)
  /\ Cor!CorEdge(recv[CorPort].data)
  /\ RecopEdge
  /\ Net!Edge(SendPort)

Next == \E adc \in Samples : Edge(adc)

Spec == Init /\ [][Next]_vars

(* The clock does not stop: weak fairness of Next, which is always         *)
(* enabled.                                                                *)
FairSpec == Spec /\ []<><<Next>>_vars

----------------------------------------------------------------------------
(* Every queue and receive register of the network holds only words that   *)
(* the ASPs send, and the addresses in the ASPs fit the memory.            *)
TypeOK ==
  /\ Net!TypeOK
  /\ ram \in [Address -> 0 .. SumModulus - 1]
  /\ {ram_raddr, ram_waddr} \subseteq Address
  /\ {newest_avg_data_addr, avg_data_mem_addr, current_corr_origin} \subseteq Address
  /\ configs \in 0 .. MaxConfigs

(* An exchange between the averaging and the correlation ASP is a token    *)
(* that moves through the network as a request and comes back as an        *)
(* average.                                                                *)
Carries(kind, packet) == packet.data.kind = kind
Queued(kind, p) == Cardinality({i \in DOMAIN fifo[p] : Carries(kind, fifo[p][i])})
One(holds) == IF holds THEN 1 ELSE 0

Tokens ==
    One(Carries("avg_request", cor_send))
  + Queued("avg_request", CorPort)
  + One(Carries("avg_request", recv[AvgPort]))
  + One(read_request)
  + One(Carries("average", avg_send))
  + Queued("average", AvgPort)
  + One(Carries("average", recv[CorPort]))
  + One(just_recv_avg_data)

(* The correlation ASP waits for an average exactly while one exchange is  *)
(* under way. It has no timeout, so that a request or an average lost in a *)
(* full queue, or a request that arrives while another is being answered,  *)
(* would stop it for good, and a second one would pair the wrong averages  *)
(* (CorAsp has_send_avg_data_rq, AvgAsp_RAM read_request).                 *)
OneExchange == Tokens = One(has_send_avg_data_rq)

(* Both halves of a result find room in the queue of the correlation ASP:  *)
(* it never holds more than the two halves and a request.                  *)
CorQueueBound == Len(fifo[CorPort]) <= 3

(* Every sample is stored and announced once: the configuration packet     *)
(* does not clear avg_ready, and only the slots of the senders keep it     *)
(* from arriving right after a sample (AvgAsp configuration branch).       *)
AverageStoredOnce == [][avg_ready => ~ avg_ready']_vars

(* The correlation ASP never waits for an average for ever (CorAsp S0-S3). *)
CorKeepsFetching == []<>Carries("average", recv[CorPort])

(* A trigger leads to a result for the peak detector (AvgAsp_RAM           *)
(* prev_corr_calculate, CorAsp calculate).                                 *)
TriggerLeadsToResult == corr_calculate ~> correlation_second_half

(* An answer holds the cell that was asked for (AvgAsp_RAM, "Latch new     *)
(* read address" and "Send Q From RAM").                                   *)
AnswerIsRequestedCell ==
  [][~ avg_ready /\ read_request => avg_send'.data.value = ram[ram_raddr]]_vars
=============================================================================
