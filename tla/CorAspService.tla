--------------------------- MODULE CorAspService ---------------------------
(***************************************************************************)
(* The correlation ASP with a service that answers each of its requests    *)
(* after any time, which is what its testbench does in place of the        *)
(* averaging ASP. An answer may be any average, as the averages change.    *)
(* Averages are announced and configuration packets come at any edge.      *)
(***************************************************************************)
EXTENDS CorAsp, Functions

CONSTANTS
  Averages,     \* What an average may be.
  WindowCodes,  \* The window codes that a configuration packet may carry.
  Others        \* Words that the ASP does not look at.

Address == 0 .. RamSize - 1

ASSUME AveragesAssumption == Averages \subseteq Nat
ASSUME CodesAssumption    == WindowCodes \subseteq 0 .. 7
ASSUME NoWordAssumption   == NoWord.kind = "none"
ASSUME OthersAssumption   ==
  \A word \in Others : word.kind \notin {"average", "new_address", "cor_config"}

VARIABLES
  pending,    \* the requests not answered yet: a set of addresses
  answered,   \* history: the last answer for each address
  ends,       \* history: the newest address when the origin was asked for
  steady      \* history: no configuration packet has come since then
history     == <<answered, ends, steady>>
serviceVars == <<corVars, pending, history>>

Requests == IF sendSignal.data.kind = "avg_request" THEN {sendSignal.data.addr} ELSE {}

(* The words that the ASP may find in its receive register at an edge. *)
Words ==
  UNION {Others,
         [kind : {"new_address"}, addr : Address],
         [kind : {"cor_config"}, window : WindowCodes],
         IF pending = {} THEN {}
         ELSE [kind : {"average"}, calculate : BOOLEAN, value : Averages]}

----------------------------------------------------------------------------
InitHistory ==
  /\ answered = [a \in Address |-> 0]
  /\ ends = 0
  /\ steady = TRUE

ServiceInit ==
  /\ CorInit
  /\ pending = {}
  /\ InitHistory

(* What is remembered of an edge.                                          *)
Remember(word) ==
  /\ answered' = [a \in Address |-> IF word.kind = "average" /\ a \in pending
                                    THEN word.value ELSE answered[a]]
  /\ IF state = "S0" /\ ~ Got(word) /\ ~ has_send_avg_data_rq
     THEN ends' = newest_avg_data_addr' /\ steady' = (word.kind # "cor_config")
     ELSE ends' = ends /\ steady' = (steady /\ word.kind # "cor_config")

ServiceEdge(word) ==
  /\ CorEdge(word)
  /\ pending' = IF word.kind = "average" THEN Requests ELSE pending \cup Requests
  /\ Remember(word)

ServiceNext == \E word \in Words : ServiceEdge(word)

ServiceSpec == ServiceInit /\ [][ServiceNext]_serviceVars

----------------------------------------------------------------------------
(* Every register holds a value of its kind, and only addresses of the     *)
(* averaging ASP's memory are asked for.                                   *)
CorTypeOK ==
  /\ state \in {"S0", "S1", "S2", "S3"}
  /\ correlation_window_size \in Nat \ {0}
  /\ counter \in Nat
  /\ calculate \in BOOLEAN
  /\ correlation_first_half \in BOOLEAN /\ correlation_second_half \in BOOLEAN
  /\ send_avg_data_rq \in BOOLEAN /\ has_send_avg_data_rq \in BOOLEAN
  /\ just_recv_avg_data \in BOOLEAN
  /\ current_corr_origin \in Address /\ avg_data_mem_addr \in Address
  /\ newest_avg_data_addr \in Address
  /\ multiplicand_temp \in Nat /\ avg_data \in Nat
  /\ correlation_pair_product \in Nat /\ correlation \in Nat
  /\ pending \subseteq Address /\ Requests \subseteq Address
  /\ answered \in [Address -> Nat]

(* The ASP never has two requests out, and while it waits there is one: on *)
(* its send port or with the service. A request wanted is not yet out.     *)
(* Without this it would pair the wrong averages, or wait for ever, as no  *)
(* request is ever repeated (CorAsp send_avg_data_rq,                      *)
(* has_send_avg_data_rq).                                                  *)
OneRequestOut ==
  /\ pending = {} \/ Requests = {}
  /\ \A a, b \in pending : a = b
  /\ (pending \cup Requests # {} \/ just_recv_avg_data) <=> has_send_avg_data_rq
  /\ ~ (send_avg_data_rq /\ has_send_avg_data_rq)

(* The two halves of a result leave while the result is still in its       *)
(* register: no new correlation clears it between them, however fast the   *)
(* averages come (CorAsp S0 and its send part).                            *)
HalvesOfOneResult ==
  [][correlation_first_half \/ correlation_second_half
       => correlation' = correlation]_serviceVars

(* The last answer for the address n places before the end of the window,  *)
(* modulo the memory.                                                      *)
Back(n) == answered[(ends + (RamSize - (n % RamSize))) % RamSize]

(* A correlation that no configuration packet disturbs is the sum of the   *)
(* products of the pairs around the middle of its window: with w averages  *)
(* up to the newest one, the pair k counts outwards from the middle        *)
(* (CorAsp S1 - S3: the addresses, the counter and the pair product). The  *)
(* memory holds the whole window.                                          *)
WindowSum == SumFunction([k \in 0 .. Half - 1 |-> Back(Half - 1 - k) * Back(Half + k)])

WindowFits == Half > 0 /\ 2 * Half <= RamSize
CorrelationIsWindowSum ==
  [][state = "S3" /\ state' = "S0" /\ steady /\ WindowFits
       => correlation' = WindowSum]_serviceVars
=============================================================================
