------------------------ MODULE CorAspServiceProofs ------------------------
(***************************************************************************)
(* Proofs about the correlation ASP and a service of any speed, for every  *)
(* size of the memory, every window and every average.                     *)
(***************************************************************************)
EXTENDS CorAspService, Sums, Integers, TLAPS

----------------------------------------------------------------------------
(* Types.                                                                  *)

(* Addresses wrap around the memory. *)
LEMMA FetchAddrType ==
  ASSUME CorTypeOK, newest_avg_data_addr' \in Address, state \in {"S0", "S1", "S3"}
  PROVE  FetchAddr \in Address
<1> USE CorAssumption
<1>1. RamSize \in Nat /\ RamSize > 0 /\ Half \in Nat /\ counter \in Nat
  BY DEF CorTypeOK, Half
<1>2. ASSUME NEW a \in Address, NEW n \in Nat PROVE AddrMinus(a, n) \in Address
  <2>1. n % RamSize \in 0 .. RamSize - 1 BY <1>1
  <2>2. a + (RamSize - (n % RamSize)) \in Nat BY <2>1, <1>1 DEF Address
  <2> QED BY <2>2, <1>1 DEF Address, AddrMinus
<1>3. ASSUME NEW n \in Nat PROVE n % RamSize \in Address BY <1>1 DEF Address
<1>4. Address \subseteq Nat BY <1>1 DEF Address
<1>5. current_corr_origin \in Address BY DEF CorTypeOK
<1>6. CASE state = "S0"
  <2>1. PICK newest \in Address : newest = newest_avg_data_addr' OBVIOUS
  <2>2. Half \in Nat BY <1>1
  <2>3. AddrMinus(newest, Half) \in Address BY <2>2, <1>2
  <2>4. AddrMinus(newest, Half) \in Nat BY <2>3, <1>4
  <2>5. AddrMinus(newest, Half) + 1 \in Nat BY <2>4
  <2> QED BY <2>1, <2>5, <1>3, <1>6 DEF FetchAddr
<1>7. CASE state = "S1"
  BY <1>7, <1>1, <1>2, <1>5 DEF FetchAddr
<1>8. CASE state = "S3"
  <2>1. current_corr_origin + counter \in Nat BY <1>1, <1>4, <1>5
  <2> QED BY <2>1, <1>3, <1>8 DEF FetchAddr
<1> QED BY <1>6, <1>7, <1>8

(* What the received words carry. *)
LEMMA WordType ==
  ASSUME CorTypeOK, NEW word \in Words
  PROVE  /\ word.kind = "average" => /\ word.value \in Nat
                                     /\ word.calculate \in BOOLEAN
                                     /\ pending # {}
         /\ word.kind = "new_address" => word.addr \in Address
         /\ word.kind = "cor_config" => word.window \in 0 .. 7
<1>1. CASE word \in Others
  BY <1>1, OthersAssumption
<1>2. CASE word \in [kind : {"new_address"}, addr : Address]
  BY <1>2
<1>3. CASE word \in [kind : {"cor_config"}, window : WindowCodes]
  BY <1>3, CodesAssumption
<1>4. CASE pending # {} /\ word \in [kind : {"average"}, calculate : BOOLEAN, value : Averages]
  BY <1>4, AveragesAssumption
<1> QED BY <1>1, <1>2, <1>3, <1>4 DEF Words

LEMMA InitType == ServiceInit => CorTypeOK
<1> SUFFICES ASSUME ServiceInit PROVE CorTypeOK
  OBVIOUS
<1>1. RamSize \in Nat /\ RamSize > 0 /\ InitWindow \in Nat \ {0} BY CorAssumption
<1>2. Requests = {} BY NoWordAssumption DEF ServiceInit, CorInit, Requests
<1>3. 0 \in Address BY <1>1 DEF Address
<1>4. answered \in [Address -> Nat] BY DEF ServiceInit, InitHistory
<1> QED BY <1>1, <1>2, <1>3, <1>4 DEF ServiceInit, CorInit, CorTypeOK

(* The part of an edge that decodes the word. *)
LEMMA ReceiveType ==
  ASSUME CorTypeOK, NEW word \in Words, Receive(word)
  PROVE  /\ correlation_window_size' \in Nat \ {0}
         /\ avg_data' \in Nat
         /\ newest_avg_data_addr' \in Address
<1>1. correlation_window_size' \in Nat \ {0}
  BY WordType, CorAssumption DEF CorTypeOK, Receive
<1>2. avg_data' \in Nat
  BY WordType DEF CorTypeOK, Receive
<1>3. newest_avg_data_addr' \in Address
  BY WordType DEF CorTypeOK, Receive
<1> QED BY <1>1, <1>2, <1>3

(* The part that runs the state machine. *)
LEMMA MachineType ==
  ASSUME CorTypeOK, NEW word \in Words, Receive(word), Machine(word)
  PROVE  /\ state' \in {"S0", "S1", "S2", "S3"}
         /\ counter' \in Nat
         /\ calculate' \in BOOLEAN /\ just_recv_avg_data' \in BOOLEAN
         /\ current_corr_origin' \in Address /\ avg_data_mem_addr' \in Address
         /\ multiplicand_temp' \in Nat
         /\ correlation_pair_product' \in Nat /\ correlation' \in Nat
<1> USE DEF CorTypeOK
<1>1. Asked(word) \in BOOLEAN /\ Got(word) \in BOOLEAN BY DEF Asked, Got
<1>2. avg_data' \in Nat BY ReceiveType
<1>3. CASE Await(word)
  <2>1. FetchAddr \in Address BY <1>3, FetchAddrType, ReceiveType DEF Await
  <2>2. avg_data_mem_addr' \in Address BY <2>1, <1>3 DEF Await
  <2> QED BY <2>2, <1>1, <1>3 DEF Await
<1>4. CASE Discard(word)
  BY <1>1, <1>4 DEF Discard
<1>5. CASE Start(word)
  BY <1>2, <1>5 DEF Start
<1>6. CASE Multiply(word)
  <2>1. PICK a \in Nat, b \in Nat : a = multiplicand_temp /\ b = avg_data' BY <1>2
  <2>2. a * b \in Nat OBVIOUS
  <2>3. correlation_pair_product' \in Nat BY <2>1, <2>2, <1>6 DEF Multiply
  <2> QED BY <2>3, <1>1, <1>6 DEF Multiply
<1>7. CASE CountPair(word)
  BY <1>1, <1>7 DEF CountPair
<1>8. CASE Accumulate(word)
  <2>1. correlation + correlation_pair_product \in Nat OBVIOUS
  <2>2. state' \in {"S0", "S1"} BY <1>8 DEF Accumulate
  <2>3. counter' \in Nat BY <1>8 DEF Accumulate
  <2>4. multiplicand_temp' \in Nat BY <1>2, <1>8 DEF Accumulate
  <2>5. calculate' \in BOOLEAN /\ just_recv_avg_data' \in BOOLEAN
    BY <1>1, <1>8 DEF Accumulate
  <2>6. /\ correlation_pair_product' \in Nat /\ correlation' \in Nat
        /\ current_corr_origin' \in Address /\ avg_data_mem_addr' \in Address
    BY <2>1, <1>8 DEF Accumulate
  <2> QED BY <2>2, <2>3, <2>4, <2>5, <2>6
<1> QED BY <1>3, <1>4, <1>5, <1>6, <1>7, <1>8 DEF Machine

(* The part that sends: what is on the send port, and the request flags. *)
LEMMA TransmitRequests ==
  ASSUME NEW word, Transmit(word)
  PROVE  /\ SendRequest(word) => Requests' = {avg_data_mem_addr'}
         /\ ~ SendRequest(word) => Requests' = {}
<1>1. CASE SendRequest(word)
  <2>1. sendSignal'.data = [kind |-> "avg_request", addr |-> avg_data_mem_addr']
    BY <1>1 DEF SendRequest
  <2> QED BY <1>1, <2>1 DEF Requests
<1>2. CASE ~ SendRequest(word)
  <2>1. sendSignal'.data.kind \in {"correlation", "none"}
    BY <1>2, NoWordAssumption DEF Transmit, SendFirstHalf, SendSecondHalf, SendNothing
  <2> QED BY <1>2, <2>1 DEF Requests
<1> QED BY <1>1, <1>2

LEMMA TransmitType ==
  ASSUME CorTypeOK, NEW word, Transmit(word), avg_data_mem_addr' \in Address
  PROVE  /\ correlation_first_half' \in BOOLEAN /\ correlation_second_half' \in BOOLEAN
         /\ send_avg_data_rq' \in BOOLEAN /\ has_send_avg_data_rq' \in BOOLEAN
         /\ Requests' \subseteq Address
<1>1. /\ Wanted(word) \in BOOLEAN /\ Out(word) \in BOOLEAN /\ Completes(word) \in BOOLEAN
  BY DEF CorTypeOK, Wanted, Out, Completes
<1>2. Requests' \subseteq Address
  BY TransmitRequests
<1>3. /\ correlation_first_half' \in BOOLEAN /\ correlation_second_half' \in BOOLEAN
      /\ send_avg_data_rq' \in BOOLEAN /\ has_send_avg_data_rq' \in BOOLEAN
  BY <1>1 DEF CorTypeOK, Transmit, SendFirstHalf, SendSecondHalf, SendRequest, SendNothing, NoHalf
<1> QED BY <1>2, <1>3

LEMMA NextType == CorTypeOK /\ [ServiceNext]_serviceVars => CorTypeOK'
<1> SUFFICES ASSUME CorTypeOK, [ServiceNext]_serviceVars PROVE CorTypeOK'
  OBVIOUS
<1>1. CASE UNCHANGED serviceVars
  BY <1>1 DEF CorTypeOK, serviceVars, corVars, history, Requests, Address
<1>2. ASSUME NEW word \in Words, ServiceEdge(word) PROVE CorTypeOK'
  <2>1. Receive(word) /\ Machine(word) /\ Transmit(word) BY <1>2 DEF ServiceEdge, CorEdge
  <2>2. pending' \subseteq Address BY <1>2 DEF ServiceEdge, CorTypeOK
  <2>3. avg_data_mem_addr' \in Address BY <2>1, MachineType
  <2>4. answered' \in [Address -> Nat]
    <3>1. word.kind = "average" => word.value \in Nat BY WordType
    <3> QED BY <1>2, <3>1 DEF ServiceEdge, Remember, CorTypeOK
  <2> QED BY <2>1, <2>2, <2>3, <2>4, ReceiveType, MachineType, TransmitType
          DEF CorTypeOK, Address
<1> QED BY <1>1, <1>2 DEF ServiceNext

(* Every register of the correlation ASP keeps a value of its kind, with   *)
(* any memory size, windows and averages (CorAsp, the whole process).      *)
THEOREM CorTypeCorrect == ServiceSpec => []CorTypeOK
<1>1. ServiceInit => CorTypeOK BY InitType
<1>2. CorTypeOK /\ [ServiceNext]_serviceVars => CorTypeOK' BY NextType
<1> QED BY <1>1, <1>2, PTL DEF ServiceSpec

----------------------------------------------------------------------------
(* One request at a time. An average that has come is used at once, S2 is  *)
(* entered with no request out or wanted, and while a half of a result is  *)
(* still to be sent the machine is back in S0 and has asked for nothing.   *)
CorInv ==
  /\ OneRequestOut
  /\ ~ just_recv_avg_data
  /\ state = "S2" => ~ has_send_avg_data_rq /\ ~ send_avg_data_rq
  /\ correlation_first_half \/ correlation_second_half
       => state = "S0" /\ ~ has_send_avg_data_rq

LEMMA InitInv == ServiceInit => CorInv
<1> SUFFICES ASSUME ServiceInit PROVE CorInv
  OBVIOUS
<1>1. Requests = {} BY NoWordAssumption DEF ServiceInit, CorInit, Requests
<1> QED BY <1>1 DEF ServiceInit, CorInit, CorInv, OneRequestOut

(* An average comes only to a machine that waits for it, outside S2. *)
LEMMA AverageAwaited ==
  ASSUME CorTypeOK, CorInv, NEW word \in Words
  PROVE  /\ Got(word) <=> word.kind = "average"
         /\ Got(word) => /\ has_send_avg_data_rq /\ ~ send_avg_data_rq
                         /\ state # "S2" /\ Requests = {}
<1>1. Got(word) <=> word.kind = "average" BY DEF Got, CorInv
<1>2. word.kind = "average" => pending # {} BY WordType
<1>3. pending # {} => /\ has_send_avg_data_rq /\ ~ send_avg_data_rq /\ Requests = {}
  BY DEF CorInv, OneRequestOut
<1> QED BY <1>1, <1>2, <1>3 DEF CorInv

(* After an edge: the send part and the service agree on what is out. *)
LEMMA RequestsAfter ==
  ASSUME CorTypeOK, CorInv, NEW word \in Words, ServiceEdge(word)
  PROVE  OneRequestOut' /\ ~ just_recv_avg_data'
<1> USE DEF CorTypeOK
<1>1. Machine(word) /\ Transmit(word) BY DEF ServiceEdge, CorEdge
<1>2. ~ just_recv_avg_data'
  BY <1>1, AverageAwaited
  DEF Machine, Await, Discard, Start, Multiply, CountPair, Accumulate
<1>3. pending' = IF word.kind = "average" THEN Requests ELSE pending \cup Requests
  BY DEF ServiceEdge
<1>4. /\ pending = {} \/ Requests = {}
      /\ \A a, b \in pending : a = b
      /\ (pending \cup Requests # {}) <=> has_send_avg_data_rq
      /\ ~ (send_avg_data_rq /\ has_send_avg_data_rq)
  BY DEF CorInv, OneRequestOut
<1>5. \A a, b \in Requests : a = b BY DEF Requests
<1>6. CASE SendRequest(word)
  <2>1. ~ has_send_avg_data_rq /\ ~ Got(word)
    <3>1. Wanted(word) /\ ~ Out(word) BY <1>6 DEF SendRequest
    <3> QED BY <3>1, AverageAwaited DEF Wanted, Out, CorInv
  <2>2. pending' = {} BY <2>1, <1>3, <1>4
  <2>3. Requests' = {avg_data_mem_addr'} BY <1>1, <1>6, TransmitRequests
  <2>4. has_send_avg_data_rq' /\ ~ send_avg_data_rq' BY <1>6 DEF SendRequest
  <2> QED BY <1>2, <2>2, <2>3, <2>4 DEF OneRequestOut
<1>7. CASE ~ SendRequest(word)
  <2>1. Requests' = {} BY <1>1, <1>7, TransmitRequests
  <2>2. has_send_avg_data_rq' = Out(word) /\ send_avg_data_rq' = Wanted(word)
    BY <1>1, <1>7 DEF Transmit, SendFirstHalf, SendSecondHalf, SendNothing
  <2>3. ~ (Wanted(word) /\ Out(word)) BY <1>4, AverageAwaited DEF Wanted, Out, CorInv
  <2>4. \A a, b \in pending' : a = b BY <1>3, <1>4, <1>5
  <2>5. pending' # {} <=> Out(word)
    <3>1. CASE Got(word)
      BY <3>1, <1>3, AverageAwaited DEF Out
    <3>2. CASE ~ Got(word)
      BY <3>2, <1>3, <1>4, AverageAwaited DEF Out
    <3> QED BY <3>1, <3>2
  <2> QED BY <1>2, <2>1, <2>2, <2>3, <2>4, <2>5 DEF OneRequestOut
<1> QED BY <1>6, <1>7

LEMMA NextInv == CorTypeOK /\ CorInv /\ [ServiceNext]_serviceVars => CorInv'
<1> SUFFICES ASSUME CorTypeOK, CorInv, [ServiceNext]_serviceVars PROVE CorInv'
  OBVIOUS
<1>1. CASE UNCHANGED serviceVars
  BY <1>1 DEF CorInv, OneRequestOut, serviceVars, corVars, Requests
<1>2. ASSUME NEW word \in Words, ServiceEdge(word) PROVE CorInv'
  <2>1. Machine(word) /\ Transmit(word) BY <1>2 DEF ServiceEdge, CorEdge
  <2>2. OneRequestOut' /\ ~ just_recv_avg_data' BY <1>2, RequestsAfter
  <2>3. state' = "S2" => ~ has_send_avg_data_rq' /\ ~ send_avg_data_rq'
    <3>1. SUFFICES ASSUME state' = "S2" PROVE ~ has_send_avg_data_rq' /\ ~ send_avg_data_rq'
      OBVIOUS
    <3>2. Got(word) /\ state = "S1"
      BY <3>1, <2>1 DEF Machine, Await, Discard, Start, Multiply, CountPair, Accumulate
    <3>3. ~ Wanted(word) /\ ~ Out(word)
      BY <3>2, AverageAwaited DEF Wanted, Out, CorTypeOK
    <3> QED BY <3>3, <2>1
      DEF Transmit, SendFirstHalf, SendSecondHalf, SendRequest, SendNothing, CorTypeOK
  <2>4. correlation_first_half' \/ correlation_second_half'
          => state' = "S0" /\ ~ has_send_avg_data_rq'
    <3>1. CASE Completes(word)
      <4>1. state' = "S0"
        BY <3>1, <2>1 DEF Completes, Machine, Await, Discard, Start, Multiply, CountPair, Accumulate
      <4>2. ~ Wanted(word) /\ ~ Out(word)
        BY <3>1, AverageAwaited DEF Completes, Wanted, Out, CorTypeOK
      <4> QED BY <4>1, <4>2, <2>1
        DEF Transmit, SendFirstHalf, SendSecondHalf, SendRequest, SendNothing, CorTypeOK
    <3>2. CASE ~ Completes(word) /\ (correlation_first_half \/ correlation_second_half)
      <4>1. state = "S0" /\ ~ has_send_avg_data_rq BY <3>2 DEF CorInv
      <4>2. ~ Got(word) BY <4>1, AverageAwaited
      <4>3. state' = "S0"
        BY <4>1, <4>2, <2>1 DEF Machine, Await, Discard, Start, Multiply, CountPair, Accumulate
      <4>4. has_send_avg_data_rq' = Out(word)
        BY <3>2, <2>1 DEF Transmit, SendFirstHalf, SendSecondHalf, SendRequest, SendNothing, NoHalf
      <4> QED BY <4>1, <4>3, <4>4 DEF Out
    <3>3. CASE ~ Completes(word) /\ ~ correlation_first_half /\ ~ correlation_second_half
      BY <3>3, <2>1 DEF Transmit, SendFirstHalf, SendSecondHalf, SendRequest, SendNothing, NoHalf
    <3> QED BY <3>1, <3>2, <3>3
  <2> QED BY <2>2, <2>3, <2>4 DEF CorInv
<1> QED BY <1>1, <1>2 DEF ServiceNext

LEMMA InvCorrect == ServiceSpec => [](CorTypeOK /\ CorInv)
<1>1. ServiceInit => CorInv BY InitInv
<1>2. CorTypeOK /\ CorInv /\ [ServiceNext]_serviceVars => CorInv' BY NextInv
<1>3. ServiceSpec => []CorTypeOK BY CorTypeCorrect
<1> QED BY <1>1, <1>2, <1>3, PTL DEF ServiceSpec

(* The correlation ASP has at most one request out, and exactly one while  *)
(* it waits, however long each answer takes (CorAsp send_avg_data_rq,      *)
(* has_send_avg_data_rq).                                                  *)
THEOREM OneRequestAtATime == ServiceSpec => []OneRequestOut
<1>1. CorInv => OneRequestOut BY DEF CorInv
<1> QED BY <1>1, InvCorrect, PTL

(* No correlation clears the register of a result whose halves are still   *)
(* to be sent (CorAsp S0, correlation_first_half,                          *)
(* correlation_second_half).                                               *)
THEOREM HalvesStayTogether == ServiceSpec => HalvesOfOneResult
<1>1. ASSUME CorTypeOK, CorInv, [ServiceNext]_serviceVars,
             correlation_first_half \/ correlation_second_half
      PROVE  correlation' = correlation
  <2>1. CASE UNCHANGED serviceVars
    BY <2>1 DEF serviceVars, corVars
  <2>2. ASSUME NEW word \in Words, ServiceEdge(word) PROVE correlation' = correlation
    <3>1. state = "S0" /\ ~ has_send_avg_data_rq BY <1>1 DEF CorInv
    <3>2. ~ Got(word) BY <3>1, <1>1, AverageAwaited
    <3> QED BY <3>1, <3>2, <2>2
      DEF ServiceEdge, CorEdge, Machine, Await, Discard, Start, Multiply, CountPair, Accumulate
  <2> QED BY <1>1, <2>1, <2>2 DEF ServiceNext
<1>2. CorTypeOK /\ CorInv /\ [ServiceNext]_serviceVars
        => [correlation_first_half \/ correlation_second_half
              => correlation' = correlation]_serviceVars
  BY <1>1
<1> QED BY <1>2, InvCorrect, PTL DEF ServiceSpec, HalvesOfOneResult
----------------------------------------------------------------------------
(* Addresses count modulo the size of the memory: a remainder may be taken *)
(* at once or at the end.                                                  *)
LEMMA Remainder ==
  ASSUME NEW a \in Int
  PROVE  a % RamSize \in 0 .. RamSize - 1 /\ \E q \in Int : a = q * RamSize + (a % RamSize)
<1>1. /\ a % RamSize \in 0 .. RamSize - 1 /\ a \div RamSize \in Int
      /\ a = RamSize * (a \div RamSize) + (a % RamSize)
  BY CorAssumption
<1>2. \A q \in Int : RamSize * q = q * RamSize
  BY CorAssumption
<1> QED BY <1>1, <1>2

LEMMA OneRemainder ==
  ASSUME NEW q \in Int, NEW b \in 0 .. RamSize - 1, NEW c \in 0 .. RamSize - 1,
         b = q * RamSize + c
  PROVE  b = c
<1>1. q <= 0
  <2>1. SUFFICES ASSUME q >= 1 PROVE FALSE OBVIOUS
  <2>2. (q - 1) * RamSize >= 0 /\ (q - 1) * RamSize = q * RamSize - RamSize
    BY <2>1, CorAssumption
  <2> QED BY <2>2, CorAssumption
<1>2. q >= 0
  <2>1. SUFFICES ASSUME q <= -1 PROVE FALSE OBVIOUS
  <2>2. (-1 - q) * RamSize >= 0 /\ (-1 - q) * RamSize = -(q * RamSize) - RamSize
    BY <2>1, CorAssumption
  <2> QED BY <2>2, CorAssumption
<1>3. q = 0 BY <1>1, <1>2
<1> QED BY <1>3, CorAssumption

LEMMA SameRemainder ==
  ASSUME NEW a \in Int, NEW b \in Int, NEW q \in Int, a = q * RamSize + b
  PROVE  a % RamSize = b % RamSize
<1>1. PICK s \in Int : a = s * RamSize + (a % RamSize) BY Remainder
<1>2. PICK t \in Int : b = t * RamSize + (b % RamSize) BY Remainder
<1>3. a % RamSize \in 0 .. RamSize - 1 /\ b % RamSize \in 0 .. RamSize - 1 BY Remainder
<1>4. (q + t - s) * RamSize = q * RamSize + t * RamSize - s * RamSize BY CorAssumption
<1>5. a % RamSize = (q + t - s) * RamSize + (b % RamSize)
  <2>1. q * RamSize \in Int /\ t * RamSize \in Int /\ s * RamSize \in Int BY CorAssumption
  <2> QED BY <2>1, <1>1, <1>2, <1>3, <1>4
<1> QED BY <1>3, <1>5, OneRemainder

LEMMA RemainderOfRemainder ==
  ASSUME NEW a \in Int, NEW n \in Int
  PROVE  /\ ((a % RamSize) + n) % RamSize = (a + n) % RamSize
         /\ (n + (RamSize - (a % RamSize))) % RamSize = (n - a) % RamSize
<1> DEFINE r == a % RamSize
<1>1. PICK q \in Int : a = q * RamSize + r BY Remainder
<1>2. r \in 0 .. RamSize - 1 BY Remainder
<1> HIDE DEF r
<1>3. a + n = q * RamSize + (r + n) BY <1>1, <1>2, CorAssumption
<1>4. n + (RamSize - r) = (q + 1) * RamSize + (n - a)
  <2>1. (q + 1) * RamSize = q * RamSize + RamSize BY CorAssumption
  <2> QED BY <2>1, <1>1, <1>2, CorAssumption
<1>5. (a + n) % RamSize = (r + n) % RamSize BY <1>2, <1>3, SameRemainder
<1>6. (n + (RamSize - r)) % RamSize = (n - a) % RamSize
  <2>1. n + (RamSize - r) \in Int /\ n - a \in Int /\ q + 1 \in Int BY <1>2, CorAssumption
  <2> QED BY <2>1, <1>4, SameRemainder
<1> QED BY <1>5, <1>6 DEF r

(* The address that S0 asks for, which becomes the origin: the middle of   *)
(* the window. The two addresses of pair k are those of WindowSum.         *)
Origin == (AddrMinus(ends, Half) + 1) % RamSize

LEMMA OriginIs ==
  ASSUME ends \in Address, Half \in Nat
  PROVE  Origin = (ends - Half + 1) % RamSize /\ Origin \in Address /\ Origin \in Int
<1>1. ends \in Int /\ RamSize \in Int /\ Half \in Int BY CorAssumption DEF Address
<1>2. ends - Half \in Int /\ ends - Half + 1 \in Int BY <1>1
<1>3. AddrMinus(ends, Half) = (ends - Half) % RamSize
  BY <1>1, RemainderOfRemainder DEF AddrMinus
<1>4. Origin = (((ends - Half) % RamSize) + 1) % RamSize BY <1>3 DEF Origin
<1>5. Origin = (ends - Half + 1) % RamSize BY <1>2, <1>4, RemainderOfRemainder
<1>6. Origin \in 0 .. RamSize - 1 BY <1>2, <1>5, Remainder
<1> QED BY <1>5, <1>6 DEF Address

LEMMA PairAddresses ==
  ASSUME ends \in Address, Half \in Nat, NEW k \in 0 .. Half - 1
  PROVE  /\ (Origin + k) % RamSize = AddrMinus(ends, Half - 1 - k)
         /\ AddrMinus(Origin, k + 1) = AddrMinus(ends, Half + k)
<1>0. ends \in Int /\ RamSize \in Int BY CorAssumption DEF Address
<1>1. ASSUME NEW a \in Int, NEW n \in Int PROVE AddrMinus(a, n) = (a - n) % RamSize
  BY RemainderOfRemainder DEF AddrMinus
<1>2. Origin = (ends - Half + 1) % RamSize /\ Origin \in Int
  BY OriginIs
<1>3. ASSUME NEW n \in Int PROVE (Origin + n) % RamSize = ((ends - Half + 1) + n) % RamSize
  <2>1. ends - Half + 1 \in Int BY <1>0
  <2> QED BY <2>1, <1>2, RemainderOfRemainder
<1>4. (Origin + k) % RamSize = AddrMinus(ends, Half - 1 - k)
  <2>1. (ends - Half + 1) + k = ends - (Half - 1 - k) BY <1>0
  <2>2. AddrMinus(ends, Half - 1 - k) = (ends - (Half - 1 - k)) % RamSize BY <1>0, <1>1
  <2> QED BY <2>1, <2>2, <1>3
<1>5. AddrMinus(Origin, k + 1) = AddrMinus(ends, Half + k)
  <2>1. Origin - (k + 1) = Origin + (-(k + 1)) BY <1>2
  <2>2. (ends - Half + 1) + (-(k + 1)) = ends - (Half + k) BY <1>0
  <2>3. AddrMinus(Origin, k + 1) = (Origin - (k + 1)) % RamSize BY <1>1, <1>2
  <2>4. (Origin + (-(k + 1))) % RamSize = ((ends - Half + 1) + (-(k + 1))) % RamSize BY <1>3
  <2>5. AddrMinus(ends, Half + k) = (ends - (Half + k)) % RamSize BY <1>0, <1>1
  <2> QED BY <2>1, <2>2, <2>3, <2>4, <2>5
<1> QED BY <1>4, <1>5

(* Two addresses less than the size of the memory apart are different.     *)
LEMMA Apart ==
  ASSUME NEW a \in Int, NEW b \in Int, a - b \in 1 .. RamSize - 1
  PROVE  a % RamSize # b % RamSize
<1> SUFFICES ASSUME a % RamSize = b % RamSize PROVE FALSE
  OBVIOUS
<1>1. PICK s \in Int : a = s * RamSize + (a % RamSize) BY Remainder
<1>2. PICK t \in Int : b = t * RamSize + (b % RamSize) BY Remainder
<1>3. a % RamSize \in 0 .. RamSize - 1 BY Remainder
<1>4. s * RamSize \in Int /\ t * RamSize \in Int /\ (s - t) * RamSize = s * RamSize - t * RamSize
  BY CorAssumption
<1>5. a - b = (s - t) * RamSize + 0 BY <1>1, <1>2, <1>3, <1>4
<1>6. a - b \in 0 .. RamSize - 1 /\ 0 \in 0 .. RamSize - 1 /\ s - t \in Int BY CorAssumption
<1>7. a - b = 0 BY <1>5, <1>6, OneRemainder
<1> QED BY <1>7

(* While a window fits into the memory, the addresses of its pairs are all *)
(* different: those of pair c are none of the pairs before it.             *)
LEMMA PairsApart ==
  ASSUME ends \in Address, WindowFits, Half \in Nat,
         NEW c \in 0 .. Half - 1, NEW k \in 0 .. Half - 1
  PROVE  /\ k < c => /\ (Origin + c) % RamSize # (Origin + k) % RamSize
                     /\ AddrMinus(Origin, c + 1) # AddrMinus(Origin, k + 1)
         /\ (Origin + c) % RamSize # AddrMinus(Origin, k + 1)
<1>0. Origin \in Int /\ RamSize \in Nat BY OriginIs, CorAssumption
<1>1. ASSUME NEW n \in Int PROVE AddrMinus(Origin, n) = (Origin - n) % RamSize
  BY <1>0, RemainderOfRemainder DEF AddrMinus
<1>2. 2 * Half <= RamSize BY DEF WindowFits
<1>3. ASSUME k < c
      PROVE  /\ (Origin + c) - (Origin + k) \in 1 .. RamSize - 1
             /\ (Origin - (k + 1)) - (Origin - (c + 1)) \in 1 .. RamSize - 1
  BY <1>0, <1>2, <1>3
<1>4. (Origin + c) - (Origin - (k + 1)) \in 1 .. RamSize - 1
  BY <1>0, <1>2
<1>5. k < c => (Origin + c) % RamSize # (Origin + k) % RamSize
  <2>1. Origin + c \in Int /\ Origin + k \in Int BY <1>0
  <2> QED BY <2>1, <1>3, Apart
<1>6. k < c => AddrMinus(Origin, c + 1) # AddrMinus(Origin, k + 1)
  <2>1. SUFFICES ASSUME k < c PROVE (Origin - (c + 1)) % RamSize # (Origin - (k + 1)) % RamSize
    BY <1>1
  <2>2. Origin - (k + 1) \in Int /\ Origin - (c + 1) \in Int BY <1>0
  <2> QED BY <2>1, <2>2, <1>3, Apart
<1>7. (Origin + c) % RamSize # AddrMinus(Origin, k + 1)
  <2>1. Origin - (k + 1) \in Int /\ Origin + c \in Int BY <1>0
  <2>2. (Origin + c) % RamSize # (Origin - (k + 1)) % RamSize BY <2>1, <1>4, Apart
  <2> QED BY <2>2, <1>1
<1> QED BY <1>5, <1>6, <1>7

(* The products of the window, and the sum of the first n of them. *)
Products   == [k \in 0 .. Half - 1 |-> Back(Half - 1 - k) * Back(Half + k)]
PairSum(n) == SumFunctionOnSet(Products, 0 .. n - 1)

LEMMA ProductsType ==
  ASSUME Half \in Nat, ends \in Address, answered \in [Address -> Nat]
  PROVE  \A k \in 0 .. Half - 1 : Products[k] \in Int
<1> SUFFICES ASSUME NEW k \in 0 .. Half - 1 PROVE Products[k] \in Int
  OBVIOUS
<1>1. \A n \in Int : Back(n) \in Nat
  <2> TAKE n \in Int
  <2>1. n % RamSize \in 0 .. RamSize - 1 BY Remainder
  <2>2. ends + (RamSize - (n % RamSize)) \in Int BY <2>1, CorAssumption DEF Address
  <2>3. (ends + (RamSize - (n % RamSize))) % RamSize \in Address
    BY <2>2, Remainder DEF Address
  <2> QED BY <2>3 DEF Back
<1>2. PICK x \in Nat, y \in Nat : x = Back(Half - 1 - k) /\ y = Back(Half + k)
  BY <1>1
<1>3. Products[k] = x * y BY <1>2 DEF Products
<1> QED BY <1>3

LEMMA ProductsAdd ==
  ASSUME Half \in Nat, ends \in Address, answered \in [Address -> Nat]
  PROVE  /\ PairSum(0) = 0
         /\ \A n \in 0 .. Half - 1 : PairSum(n + 1) = PairSum(n) + Products[n]
         /\ PairSum(Half) = WindowSum
<1>1. \A k \in 0 .. Half - 1 : Products[k] \in Int
  BY ProductsType
<1>2. PairSum(0) = 0
  <2>1. 0 .. 0 - 1 = {} OBVIOUS
  <2> QED BY <2>1, SumEmpty DEF PairSum
<1>3. ASSUME NEW n \in 0 .. Half - 1 PROVE PairSum(n + 1) = PairSum(n) + Products[n]
  <2>1. IsFiniteSet(0 .. n - 1) BY FS_Interval
  <2>2. PICK S : S = 0 .. n - 1 /\ IsFiniteSet(S) /\ n \notin S /\ 0 .. (n + 1) - 1 = S \cup {n}
    BY <2>1
  <2>3. \A k \in S \cup {n} : Products[k] \in Int BY <1>1, <2>2
  <2>4. SumFunctionOnSet(Products, S \cup {n}) = Products[n] + SumFunctionOnSet(Products, S)
    BY <2>2, <2>3, SumAdds
  <2>5. SumFunctionOnSet(Products, S) \in Int BY <2>2, <2>3, SumTakesOut
  <2>6. Products[n] \in Int BY <1>1
  <2>7. PairSum(n + 1) = SumFunctionOnSet(Products, S \cup {n}) /\ PairSum(n) = SumFunctionOnSet(Products, S)
    BY <2>2 DEF PairSum
  <2> QED BY <2>4, <2>5, <2>6, <2>7
<1>4. PairSum(Half) = WindowSum
  BY DEF PairSum, WindowSum, Products, SumFunction
<1> QED BY <1>2, <1>3, <1>4

----------------------------------------------------------------------------
(* How far a correlation is. A request that is out is for the address kept *)
(* in avg_data_mem_addr. In each state the registers hold the origin, the  *)
(* sum of the pairs that have been added, and the first factor or the      *)
(* product of the next one.                                                *)
Summing ==
  /\ state = "S0" /\ has_send_avg_data_rq => avg_data_mem_addr = Origin
  /\ state # "S0" => current_corr_origin = Origin
  /\ state = "S1" =>
       /\ counter \in 0 .. Half - 1
       /\ multiplicand_temp = answered[(Origin + counter) % RamSize]
       /\ correlation = PairSum(counter)
       /\ has_send_avg_data_rq => avg_data_mem_addr = AddrMinus(Origin, counter + 1)
  /\ state = "S2" =>
       /\ counter \in 0 .. Half - 1
       /\ correlation = PairSum(counter)
       /\ correlation_pair_product = Products[counter]
  /\ state = "S3" =>
       /\ counter \in 1 .. Half
       /\ correlation = PairSum(counter - 1)
       /\ correlation_pair_product = Products[counter - 1]
       /\ has_send_avg_data_rq => avg_data_mem_addr = (Origin + counter) % RamSize

WindowInv ==
  /\ ends \in Address
  /\ pending \cup Requests \subseteq {avg_data_mem_addr}
  /\ steady /\ WindowFits => Summing

(* An average that comes is remembered at the address that was asked for.  *)
LEMMA AverageOfRequest ==
  ASSUME CorTypeOK, CorInv, WindowInv, NEW word \in Words, ServiceEdge(word)
  PROVE  /\ answered' \in [Address -> Nat]
         /\ Got(word) => /\ word.kind = "average"
                         /\ answered'[avg_data_mem_addr] = avg_data'
                         /\ \A b \in Address : b # avg_data_mem_addr
                                                => answered'[b] = answered[b]
         /\ ~ Got(word) => answered' = answered
<1>1. Got(word) <=> word.kind = "average" BY AverageAwaited
<1>2. word.kind = "average" => word.value \in Nat /\ pending # {} BY WordType
<1>3. answered' = [a \in Address |-> IF word.kind = "average" /\ a \in pending
                                    THEN word.value ELSE answered[a]]
  BY DEF ServiceEdge, Remember
<1>4. answered \in [Address -> Nat] /\ avg_data_mem_addr \in Address BY DEF CorTypeOK
<1>5. word.kind = "average" => avg_data' = word.value BY DEF ServiceEdge, CorEdge, Receive
<1>6. pending \subseteq {avg_data_mem_addr} BY DEF WindowInv
<1>7. CASE word.kind = "average"
  <2>1. pending = {avg_data_mem_addr} BY <1>2, <1>6, <1>7
  <2> QED BY <2>1, <1>1, <1>2, <1>3, <1>4, <1>5, <1>7
<1>8. CASE word.kind # "average"
  <2>1. answered' = answered BY <1>3, <1>4, <1>8
  <2> QED BY <2>1, <1>1, <1>4, <1>8
<1> QED BY <1>7, <1>8

(* An answer for an address of none of the first n pairs leaves their sum. *)
LEMMA SumUndisturbed ==
  ASSUME ends \in Address, Half \in Nat, answered \in [Address -> Nat],
         answered' \in [Address -> Nat], ends' = ends, Half' = Half,
         NEW a, \A b \in Address : b # a => answered'[b] = answered[b],
         NEW n \in 0 .. Half,
         \A k \in 0 .. n - 1 : a # (Origin + k) % RamSize /\ a # AddrMinus(Origin, k + 1)
  PROVE  SumFunctionOnSet(Products', 0 .. n - 1) = PairSum(n)
<1>1. ASSUME NEW k \in 0 .. n - 1 PROVE Products'[k] = Products[k] /\ Products[k] \in Int
  <2>1. k \in 0 .. Half - 1 OBVIOUS
  <2>2. DEFINE x == AddrMinus(ends, Half - 1 - k)
               y == AddrMinus(ends, Half + k)
  <2>3. x # a /\ y # a BY <2>1, PairAddresses
  <2>4. x \in Address /\ y \in Address
    <3>1. ASSUME NEW m \in Int PROVE AddrMinus(ends, m) \in Address
      <4>1. m % RamSize \in 0 .. RamSize - 1 BY Remainder
      <4>2. ends + (RamSize - (m % RamSize)) \in Int BY <4>1, CorAssumption DEF Address
      <4> QED BY <4>2, Remainder DEF AddrMinus, Address
    <3> QED BY <3>1, <2>1
  <2>5. Products[k] = answered[x] * answered[y]
    BY <2>1 DEF Products, Back, AddrMinus
  <2>6. Products'[k] = answered'[x] * answered'[y]
    BY <2>1 DEF Products, Back, AddrMinus
  <2> HIDE DEF x, y
  <2>7. answered'[x] = answered[x] /\ answered'[y] = answered[y] BY <2>3, <2>4
  <2>8. Products[k] \in Int BY <2>1, ProductsType
  <2> QED BY <2>5, <2>6, <2>7, <2>8
<1>2. IsFiniteSet(0 .. n - 1) BY FS_Interval
<1>3. PICK S : S = 0 .. n - 1 /\ IsFiniteSet(S) BY <1>2
<1>4. \A k \in S : Products[k] \in Int /\ Products'[k] = Products[k] BY <1>1, <1>3
<1>5. SumFunctionOnSet(Products, S) = SumFunctionOnSet(Products', S) BY <1>3, <1>4, SumSame
<1> QED BY <1>3, <1>5 DEF PairSum

(* A request that is sent, or stays out, is for avg_data_mem_addr. *)
LEMMA RequestKept ==
  ASSUME CorTypeOK, CorInv, WindowInv, NEW word \in Words, ServiceEdge(word)
  PROVE  pending' \cup Requests' \subseteq {avg_data_mem_addr'}
<1>1. Machine(word) /\ Transmit(word) BY DEF ServiceEdge, CorEdge
<1>2. Requests' \subseteq {avg_data_mem_addr'} BY <1>1, TransmitRequests
<1>3. pending' \subseteq pending \cup Requests
  BY DEF ServiceEdge
<1>4. CASE avg_data_mem_addr' = avg_data_mem_addr
  BY <1>2, <1>3, <1>4 DEF WindowInv
<1>5. CASE avg_data_mem_addr' # avg_data_mem_addr
  <2>1. ~ has_send_avg_data_rq
    BY <1>1, <1>5 DEF Machine, Await, Discard, Start, Multiply, CountPair, Accumulate
  <2>2. pending \cup Requests = {} BY <2>1 DEF CorInv, OneRequestOut
  <2> QED BY <1>2, <1>3, <2>2
<1> QED BY <1>4, <1>5

LEMMA SummingGoesOn ==
  ASSUME CorTypeOK, CorInv, WindowInv, NEW word \in Words, ServiceEdge(word),
         steady', WindowFits'
  PROVE  Summing'
<1> USE DEF CorTypeOK
<1>1. Receive(word) /\ Machine(word) /\ Transmit(word) BY DEF ServiceEdge, CorEdge
<1>2. word.kind # "cor_config" /\ Half' = Half /\ Half \in Nat /\ Half > 0 /\ WindowFits
  <2>1. word.kind # "cor_config" BY DEF ServiceEdge, Remember
  <2>2. correlation_window_size' = correlation_window_size BY <1>1, <2>1 DEF Receive
  <2>3. Half' = Half BY <2>2 DEF Half
  <2> QED BY <2>1, <2>3 DEF Half, WindowFits
<1> DEFINE Asking == state = "S0" /\ ~ Got(word) /\ ~ has_send_avg_data_rq
<1>3. CASE Asking
  <2>1. ends' = newest_avg_data_addr' BY <1>3 DEF ServiceEdge, Remember
  <2>2. state' = "S0" /\ avg_data_mem_addr' = FetchAddr
    BY <1>1, <1>3 DEF Machine, Await, Discard, Start, Multiply, CountPair, Accumulate
  <2>3. FetchAddr = Origin'
    BY <1>2, <1>3, <2>1 DEF FetchAddr, Origin, AddrMinus
  <2> QED BY <2>2, <2>3 DEF Summing
<1>4. CASE ~ Asking
  <2>1. ends' = ends /\ steady BY <1>4 DEF ServiceEdge, Remember
  <2>2. Summing BY <1>2, <2>1 DEF WindowInv
  <2>3. ends \in Address BY DEF WindowInv
  <2>4. Origin' = Origin
    BY <1>2, <2>1 DEF Origin, AddrMinus
  <2>5. ~ Got(word) => Products' = Products /\ answered' = answered
    <3>1. SUFFICES ASSUME ~ Got(word) PROVE Products' = Products /\ answered' = answered
      OBVIOUS
    <3>2. answered' = answered BY <3>1, AverageOfRequest
    <3> QED BY <3>2, <1>2, <2>1 DEF Products, Back
  <2>6. \A n \in 0 .. Half - 1 : PairSum(n + 1) = PairSum(n) + Products[n]
    BY <1>2, <2>3, ProductsAdd
  <2>7. Got(word) => avg_data' = answered'[avg_data_mem_addr] /\ has_send_avg_data_rq
    BY AverageOfRequest, AverageAwaited
  <2>a. ASSUME NEW n \in 0 .. Half, Got(word),
               \A k \in 0 .. n - 1 : /\ avg_data_mem_addr # (Origin + k) % RamSize
                                     /\ avg_data_mem_addr # AddrMinus(Origin, k + 1)
        PROVE  SumFunctionOnSet(Products', 0 .. n - 1) = PairSum(n)
    <3>1. /\ answered' \in [Address -> Nat]
          /\ \A b \in Address : b # avg_data_mem_addr => answered'[b] = answered[b]
      BY <2>a, AverageOfRequest
    <3> QED BY <3>1, <2>a, <1>2, <2>1, <2>3, SumUndisturbed
  <2>8. Got(word) /\ state # "S2" => ~ has_send_avg_data_rq'
    <3>1. SUFFICES ASSUME Got(word), state # "S2" PROVE ~ has_send_avg_data_rq'
      OBVIOUS
    <3>2. Wanted(word) = FALSE /\ Out(word) = FALSE
      BY <3>1, AverageAwaited DEF Wanted, Out
    <3> QED BY <1>1, <3>2
      DEF Transmit, SendFirstHalf, SendSecondHalf, SendRequest, SendNothing
  <2>9. CASE Await(word)
    <3>1. state' = state /\ counter' = counter /\ current_corr_origin' = current_corr_origin
          /\ multiplicand_temp' = multiplicand_temp /\ correlation' = correlation
          /\ correlation_pair_product' = correlation_pair_product /\ state # "S2"
          /\ Products' = Products /\ answered' = answered
      BY <2>5, <2>9 DEF Await
    <3>2. avg_data_mem_addr' = IF has_send_avg_data_rq THEN avg_data_mem_addr ELSE FetchAddr
      BY <2>9 DEF Await
    <3>3. CASE state = "S0"
      <4>1. has_send_avg_data_rq BY <2>9, <1>4, <3>3 DEF Await
      <4> QED BY <4>1, <3>1, <3>2, <3>3, <2>2, <2>4 DEF Summing
    <3>4. CASE state = "S1"
      <4>1. FetchAddr = AddrMinus(Origin, counter + 1)
        BY <3>4, <2>2 DEF FetchAddr, Summing
      <4>2. has_send_avg_data_rq' => avg_data_mem_addr' = AddrMinus(Origin', counter' + 1)
        BY <4>1, <3>1, <3>2, <3>4, <2>2, <2>4 DEF Summing
      <4> QED BY <4>2, <3>1, <3>4, <2>2, <2>4, <1>2 DEF Summing, PairSum, AddrMinus
    <3>5. CASE state = "S3"
      <4>1. FetchAddr = (Origin + counter) % RamSize
        BY <3>5, <2>2 DEF FetchAddr, Summing
      <4>2. has_send_avg_data_rq' => avg_data_mem_addr' = (Origin' + counter') % RamSize
        BY <4>1, <3>1, <3>2, <3>5, <2>2, <2>4 DEF Summing
      <4> QED BY <4>2, <3>1, <3>5, <2>2, <2>4, <1>2 DEF Summing, PairSum
    <3> QED BY <3>1, <3>3, <3>4, <3>5
  <2>10. CASE Discard(word)
    <3>1. state' = "S0" /\ ~ has_send_avg_data_rq' BY <2>8, <2>10 DEF Discard
    <3> QED BY <3>1 DEF Summing
  <2>11. CASE Start(word)
    <3>1. /\ state' = "S1" /\ counter' = 0 /\ correlation' = 0 /\ ~ has_send_avg_data_rq'
          /\ multiplicand_temp' = answered'[avg_data_mem_addr]
          /\ current_corr_origin' = avg_data_mem_addr /\ avg_data_mem_addr = Origin
      BY <2>2, <2>7, <2>8, <2>11 DEF Start, Summing
    <3>2. Origin % RamSize = Origin /\ Origin + 0 = Origin
      <4>1. Origin \in 0 .. RamSize - 1 BY <2>3, <1>2, OriginIs DEF Address
      <4> QED BY <4>1, CorAssumption
    <3>3. correlation' = SumFunctionOnSet(Products', 0 .. counter' - 1)
      <4>1. 0 .. counter' - 1 = {} BY <3>1
      <4> QED BY <4>1, <3>1, SumEmpty
    <3>4. 0 \in 0 .. Half' - 1 BY <1>2
    <3> QED BY <3>1, <3>2, <3>3, <3>4, <2>4 DEF Summing, PairSum
  <2>12. CASE Multiply(word)
    <3>1. /\ state = "S1" /\ state' = "S2" /\ counter' = counter /\ correlation' = correlation
          /\ current_corr_origin' = current_corr_origin
          /\ correlation_pair_product' = multiplicand_temp * answered'[avg_data_mem_addr]
          /\ Got(word)
      BY <2>7, <2>12 DEF Multiply
    <3>2. /\ counter \in 0 .. Half - 1 /\ correlation = PairSum(counter)
          /\ multiplicand_temp = answered[(Origin + counter) % RamSize]
          /\ avg_data_mem_addr = AddrMinus(Origin, counter + 1)
          /\ current_corr_origin = Origin
      <4>1. has_send_avg_data_rq BY <2>7, <3>1
      <4> QED BY <4>1, <2>2, <3>1 DEF Summing
    <3>3. \A k \in 0 .. counter : avg_data_mem_addr # (Origin + k) % RamSize
      BY <3>2, <1>2, <2>3, PairsApart
    <3>4. \A k \in 0 .. counter - 1 : /\ avg_data_mem_addr # (Origin + k) % RamSize
                                      /\ avg_data_mem_addr # AddrMinus(Origin, k + 1)
      <4> TAKE k \in 0 .. counter - 1
      <4>1. k \in 0 .. Half - 1 /\ k < counter BY <3>2, <1>2
      <4> QED BY <4>1, <3>2, <1>2, <2>3, PairsApart
    <3>5. SumFunctionOnSet(Products', 0 .. counter - 1) = PairSum(counter)
      <4>1. counter \in 0 .. Half BY <3>2, <1>2
      <4> QED BY <4>1, <3>1, <3>4, <2>a
    <3>6. correlation_pair_product' = Products'[counter]
      <4>1. multiplicand_temp = answered'[(Origin + counter) % RamSize]
        <5>1. (Origin + counter) % RamSize \in Address
          <6>1. Origin + counter \in Int BY <3>2, <1>2, <2>3, OriginIs
          <6> QED BY <6>1, Remainder DEF Address
        <5>2. (Origin + counter) % RamSize # avg_data_mem_addr
          <6>1. counter \in 0 .. counter BY <3>2
          <6> QED BY <6>1, <3>3
        <5> QED BY <5>1, <5>2, <3>1, <3>2, AverageOfRequest
      <4>2. Products'[counter] = answered'[AddrMinus(ends, Half - 1 - counter)]
                                   * answered'[AddrMinus(ends, Half + counter)]
        BY <3>2, <1>2, <2>1 DEF Products, Back, AddrMinus
      <4>3. /\ AddrMinus(ends, Half - 1 - counter) = (Origin + counter) % RamSize
            /\ AddrMinus(ends, Half + counter) = avg_data_mem_addr
        BY <3>2, <1>2, <2>3, PairAddresses
      <4> QED BY <4>1, <4>2, <4>3, <3>1
    <3> QED BY <3>1, <3>2, <3>5, <3>6, <2>4, <1>2 DEF Summing, PairSum
  <2>13. CASE CountPair(word)
    <3>1. /\ state = "S2" /\ state' = "S3" /\ counter' = counter + 1 /\ correlation' = correlation
          /\ current_corr_origin' = current_corr_origin
          /\ correlation_pair_product' = correlation_pair_product
          /\ Products' = Products
      <4>1. ~ Got(word) BY <2>13, AverageAwaited DEF CountPair
      <4> QED BY <4>1, <2>5, <2>13 DEF CountPair
    <3>2. ~ has_send_avg_data_rq'
      <4>1. Wanted(word) = FALSE /\ Out(word) = FALSE
        BY <3>1 DEF Wanted, Out, CorInv
      <4> QED BY <1>1, <4>1
        DEF Transmit, SendFirstHalf, SendSecondHalf, SendRequest, SendNothing
    <3>3. /\ counter \in 0 .. Half - 1 /\ correlation = PairSum(counter)
          /\ correlation_pair_product = Products[counter]
          /\ current_corr_origin = Origin
      BY <2>2, <3>1 DEF Summing
    <3>4. counter' \in 1 .. Half' /\ counter' - 1 = counter BY <3>1, <3>3, <1>2
    <3> QED BY <3>1, <3>2, <3>3, <3>4, <2>4 DEF Summing, PairSum
  <2>14. CASE Accumulate(word)
    <3>1. /\ state = "S3" /\ ~ has_send_avg_data_rq' /\ has_send_avg_data_rq
          /\ correlation' = correlation + correlation_pair_product
          /\ current_corr_origin' = current_corr_origin /\ Got(word)
      BY <2>7, <2>8, <2>14 DEF Accumulate
    <3>2. /\ counter \in 1 .. Half /\ correlation = PairSum(counter - 1)
          /\ correlation_pair_product = Products[counter - 1]
          /\ avg_data_mem_addr = (Origin + counter) % RamSize
          /\ current_corr_origin = Origin
      BY <2>2, <3>1 DEF Summing
    <3>3. CASE counter >= Half
      BY <3>1, <3>3, <2>14 DEF Accumulate, Summing
    <3>4. CASE ~ (counter >= Half)
      <4>1. state' = "S1" /\ counter' = counter /\ multiplicand_temp' = answered'[avg_data_mem_addr]
        BY <3>4, <2>7, <2>14 DEF Accumulate
      <4>2. counter - 1 \in 0 .. Half - 1 /\ (counter - 1) + 1 = counter /\ counter \in 0 .. Half - 1
        BY <3>2, <3>4, <1>2
      <4>3. \A k \in 0 .. counter - 1 : /\ avg_data_mem_addr # (Origin + k) % RamSize
                                        /\ avg_data_mem_addr # AddrMinus(Origin, k + 1)
        <5> TAKE k \in 0 .. counter - 1
        <5>1. k \in 0 .. Half - 1 /\ k < counter BY <4>2, <1>2
        <5> QED BY <5>1, <4>2, <3>2, <1>2, <2>3, PairsApart
      <4>4. SumFunctionOnSet(Products', 0 .. counter - 1) = PairSum(counter)
        <5>1. counter \in 0 .. Half BY <4>2, <1>2
        <5> QED BY <5>1, <4>3, <3>1, <2>a
      <4>5. correlation' = PairSum(counter) BY <4>2, <3>1, <3>2, <2>6
      <4> QED BY <4>1, <4>2, <4>4, <4>5, <3>1, <3>2, <2>4, <1>2 DEF Summing, PairSum
    <3> QED BY <3>3, <3>4
  <2> QED BY <1>1, <2>9, <2>10, <2>11, <2>12, <2>13, <2>14 DEF Machine
<1> QED BY <1>3, <1>4

LEMMA InitWindowInv == ServiceInit => WindowInv
<1> SUFFICES ASSUME ServiceInit PROVE WindowInv
  OBVIOUS
<1>1. Requests = {} BY NoWordAssumption DEF ServiceInit, CorInit, Requests
<1>2. 0 \in Address BY CorAssumption DEF Address
<1> QED BY <1>1, <1>2 DEF ServiceInit, CorInit, InitHistory, WindowInv, Summing

LEMMA NextWindowInv ==
  CorTypeOK /\ CorInv /\ WindowInv /\ [ServiceNext]_serviceVars => WindowInv'
<1> SUFFICES ASSUME CorTypeOK, CorInv, WindowInv, [ServiceNext]_serviceVars PROVE WindowInv'
  OBVIOUS
<1>1. CASE UNCHANGED serviceVars
  BY <1>1 DEF WindowInv, Summing, Origin, AddrMinus, Products, PairSum, Back, Half,
              WindowFits, serviceVars, corVars, history, Requests
<1>2. ASSUME NEW word \in Words, ServiceEdge(word) PROVE WindowInv'
  <2>1. pending' \cup Requests' \subseteq {avg_data_mem_addr'} BY <1>2, RequestKept
  <2>2. ends' \in Address
    <3>1. newest_avg_data_addr' \in Address BY <1>2, ReceiveType DEF ServiceEdge, CorEdge
    <3> QED BY <1>2, <3>1 DEF ServiceEdge, Remember, WindowInv
  <2>3. steady' /\ WindowFits' => Summing' BY <1>2, SummingGoesOn
  <2> QED BY <2>1, <2>2, <2>3 DEF WindowInv
<1> QED BY <1>1, <1>2 DEF ServiceNext

(* A correlation that no configuration packet disturbs is the sum of the   *)
(* products of its window, for every size of the memory, every window and  *)
(* every average, however late the answers and however often the newest    *)
(* address moves on meanwhile (CorAsp S0 - S3: addresses, counter and pair *)
(* product).                                                               *)
THEOREM CorrelationsAreWindowSums == ServiceSpec => CorrelationIsWindowSum
<1>1. ASSUME CorTypeOK, CorInv, WindowInv, [ServiceNext]_serviceVars,
             state = "S3", state' = "S0", steady, WindowFits
      PROVE  correlation' = WindowSum
  <2>1. ~ UNCHANGED serviceVars BY <1>1 DEF serviceVars, corVars
  <2>2. PICK word \in Words : ServiceEdge(word) BY <1>1, <2>1 DEF ServiceNext
  <2>3. Half \in Nat /\ answered \in [Address -> Nat] BY <1>1 DEF CorTypeOK, Half
  <2>4. Accumulate(word) /\ counter >= Half
    BY <1>1, <2>2
    DEF ServiceEdge, CorEdge, Machine, Await, Discard, Start, Multiply, CountPair, Accumulate
  <2>5. /\ counter \in 1 .. Half /\ correlation = PairSum(counter - 1)
        /\ correlation_pair_product = Products[counter - 1]
        /\ ends \in Address
    BY <1>1 DEF WindowInv, Summing
  <2>6. counter = Half /\ Half - 1 \in 0 .. Half - 1 /\ (Half - 1) + 1 = Half
    BY <2>3, <2>4, <2>5
  <2>7. correlation' = PairSum(Half - 1) + Products[Half - 1]
    BY <2>4, <2>5, <2>6 DEF Accumulate
  <2>8. PairSum((Half - 1) + 1) = PairSum(Half - 1) + Products[Half - 1]
    BY <2>3, <2>5, <2>6, ProductsAdd
  <2>9. PairSum(Half) = WindowSum BY <2>3, <2>5, ProductsAdd
  <2> QED BY <2>6, <2>7, <2>8, <2>9
<1>2. CorTypeOK /\ CorInv /\ WindowInv /\ [ServiceNext]_serviceVars
        => [state = "S3" /\ state' = "S0" /\ steady /\ WindowFits
              => correlation' = WindowSum]_serviceVars
  BY <1>1
<1>3. ServiceSpec => []WindowInv
  BY InitWindowInv, NextWindowInv, InvCorrect, PTL DEF ServiceSpec
<1> QED BY <1>2, <1>3, InvCorrect, PTL DEF ServiceSpec, CorrelationIsWindowSum
=============================================================================
