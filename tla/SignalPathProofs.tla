-------------------------- MODULE SignalPathProofs --------------------------
(***************************************************************************)
(* The signal path, for queues of any depth from three on, any sizes of    *)
(* buffer and memory, any windows, delays and samples, and any             *)
(* configuration packets at any edges.                                     *)
(*                                                                         *)
(* That an exchange between the correlation and the averaging ASP is never *)
(* lost is a matter of slots: the words that come to an ASP come in slots  *)
(* of their own, and so the answer finds a place in a queue that was full. *)
(* What the path does for the correlation ASP is then a service of the     *)
(* kind of CorAspService, whose theorems hold of it.                       *)
(***************************************************************************)
EXTENDS SignalPath, SequenceTheorems, FiniteSetTheorems, TLAPS

(* The theorems of the network; no deadlines are asked of it here. *)
Proved == INSTANCE TdmaMinProofs WITH Idle <- NoWord, due <- [p \in Ports |-> <<>>]

----------------------------------------------------------------------------
(* The network of SignalPath is the one that the theorems are about. *)
LEMMA SameSets ==
  /\ Net!Bit = 0 .. 2 /\ Proved!Bit = 0 .. 2
  /\ Net!Terminal = [0 .. 2 -> BOOLEAN] /\ Proved!Terminal = [0 .. 2 -> BOOLEAN]
  /\ Proved!Packet = Net!Packet /\ Proved!Data = Net!Data
BY PortsAssumption
   DEF Net!Bit, Proved!Bit, Net!Terminal, Proved!Terminal, Net!Packet, Proved!Packet,
       Net!Address, Proved!Address, Net!Data, Proved!Data

Kinds == {"sample", "avg_request", "new_address", "average", "correlation",
          "adc_config", "avg_config", "cor_config"}

LEMMA KindsOfWords ==
  /\ NoWord.kind = "none" /\ NoWord \notin Words
  /\ \A w \in Words : w.kind \in Kinds
<1>1. \A w \in ConfigWords : w.kind \in {"adc_config", "avg_config", "cor_config"}
  BY DEF ConfigWords
<1>2. \A config \in Configs : config.data \in ConfigWords
  BY WordAssumption
<1>3. \A w \in Words : w.kind \in Kinds
  BY <1>1, <1>2 DEF Words, Kinds
<1> QED BY <1>3, WordAssumption DEF Kinds

LEMMA Assumptions ==
  /\ Stages = 3 /\ Stages \in Nat \ {0} /\ Ports \subseteq Proved!Terminal
  /\ Depth \in Nat \ {0} /\ NoWord \notin Words /\ Far \cap Proved!Terminal = {}
BY SameSets, PortsAssumption, KindsOfWords

LEMMA SameParts ==
  /\ Proved!TypeOK <=> Net!TypeOK
  /\ \A p : Proved!Ready(p) <=> Net!Ready(p)
  /\ \A p : Proved!Partner(p) = Net!Partner(p)
  /\ Proved!Push = Net!Push
  /\ \A slot, push : Proved!Pull(slot, push) = Net!Pull(slot, push)
BY SameSets
   DEF Proved!TypeOK, Net!TypeOK, Proved!Ready, Net!Ready, Proved!Empty, Net!Empty,
       Proved!Partner, Net!Partner,
       Proved!Xor, Net!Xor, Proved!Push, Net!Push, Proved!Pull, Net!Pull, Proved!Links, Net!Links,
       Proved!Stage, Net!Stage, Proved!Entering, Net!Entering, Proved!Input, Net!Input,
       Proved!SwitchX, Net!SwitchX, Proved!SwitchY, Net!SwitchY, Proved!Bit, Net!Bit,
       Proved!Terminal, Net!Terminal, Proved!Packet, Net!Packet, Proved!Data, Net!Data,
       Proved!Address, Net!Address

LEMMA SameEdge == ASSUME NEW send PROVE Net!Edge(send) <=> Proved!Edge(send)
BY SameSets
   DEF Proved!Edge, Net!Edge, Proved!Increment, Net!Increment, Proved!ScFifo, Net!ScFifo,
       Proved!WaitState, Net!WaitState,
       Proved!Ready, Net!Ready, Proved!Empty, Net!Empty, Proved!Partner, Net!Partner,
       Proved!Xor, Net!Xor, Proved!Push, Net!Push, Proved!Pull, Net!Pull, Proved!Links, Net!Links,
       Proved!Stage, Net!Stage, Proved!Entering, Net!Entering, Proved!Input, Net!Input,
       Proved!SwitchX, Net!SwitchX, Proved!SwitchY, Net!SwitchY, Proved!Bit, Net!Bit,
       Proved!Terminal, Net!Terminal

(* What an edge does to the queues and to what the ports receive. *)
LEMMA NetEdge ==
  ASSUME Net!TypeOK, NEW send, Net!Edge(send)
  PROVE  /\ count \in [0 .. 2 -> BOOLEAN]
         /\ count' = Net!Increment(count)
         /\ \A p \in Ports :
              fifo'[p] = Net!ScFifo(fifo[p], Net!Ready(p), send[p].data # NoWord, send[p])
         /\ \A q \in Ports :
              recv'[q].data = IF Net!Partner(q) \in Ports /\ Net!Ready(Net!Partner(q))
                              THEN Head(fifo[Net!Partner(q)]).data ELSE NoWord
<1>1. Proved!TypeOK
  BY SameParts
<1>2. ASSUME NEW q \in Ports
      PROVE  Net!Pull(count, Net!Push)[q] =
               IF Net!Partner(q) \in Ports /\ Net!Ready(Net!Partner(q))
               THEN Head(fifo[Net!Partner(q)]).data ELSE NoWord
  <2>1. Proved!Pull(count, Proved!Push)[q] =
          IF Proved!Partner(q) \in Ports /\ Proved!Ready(Proved!Partner(q))
          THEN Head(fifo[Proved!Partner(q)]).data ELSE NoWord
    BY <1>1, Assumptions, Proved!PullFromPartner, Zenon
  <2> QED BY <2>1, SameParts
<1> QED BY <1>2, SameSets DEF Net!Edge, Net!TypeOK

LEMMA NetTypeStep ==
  ASSUME Net!TypeOK, NEW send, Net!Edge(send),
         \A p \in Ports : send[p].data # NoWord => send[p] \in Net!Packet
  PROVE  Net!TypeOK'
<1>1. Proved!TypeOK /\ Proved!Edge(send)
      /\ \A p \in Ports : send[p].data # NoWord => send[p] \in Proved!Packet
  BY SameParts, SameEdge, SameSets
<1>2. Proved!TypeOK'
  BY <1>1, Assumptions, Proved!EdgeTypeOK, Zenon
<1>3. (Proved!TypeOK <=> Net!TypeOK)'
  BY SameParts, PTL
<1> QED BY <1>2, <1>3

LEMMA NetTypeInit == Net!Init => Net!TypeOK
<1>1. Proved!Init => Proved!TypeOK
  BY Assumptions, Proved!InitTypeOK, Zenon
<1>2. Net!Init => Proved!Init
  BY DEF Net!Init, Proved!Init, Net!Zero, Proved!Zero, Net!Silent, Proved!Silent, Net!Bit, Proved!Bit
<1> QED BY <1>1, <1>2, SameParts

----------------------------------------------------------------------------
(* Ports and slots are numbers below eight. *)
LEMMA SameNumbers == ASSUME NEW n PROVE Port(n) = Proved!ToUnsigned(n, 3)
BY PortsAssumption DEF Port, ToUnsigned, Proved!ToUnsigned

(* An address has as many bits as a port, whatever its number is. *)
LEMMA PortType == ASSUME NEW n PROVE Port(n) \in Net!Terminal
<1>1. \A k : ((n \div 2^k) % 2 = 1) \in BOOLEAN
  OBVIOUS
<1> QED BY <1>1, SameSets, PortsAssumption DEF Port, ToUnsigned

LEMMA NumbersDiffer == \A m, n \in 0 .. 7 : Port(m) = Port(n) => m = n
BY SameNumbers, Assumptions, Proved!TerminalsDiffer, Zenon

LEMMA PortsInNetwork ==
  /\ {AdcPort, AvgPort, CorPort, PdPort, RecopPort} \subseteq Ports
  /\ AdcPort = Port(1) /\ AvgPort = Port(2) /\ CorPort = Port(3)
  /\ PdPort = Port(4) /\ RecopPort = Port(5)
  /\ AdcPort \notin {AvgPort, CorPort, PdPort, RecopPort}
  /\ AvgPort \notin {CorPort, PdPort, RecopPort}
  /\ CorPort \notin {PdPort, RecopPort}
  /\ PdPort # RecopPort
<1>1. \A n \in 1 .. 5 : Port(n) \in Ports
  BY PortsAssumption DEF Port
<1>2. 1 \in 0 .. 7 /\ 2 \in 0 .. 7 /\ 3 \in 0 .. 7 /\ 4 \in 0 .. 7 /\ 5 \in 0 .. 7
  OBVIOUS
<1> QED BY <1>1, <1>2, NumbersDiffer DEF AdcPort, AvgPort, CorPort, PdPort, RecopPort

(* The slot counter counts. *)
LEMMA NextSlot ==
  /\ Net!Zero = Port(0)
  /\ \A n \in 0 .. 6 : Net!Increment(Port(n)) = Port(n + 1)
  /\ Net!Increment(Port(7)) = Port(0)
<1>1. ASSUME NEW c PROVE Net!Increment(c) = Proved!Increment(c)
  BY SameSets DEF Net!Increment, Proved!Increment
<1>2. ASSUME NEW n \in 0 .. 6 PROVE Net!Increment(Port(n)) = Port(n + 1)
  <2>1. n \in 0 .. 7 /\ n + 1 \in 0 .. 7 /\ n # 7
    OBVIOUS
  <2> QED BY <2>1, <1>1, SameNumbers, Assumptions, Proved!NextTerminal, Zenon
<1>3. Net!Increment(Port(7)) = Port(0)
  <2>1. 0 \in 0 .. 7 /\ 7 \in 0 .. 7
    OBVIOUS
  <2> QED BY <2>1, <1>1, SameNumbers, Assumptions, Proved!NextTerminal, Zenon
<1>4. Net!Zero = Port(0)
  <2>1. 0 \in 0 .. 7 /\ 0 % 2 # 1 /\ (0 \div 2) % 2 # 1 /\ (0 \div 4) % 2 # 1
    OBVIOUS
  <2>2. /\ Port(0) \in [0 .. 2 -> BOOLEAN]
        /\ Port(0)[0] = (0 % 2 = 1)
        /\ Port(0)[1] = ((0 \div 2) % 2 = 1)
        /\ Port(0)[2] = ((0 \div 4) % 2 = 1)
    BY <2>1, SameNumbers, SameSets, Assumptions, Proved!TerminalBits, Zenon
  <2>3. \A k \in 0 .. 2 : Port(0)[k] = FALSE
    <3>1. \A k \in 0 .. 2 : k = 0 \/ k = 1 \/ k = 2
      OBVIOUS
    <3> QED BY <2>1, <2>2, <3>1
  <2> QED BY <2>2, <2>3, SameSets DEF Net!Zero
<1> QED BY <1>2, <1>3, <1>4

(* The slots in which the ports are joined. *)
LEMMA Slots ==
  ASSUME count \in [0 .. 2 -> BOOLEAN]
  PROVE  /\ Net!Partner(AvgPort) = AdcPort <=> count = Port(3)
         /\ Net!Partner(AvgPort) = CorPort <=> count = Port(1)
         /\ Net!Partner(AvgPort) = RecopPort <=> count = Port(7)
         /\ Net!Partner(CorPort) = AvgPort <=> count = Port(1)
         /\ Net!Partner(CorPort) = PdPort <=> count = Port(7)
<1>1. count \in Proved!Terminal
  BY SameSets
<1>2. ASSUME NEW a \in 0 .. 7, NEW b \in 0 .. 7, NEW c \in 0 .. 7,
             (a + b + c) % 2 = 0, ((a \div 2) + (b \div 2) + (c \div 2)) % 2 = 0,
             ((a \div 4) + (b \div 4) + (c \div 4)) % 2 = 0
      PROVE  Net!Partner(Port(a)) = Port(b) <=> count = Port(c)
  <2>1. Proved!Xor(Proved!ToUnsigned(a, 3), count) = Proved!ToUnsigned(b, 3)
          <=> count = Proved!ToUnsigned(c, 3)
    BY <1>1, <1>2, Assumptions, Proved!JoinedInSlot
  <2>2. Net!Partner(Port(a)) = Proved!Xor(Port(a), count)
    BY SameSets DEF Net!Partner, Net!Xor, Proved!Xor
  <2> QED BY <2>1, <2>2, SameNumbers
<1>3. Net!Partner(Port(2)) = Port(1) <=> count = Port(3)
  BY <1>2
<1>4. Net!Partner(Port(2)) = Port(3) <=> count = Port(1)
  BY <1>2
<1>5. Net!Partner(Port(2)) = Port(5) <=> count = Port(7)
  BY <1>2
<1>6. Net!Partner(Port(3)) = Port(2) <=> count = Port(1)
  BY <1>2
<1>7. Net!Partner(Port(3)) = Port(4) <=> count = Port(7)
  BY <1>2
<1> QED BY <1>3, <1>4, <1>5, <1>6, <1>7, PortsInNetwork

(* An edge takes the counter from a slot to the next. *)
SlotOK == \E n \in 0 .. 7 : count = Port(n)

LEMMA Tick ==
  ASSUME SlotOK, count' = Net!Increment(count)
  PROVE  SlotOK' /\ \A n \in 0 .. 6 : count' = Port(n + 1) <=> count = Port(n)
<1>1. PICK m \in 0 .. 7 : count = Port(m)
  BY DEF SlotOK
<1> DEFINE next == IF m = 7 THEN 0 ELSE m + 1
<1>2. count' = Port(next) /\ next \in 0 .. 7
  <2>1. CASE m = 7
    BY <1>1, <2>1, NextSlot
  <2>2. CASE m # 7
    <3>1. m \in 0 .. 6 BY <2>2
    <3> QED BY <1>1, <2>2, <3>1, NextSlot
  <2> QED BY <2>1, <2>2
<1>3. ASSUME NEW n \in 0 .. 6 PROVE count' = Port(n + 1) <=> count = Port(n)
  <2>1. n \in 0 .. 7 /\ n + 1 \in 0 .. 7 OBVIOUS
  <2>2. count = Port(n) => m = n
    BY <1>1, <2>1, NumbersDiffer
  <2>3. count' = Port(n + 1) => next = n + 1
    BY <1>2, <2>1, NumbersDiffer
  <2>4. m = n <=> next = n + 1
    OBVIOUS
  <2>5. count = Port(n) <=> m = n
    BY <1>1, <2>2
  <2>6. count' = Port(n + 1) <=> next = n + 1
    BY <1>2, <2>3
  <2> QED BY <2>4, <2>5, <2>6
<1>4. SlotOK'
  <2>1. \E n \in 0 .. 7 : count' = Port(n)
    BY <1>2
  <2> QED BY <2>1 DEF SlotOK, Port
<1> QED BY <1>3, <1>4

(* No two of the slots that matter are the same. *)
LEMMA OneSlot == \A m, n \in 0 .. 7 : count = Port(m) /\ count = Port(n) => m = n
BY NumbersDiffer

----------------------------------------------------------------------------
(* Types: what the send ports drive, what the queues hold, and the         *)
(* registers of the ASPs.                                                  *)
SampleWords  == [kind : {"sample"}, ten_bits : BOOLEAN, value : Samples]
Announces    == [kind : {"new_address"}, addr : Address]
Averages     == [kind : {"average"}, calculate : BOOLEAN, value : 0 .. SumModulus - 1]
RequestWords == [kind : {"avg_request"}, addr : Address]
Halves       == [kind : {"correlation"}, second : BOOLEAN, value : Nat]
Commands     == {config.data : config \in Configs}

SendsOK ==
  /\ adc_send = Silent \/ (adc_send.addr = 2 /\ adc_send.data \in SampleWords)
  /\ avg_send = Silent \/ (avg_send.addr = 3 /\ avg_send.data \in Announces \cup Averages)
  /\ \/ cor_send = Silent
     \/ cor_send.addr = 2 /\ cor_send.data \in RequestWords
     \/ cor_send.addr = 4 /\ cor_send.data \in Halves
  /\ recop_send = Silent \/ recop_send \in Configs

(* The packets that may be in the queue of a port. *)
Sent(p) ==
  CASE p = AdcPort   -> [addr : {AvgPort}, data : SampleWords]
    [] p = AvgPort   -> [addr : {CorPort}, data : Announces \cup Averages]
    [] p = CorPort   -> [addr : {AvgPort}, data : RequestWords]
                          \cup [addr : {PdPort}, data : Halves]
    [] p = RecopPort -> [addr : Net!Terminal, data : Commands]
    [] OTHER         -> {}

QueuesOK == \A p \in Ports : fifo[p] \in Seq(Sent(p))

AvgNumbers ==
  /\ avg_window_size \in 1 .. MaxN
  /\ buffer_reg \in [0 .. MaxN - 1 -> Nat] /\ ptr \in 0 .. MaxN - 1
  /\ sum_acc \in 0 .. SumModulus - 1 /\ avg_data \in 0 .. SumModulus - 1
  /\ avg_ready \in BOOLEAN /\ corr_calculate \in BOOLEAN
  /\ ram \in [Address -> 0 .. SumModulus - 1] /\ ram_q \in 0 .. SumModulus - 1
  /\ ram_raddr \in Address /\ ram_waddr \in Address
  /\ read_request \in BOOLEAN /\ prev_corr_calculate \in BOOLEAN

CorNumbers ==
  /\ state \in {"S0", "S1", "S2", "S3"}
  /\ correlation_window_size \in Nat \ {0} /\ counter \in Nat
  /\ calculate \in BOOLEAN
  /\ current_corr_origin \in Address /\ avg_data_mem_addr \in Address
  /\ newest_avg_data_addr \in Address
  /\ multiplicand_temp \in Nat /\ correlation_pair_product \in Nat /\ correlation \in Nat
  /\ cor_avg_data \in Nat
  /\ correlation_first_half \in BOOLEAN /\ correlation_second_half \in BOOLEAN
  /\ send_avg_data_rq \in BOOLEAN /\ has_send_avg_data_rq \in BOOLEAN
  /\ just_recv_avg_data \in BOOLEAN

TypeInv ==
  /\ Net!TypeOK /\ SlotOK /\ SendsOK /\ QueuesOK
  /\ bit_size \in BOOLEAN /\ AvgNumbers /\ CorNumbers /\ configs \in 0 .. MaxConfigs

(* The kind of a word says which of the sets it is in. *)
LEMMA KindSets ==
  ASSUME NEW w \in Words \cup {NoWord}
  PROVE  /\ w.kind = "sample" => w \in SampleWords
         /\ w.kind = "new_address" => w \in Announces
         /\ w.kind = "average" => w \in Averages
         /\ w.kind = "avg_request" => w \in RequestWords
         /\ w.kind \in {"adc_config", "avg_config", "cor_config"} => w \in ConfigWords
<1>1. CASE w = NoWord
  BY <1>1, KindsOfWords
<1>2. CASE w \in SampleWords
  BY <1>2 DEF SampleWords
<1>3. CASE w \in [kind : {"avg_request", "new_address"}, addr : Address]
  BY <1>3 DEF RequestWords, Announces
<1>4. CASE w \in Averages
  BY <1>4 DEF Averages
<1>5. CASE w \in Halves
  BY <1>5 DEF Halves
<1>6. CASE w \in Commands
  <2>1. w \in ConfigWords BY <1>6, WordAssumption DEF Commands
  <2>2. w.kind \in {"adc_config", "avg_config", "cor_config"} BY <2>1 DEF ConfigWords
  <2> QED BY <2>1, <2>2
<1> QED BY <1>1, <1>2, <1>3, <1>4, <1>5, <1>6
        DEF Words, SampleWords, Averages, Halves, Commands

LEMMA SentKinds ==
  /\ \A w \in SampleWords : w.kind = "sample" /\ w \in Words
  /\ \A w \in Announces : w.kind = "new_address" /\ w \in Words
  /\ \A w \in Averages : w.kind = "average" /\ w \in Words
  /\ \A w \in RequestWords : w.kind = "avg_request" /\ w \in Words
  /\ \A w \in Halves : w.kind = "correlation" /\ w \in Words
  /\ \A w \in Commands : w.kind \in {"adc_config", "avg_config", "cor_config"} /\ w \in Words
<1>1. \A w \in ConfigWords : w.kind \in {"adc_config", "avg_config", "cor_config"}
  BY DEF ConfigWords
<1>2. \A w \in Commands : w \in ConfigWords
  BY WordAssumption DEF Commands
<1>3. \A w \in SampleWords : w.kind = "sample" /\ w \in Words
  BY DEF SampleWords, Words
<1>4. \A w \in Announces : w.kind = "new_address" /\ w \in Words
  BY DEF Announces, Words
<1>5. \A w \in Averages : w.kind = "average" /\ w \in Words
  BY DEF Averages, Words
<1>6. \A w \in RequestWords : w.kind = "avg_request" /\ w \in Words
  BY DEF RequestWords, Words
<1>7. \A w \in Halves : w.kind = "correlation" /\ w \in Words
  BY DEF Halves, Words
<1>8. \A w \in Commands : w \in Words
  BY DEF Commands, Words
<1> QED BY <1>1, <1>2, <1>3, <1>4, <1>5, <1>6, <1>7, <1>8

(* What a port drives may go into its queue. *)
LEMMA Driven ==
  ASSUME SendsOK, NEW p \in Ports
  PROVE  /\ SendPort[p].data # NoWord => SendPort[p] \in Sent(p) /\ SendPort[p] \in Net!Packet
         /\ p = CorPort => SendPort[p].data = cor_send.data
         /\ p = AvgPort => SendPort[p].data = avg_send.data
<1>1. SendPort[p] = [addr |-> Port(SendSignal(p).addr), data |-> SendSignal(p).data]
  BY DEF SendPort
<1>2. \A n : Port(n) \in Net!Address
  BY PortType DEF Net!Address
<1>3. Silent.data = NoWord
  BY DEF Silent
<1>4. ASSUME SendPort[p].data \in Words PROVE SendPort[p] \in Net!Packet
  BY <1>1, <1>2, <1>4 DEF Net!Packet
<1>5. CASE p = AdcPort
  <2>1. SendSignal(p) = adc_send
    BY <1>5, PortsInNetwork DEF SendSignal
  <2>2. Sent(p) = [addr : {AvgPort}, data : SampleWords]
    BY <1>5, PortsInNetwork DEF Sent
  <2>3. adc_send # Silent => SendPort[p] \in Sent(p)
    BY <1>1, <2>1, <2>2, PortsInNetwork DEF SendsOK
  <2> QED BY <1>1, <1>3, <1>4, <1>5, <2>1, <2>3, SentKinds, PortsInNetwork DEF SendsOK
<1>6. CASE p = AvgPort
  <2>1. SendSignal(p) = avg_send
    BY <1>6, PortsInNetwork DEF SendSignal
  <2>2. Sent(p) = [addr : {CorPort}, data : Announces \cup Averages]
    BY <1>6, PortsInNetwork DEF Sent
  <2>3. avg_send # Silent => SendPort[p] \in Sent(p)
    BY <1>1, <2>1, <2>2, PortsInNetwork DEF SendsOK
  <2> QED BY <1>1, <1>3, <1>4, <1>6, <2>1, <2>3, SentKinds, PortsInNetwork DEF SendsOK
<1>7. CASE p = CorPort
  <2>1. SendSignal(p) = cor_send
    BY <1>7, PortsInNetwork DEF SendSignal
  <2>2. Sent(p) = [addr : {AvgPort}, data : RequestWords] \cup [addr : {PdPort}, data : Halves]
    BY <1>7, PortsInNetwork DEF Sent
  <2>3. cor_send # Silent => SendPort[p] \in Sent(p)
    BY <1>1, <2>1, <2>2, PortsInNetwork DEF SendsOK
  <2> QED BY <1>1, <1>3, <1>4, <1>7, <2>1, <2>3, SentKinds, PortsInNetwork DEF SendsOK
<1>8. CASE p = RecopPort
  <2>1. SendSignal(p) = recop_send
    BY <1>8, PortsInNetwork DEF SendSignal
  <2>2. Sent(p) = [addr : Net!Terminal, data : Commands]
    BY <1>8, PortsInNetwork DEF Sent
  <2>3. recop_send # Silent => recop_send.data \in Commands
    BY DEF SendsOK, Commands
  <2>4. recop_send # Silent => SendPort[p] \in Sent(p)
    BY <1>1, <2>1, <2>2, <2>3, PortType
  <2> QED BY <1>1, <1>3, <1>4, <1>8, <2>1, <2>3, <2>4, SentKinds, PortsInNetwork
<1>9. CASE p \notin {AdcPort, AvgPort, CorPort, RecopPort}
  <2>1. SendSignal(p) = Silent
    BY <1>9 DEF SendSignal
  <2> QED BY <1>1, <1>3, <1>9, <2>1
<1> QED BY <1>5, <1>6, <1>7, <1>8, <1>9

(* What an edge does to a queue: the head leaves in its slot, and what the *)
(* port drives comes behind the rest if the queue was not full.            *)
LEMMA QueueStep ==
  ASSUME TypeInv, Net!Edge(SendPort), NEW p \in Ports
  PROVE  \E kept \in Seq(Sent(p)) :
           /\ kept = IF Net!Ready(p) THEN Tail(fifo[p]) ELSE fifo[p]
           /\ Net!Ready(p) => fifo[p] # <<>> /\ Head(fifo[p]).addr = Net!Partner(p)
           /\ fifo'[p] = IF SendPort[p].data # NoWord /\ Len(fifo[p]) < Depth
                         THEN Append(kept, SendPort[p]) ELSE kept
           /\ fifo'[p] \in Seq(Sent(p))
<1>1. fifo[p] \in Seq(Sent(p)) /\ Net!TypeOK
  BY DEF TypeInv, QueuesOK
<1>2. Net!Ready(p) => fifo[p] # <<>> /\ Head(fifo[p]).addr = Net!Partner(p)
  BY DEF Net!Ready, Net!Empty
<1>3. PICK kept : kept = IF Net!Ready(p) THEN Tail(fifo[p]) ELSE fifo[p]
  OBVIOUS
<1>4. kept \in Seq(Sent(p))
  BY <1>1, <1>2, <1>3
<1>5. fifo'[p] = IF SendPort[p].data # NoWord /\ Len(fifo[p]) < Depth
                 THEN Append(kept, SendPort[p]) ELSE kept
  BY <1>1, <1>3, NetEdge DEF Net!ScFifo
<1>6. SendPort[p].data # NoWord => SendPort[p] \in Sent(p)
  BY Driven DEF TypeInv
<1>7. SendPort[p] \in Sent(p) => Append(kept, SendPort[p]) \in Seq(Sent(p))
  BY <1>4
<1>8. fifo'[p] \in Seq(Sent(p))
  BY <1>4, <1>5, <1>6, <1>7
<1> QED BY <1>2, <1>3, <1>4, <1>5, <1>8

(* Ports are partners of each other, if at all. *)
LEMMA PartnerOf ==
  ASSUME count \in [0 .. 2 -> BOOLEAN], NEW p \in Ports
  PROVE  /\ Net!Partner(Net!Partner(p)) = p
         /\ \A q : Net!Partner(p) = q => Net!Partner(q) = p
<1>1. p \in Proved!Terminal /\ count \in Proved!Terminal
  BY SameSets, PortsAssumption
<1>2. Proved!Xor(Proved!Xor(p, count), count) = p
  BY <1>1, Assumptions, Proved!XorCancel, Zenon
<1>3. Net!Partner(Net!Partner(p)) = p
  BY <1>2, SameParts DEF Proved!Partner
<1> QED BY <1>3

(* What a port receives has left the head of its partner's queue. *)
LEMMA Arrival ==
  ASSUME TypeInv, Net!Edge(SendPort), NEW q \in Ports
  PROVE  \/ recv'[q].data = NoWord /\ ~ (Net!Partner(q) \in Ports /\ Net!Ready(Net!Partner(q)))
         \/ /\ Net!Partner(q) \in Ports
            /\ Net!Ready(Net!Partner(q))
            /\ recv'[q].data = Head(fifo[Net!Partner(q)]).data
            /\ Head(fifo[Net!Partner(q)]) \in Sent(Net!Partner(q))
            /\ Head(fifo[Net!Partner(q)]).addr = q
            /\ recv'[q].data \in Words
<1> DEFINE p == Net!Partner(q)
<1>1. recv'[q].data = IF p \in Ports /\ Net!Ready(p) THEN Head(fifo[p]).data ELSE NoWord
  BY NetEdge DEF TypeInv
<1>2. CASE p \in Ports /\ Net!Ready(p)
  <2>1. fifo[p] # <<>> /\ Head(fifo[p]).addr = Net!Partner(p)
    BY <1>2 DEF Net!Ready, Net!Empty
  <2>2. Net!Partner(p) = q
    BY PartnerOf, NetEdge DEF TypeInv
  <2>3. fifo[p] \in Seq(Sent(p))
    BY <1>2 DEF TypeInv, QueuesOK
  <2>4. Head(fifo[p]) \in Sent(p)
    BY <2>1, <2>3
  <2>5. fifo[p] \in Seq(Net!Packet)
    BY <1>2 DEF TypeInv, Net!TypeOK
  <2>6. Head(fifo[p]) \in Net!Packet
    BY <2>1, <2>5
  <2>7. Head(fifo[p]).data \in Words
    BY <2>6 DEF Net!Packet
  <2> QED BY <1>1, <1>2, <2>1, <2>2, <2>4, <2>7
<1> QED BY <1>1, <1>2

(* The slots in which the words come. *)
Arrivals ==
  /\ recv[AvgPort].data.kind = "sample" => count = Port(4)
  /\ recv[AvgPort].data.kind = "avg_request" => count = Port(2)
  /\ recv[AvgPort].data.kind = "avg_config" => count = Port(0)
  /\ recv[CorPort].data.kind \in {"average", "new_address"} => count = Port(2)

(* Which port sends which kind of word. *)
LEMMA Senders ==
  ASSUME NEW p \in Ports, NEW packet \in Sent(p)
  PROVE  /\ packet.data.kind = "sample" => p = AdcPort
         /\ packet.data.kind = "avg_request" => p = CorPort
         /\ packet.data.kind \in {"average", "new_address"} => p = AvgPort
         /\ packet.data.kind \in {"adc_config", "avg_config", "cor_config"} => p = RecopPort
<1>1. CASE p = AdcPort
  <2>1. packet \in [addr : {AvgPort}, data : SampleWords]
    BY <1>1, PortsInNetwork DEF Sent
  <2> QED BY <1>1, <2>1, SentKinds
<1>2. CASE p = AvgPort
  <2>1. packet \in [addr : {CorPort}, data : Announces \cup Averages]
    BY <1>2, PortsInNetwork DEF Sent
  <2> QED BY <1>2, <2>1, SentKinds
<1>3. CASE p = CorPort
  <2>1. packet \in [addr : {AvgPort}, data : RequestWords] \cup [addr : {PdPort}, data : Halves]
    BY <1>3, PortsInNetwork DEF Sent
  <2> QED BY <1>3, <2>1, SentKinds
<1>4. CASE p = RecopPort
  <2>1. packet \in [addr : Net!Terminal, data : Commands]
    BY <1>4, PortsInNetwork DEF Sent
  <2> QED BY <1>4, <2>1, SentKinds
<1>5. CASE p \notin {AdcPort, AvgPort, CorPort, RecopPort}
  BY <1>5 DEF Sent
<1> QED BY <1>1, <1>2, <1>3, <1>4, <1>5

LEMMA ArrivalsNext ==
  ASSUME TypeInv, Net!Edge(SendPort)
  PROVE  Arrivals'
<1>1. count \in [0 .. 2 -> BOOLEAN] /\ count' = Net!Increment(count)
  BY NetEdge DEF TypeInv
<1>2. \A n \in 0 .. 6 : count' = Port(n + 1) <=> count = Port(n)
  BY <1>1, Tick DEF TypeInv
<1>3. ASSUME NEW q \in Ports, recv'[q].data.kind # "none"
      PROVE  /\ recv'[q].data.kind = "sample" => Net!Partner(q) = AdcPort
             /\ recv'[q].data.kind = "avg_request" => Net!Partner(q) = CorPort
             /\ recv'[q].data.kind \in {"average", "new_address"} => Net!Partner(q) = AvgPort
             /\ recv'[q].data.kind = "avg_config" => Net!Partner(q) = RecopPort
  <2>1. recv'[q].data # NoWord
    BY <1>3, KindsOfWords
  <2> QED BY <2>1, Arrival, Senders
<1>4. recv'[AvgPort].data.kind = "sample" => count' = Port(4)
  BY <1>1, <1>2, <1>3, Slots, PortsInNetwork
<1>5. recv'[AvgPort].data.kind = "avg_request" => count' = Port(2)
  BY <1>1, <1>2, <1>3, Slots, PortsInNetwork
<1>6. recv'[CorPort].data.kind \in {"average", "new_address"} => count' = Port(2)
  BY <1>1, <1>2, <1>3, Slots, PortsInNetwork
<1>7. recv'[AvgPort].data.kind = "avg_config" => count' = Port(0)
  <2>1. recv'[AvgPort].data.kind = "avg_config" => count = Port(7)
    BY <1>1, <1>3, Slots, PortsInNetwork
  <2> QED BY <1>1, <2>1, NextSlot
<1> QED BY <1>4, <1>5, <1>6, <1>7 DEF Arrivals, AvgPort, CorPort, Port

(* The word that an ASP reads. *)
LEMMA Received ==
  ASSUME TypeInv, NEW p \in Ports
  PROVE  recv[p].data \in Words \cup {NoWord}
BY DEF TypeInv, Net!TypeOK, Net!Data

LEMMA AddressType ==
  /\ RamSize \in Nat \ {0} /\ 0 \in Address /\ Address \subseteq Nat
  /\ \A n \in Nat : n % RamSize \in Address
BY AspAssumption DEF Address

(* The sampling ASP. *)
LEMMA AdcTypes ==
  ASSUME TypeInv, NEW word, NEW adc \in Samples, Adc!AdcEdge(word, adc)
  PROVE  /\ bit_size' \in BOOLEAN
         /\ adc_send' = Silent \/ (adc_send'.addr = 2 /\ adc_send'.data \in SampleWords)
<1>1. bit_size' = TRUE \/ bit_size' = FALSE
  BY Zenon DEF Adc!AdcEdge, Adc!Configure
<1>2. CASE Adc!Sample(adc)
  <2>1. adc_send' = [addr |-> 2,
                     data |-> [kind |-> "sample", ten_bits |-> bit_size, value |-> adc]]
    BY <1>2 DEF Adc!Sample, Adc!AvgAddr
  <2> QED BY <1>1, <2>1 DEF SampleWords, TypeInv
<1>3. CASE Adc!Wait
  BY <1>1, <1>3 DEF Adc!Wait, Silent
<1> QED BY <1>2, <1>3 DEF Adc!AdcEdge

(* The averaging ASP. *)
LEMMA AvgTypes ==
  ASSUME TypeInv, NEW word \in Words \cup {NoWord}, Avg!AvgEdge(word)
  PROVE  /\ AvgNumbers'
         /\ avg_send' = Silent \/ (avg_send'.addr = 3 /\ avg_send'.data \in Announces \cup Averages)
<1> USE DEF AvgNumbers
<1>1. AvgNumbers
  BY DEF TypeInv
<1>2. /\ avg_window_size' \in 1 .. MaxN
      /\ buffer_reg' \in [0 .. MaxN - 1 -> Nat] /\ ptr' \in 0 .. MaxN - 1
      /\ sum_acc' \in 0 .. SumModulus - 1 /\ avg_data' \in 0 .. SumModulus - 1
      /\ avg_ready' \in BOOLEAN /\ corr_calculate' \in BOOLEAN
  <2>1. MaxN \in Nat \ {0} /\ SumModulus \in Nat \ {0} /\ EightBits \in Nat \ {0}
    BY AspAssumption
  <2>2. CASE Avg!AvgConfig(word)
    <3>1. word.window \in 0 .. 7
      BY <2>2, KindSets DEF Avg!AvgConfig, ConfigWords
    <3>2. WindowSize[word.window] \in 1 .. MaxN
      BY <3>1, AspAssumption
    <3> QED BY <1>1, <2>2, <3>2 DEF Avg!AvgConfig
  <2>3. CASE Avg!AvgSample(word)
    <3>1. word \in SampleWords
      BY <2>3, KindSets DEF Avg!AvgSample, Avg!IsSample
    <3>2. word.value \in Nat
      BY <3>1, WordAssumption DEF SampleWords
    <3>3. PICK new : new = Avg!SampleOf(word)
      OBVIOUS
    <3>4. new \in Nat
      BY <2>1, <3>2, <3>3 DEF Avg!SampleOf
    <3>5. buffer_reg[ptr] \in Nat
      BY <1>1
    <3>6. Avg!Replace(sum_acc, new, buffer_reg[ptr]) \in 0 .. SumModulus - 1
      <4>1. PICK total : total = sum_acc + new + (SumModulus - buffer_reg[ptr])
        OBVIOUS
      <4>2. total \in Int
        BY <1>1, <2>1, <3>4, <3>5, <4>1
      <4>3. total % SumModulus \in 0 .. SumModulus - 1
        BY <2>1, <4>2
      <4> QED BY <4>1, <4>3 DEF Avg!Replace
    <3>7. Avg!Advance(ptr) \in 0 .. MaxN - 1
      BY <1>1, <2>1 DEF Avg!Advance
    <3>8. corr_calculate' \in BOOLEAN
      <4>1. (correlation_sample_interval_counter + 1 >= correlation_sample_interval) \in BOOLEAN
        OBVIOUS
      <4> QED BY <2>3, <4>1, Zenon DEF Avg!AvgSample
    <3>9. /\ buffer_reg' = [buffer_reg EXCEPT ![ptr] = new]
          /\ sum_acc' = Avg!Replace(sum_acc, new, buffer_reg[ptr])
          /\ ptr' = Avg!Advance(ptr) /\ avg_data' = sum_acc /\ avg_ready' = TRUE
          /\ avg_window_size' = avg_window_size
      BY <2>3, <3>3 DEF Avg!AvgSample
    <3>10. buffer_reg' \in [0 .. MaxN - 1 -> Nat]
      BY <1>1, <3>4, <3>9
    <3> QED BY <1>1, <3>6, <3>7, <3>8, <3>9, <3>10
  <2>4. CASE Avg!AvgNoSample(word)
    <3>1. avg_ready' \in BOOLEAN /\ corr_calculate' \in BOOLEAN
      BY <1>1, <2>4, Zenon DEF Avg!AvgNoSample
    <3>2. 0 \in 0 .. SumModulus - 1
      BY <2>1
    <3> QED BY <1>1, <2>4, <3>1, <3>2 DEF Avg!AvgNoSample
  <2> QED BY <2>2, <2>3, <2>4 DEF Avg!AvgEdge, Avg!AvgCoreEdge
<1>3. ram' \in [Address -> 0 .. SumModulus - 1] /\ ram_q' \in 0 .. SumModulus - 1
  BY <1>1 DEF Avg!AvgEdge, Avg!RamEdge
<1>4. ram_raddr' \in Address
  <2>1. word.kind = "avg_request" => word.addr \in Address
    BY KindSets DEF RequestWords
  <2> QED BY <1>1, <2>1 DEF Avg!AvgEdge, Avg!LatchRequest, Avg!IsRequest
<1>5. Avg!Requested(word) \in BOOLEAN
  BY <1>1 DEF Avg!Requested, Avg!IsRequest
<1>6. /\ ram_waddr' \in Address
      /\ read_request' \in BOOLEAN /\ prev_corr_calculate' \in BOOLEAN
      /\ avg_send' = Silent \/ (avg_send'.addr = 3 /\ avg_send'.data \in Announces \cup Averages)
  <2>1. CASE Avg!AnnounceAverage(word)
    <3>1. Avg!NextCell(ram_waddr) \in Address
      <4>1. ram_waddr + 1 \in Nat
        BY <1>1, AddressType
      <4> QED BY <4>1, AddressType DEF Avg!NextCell
    <3>2. [kind |-> "new_address", addr |-> ram_waddr] \in Announces
      BY <1>1 DEF Announces
    <3> QED BY <1>1, <1>5, <2>1, <3>1, <3>2 DEF Avg!AnnounceAverage, Avg!CorAddr
  <2>2. CASE Avg!AnswerRequest(word)
    <3>1. [kind |-> "average", calculate |-> prev_corr_calculate, value |-> ram_q] \in Averages
      BY <1>1 DEF Averages
    <3> QED BY <1>1, <2>2, <3>1 DEF Avg!AnswerRequest, Avg!CorAddr
  <2>3. CASE Avg!SendNothing(word)
    BY <1>1, <1>5, <2>3 DEF Avg!SendNothing, Silent
  <2> QED BY <2>1, <2>2, <2>3 DEF Avg!AvgEdge
<1>7. AvgNumbers'
  BY <1>2, <1>3, <1>4, <1>6 DEF Address
<1> QED BY <1>6, <1>7

(* The correlation ASP. *)
LEMMA ReceiveTypes ==
  ASSUME TypeInv, NEW word \in Words \cup {NoWord}, Cor!Receive(word)
  PROVE  /\ correlation_window_size' \in Nat \ {0}
         /\ cor_avg_data' \in Nat
         /\ newest_avg_data_addr' \in Address
<1>1. /\ word.kind = "cor_config" => word.window \in 0 .. 7
      /\ word.kind = "average" => word.value \in Nat
      /\ word.kind = "new_address" => word.addr \in Address
  <2>1. word.kind = "cor_config" => word.window \in 0 .. 7
    BY KindSets DEF ConfigWords
  <2>2. word.kind = "average" => word.value \in Nat
    BY KindSets DEF Averages
  <2>3. word.kind = "new_address" => word.addr \in Address
    BY KindSets DEF Announces
  <2> QED BY <2>1, <2>2, <2>3
<1>2. \A w \in 0 .. 7 : CorWindow[w] \in Nat \ {0}
  BY AspAssumption
<1> QED BY <1>1, <1>2 DEF Cor!Receive, TypeInv, CorNumbers

LEMMA FetchType ==
  ASSUME TypeInv, newest_avg_data_addr' \in Address, state \in {"S0", "S1", "S3"}
  PROVE  Cor!FetchAddr \in Address
<1>1. /\ counter \in Nat /\ Cor!Half \in Nat
      /\ current_corr_origin \in Address /\ current_corr_origin \in Nat
  BY AddressType DEF TypeInv, CorNumbers, Cor!Half
<1>2. ASSUME NEW a \in Address, NEW n \in Nat PROVE Cor!AddrMinus(a, n) \in Address
  <2>1. n % RamSize \in 0 .. RamSize - 1 BY AddressType
  <2>2. a + (RamSize - (n % RamSize)) \in Nat BY <2>1, AddressType
  <2> QED BY <2>2, AddressType DEF Cor!AddrMinus
<1>3. CASE state = "S0"
  <2>1. Cor!AddrMinus(newest_avg_data_addr', Cor!Half) \in Address
    <3>1. \A a \in Address : Cor!AddrMinus(a, Cor!Half) \in Address BY <1>1, <1>2
    <3> QED BY <3>1
  <2>2. PICK a \in Address : a = Cor!AddrMinus(newest_avg_data_addr', Cor!Half)
    BY <2>1
  <2>3. (a + 1) % RamSize \in Address
    BY AddressType
  <2> QED BY <1>3, <2>2, <2>3 DEF Cor!FetchAddr
<1>4. CASE state = "S1"
  BY <1>1, <1>2, <1>4 DEF Cor!FetchAddr
<1>5. CASE state = "S3"
  <2>1. (current_corr_origin + counter) % RamSize \in Address
    BY <1>1, AddressType
  <2> QED BY <1>5, <2>1 DEF Cor!FetchAddr
<1> QED BY <1>3, <1>4, <1>5

LEMMA MachineTypes ==
  ASSUME TypeInv, NEW word \in Words \cup {NoWord}, Cor!Receive(word), Cor!Machine(word)
  PROVE  /\ state' \in {"S0", "S1", "S2", "S3"} /\ counter' \in Nat
         /\ calculate' \in BOOLEAN /\ just_recv_avg_data' \in BOOLEAN
         /\ current_corr_origin' \in Address /\ avg_data_mem_addr' \in Address
         /\ multiplicand_temp' \in Nat /\ correlation_pair_product' \in Nat
         /\ correlation' \in Nat
<1>1. CorNumbers
  BY DEF TypeInv
<1> USE DEF CorNumbers
<1>2. Cor!Got(word) \in BOOLEAN
  BY <1>1 DEF Cor!Got
<1>3. Cor!Asked(word) \in BOOLEAN
  <2>1. word.kind = "average" => word.calculate \in BOOLEAN
    BY KindSets DEF Averages
  <2> QED BY <2>1 DEF Cor!Asked
<1>4. cor_avg_data' \in Nat
  BY ReceiveTypes
<1>5. CASE Cor!Await(word)
  <2>1. Cor!FetchAddr \in Address
    BY <1>5, FetchType, ReceiveTypes DEF Cor!Await
  <2>2. avg_data_mem_addr' \in Address
    BY <1>1, <1>5, <2>1 DEF Cor!Await
  <2> QED BY <1>1, <1>3, <1>5, <2>2 DEF Cor!Await
<1>6. CASE Cor!Discard(word)
  BY <1>1, <1>3, <1>6 DEF Cor!Discard
<1>7. CASE Cor!Start(word)
  BY <1>1, <1>4, <1>7 DEF Cor!Start
<1>8. CASE Cor!Multiply(word)
  <2>1. \A a, b \in Nat : a * b \in Nat
    OBVIOUS
  <2>2. multiplicand_temp * cor_avg_data' \in Nat
    BY <1>1, <1>4, <2>1
  <2>3. correlation_pair_product' \in Nat
    BY <1>8, <2>2 DEF Cor!Multiply
  <2> QED BY <1>1, <1>3, <1>8, <2>3 DEF Cor!Multiply
<1>9. CASE Cor!CountPair(word)
  BY <1>1, <1>2, <1>3, <1>9 DEF Cor!CountPair
<1>10. CASE Cor!Accumulate(word)
  <2>1. correlation + correlation_pair_product \in Nat
    BY <1>1
  <2>2. state' \in {"S0", "S1", "S2", "S3"} /\ counter' \in Nat /\ multiplicand_temp' \in Nat
    BY <1>1, <1>4, <1>10 DEF Cor!Accumulate
  <2>3. calculate' \in BOOLEAN /\ just_recv_avg_data' \in BOOLEAN
    BY <1>1, <1>3, <1>10 DEF Cor!Accumulate
  <2>4. /\ correlation' \in Nat /\ correlation_pair_product' \in Nat
        /\ current_corr_origin' \in Address /\ avg_data_mem_addr' \in Address
    BY <1>1, <1>10, <2>1 DEF Cor!Accumulate
  <2> QED BY <2>2, <2>3, <2>4
<1> QED BY <1>5, <1>6, <1>7, <1>8, <1>9, <1>10 DEF Cor!Machine

LEMMA TransmitTypes ==
  ASSUME TypeInv, NEW word \in Words \cup {NoWord}, Cor!CorEdge(word)
  PROVE  /\ correlation_first_half' \in BOOLEAN /\ correlation_second_half' \in BOOLEAN
         /\ send_avg_data_rq' \in BOOLEAN /\ has_send_avg_data_rq' \in BOOLEAN
         /\ \/ cor_send' = Silent
            \/ cor_send'.addr = 2 /\ cor_send'.data \in RequestWords
            \/ cor_send'.addr = 4 /\ cor_send'.data \in Halves
<1>1. CorNumbers
  BY DEF TypeInv
<1> USE DEF CorNumbers
<1>2. Cor!Wanted(word) \in BOOLEAN /\ Cor!Out(word) \in BOOLEAN /\ Cor!Completes(word) \in BOOLEAN
  BY <1>1 DEF Cor!Wanted, Cor!Out, Cor!Completes
<1>3. Cor!Transmit(word) /\ avg_data_mem_addr' \in Address
  BY MachineTypes DEF Cor!CorEdge
<1>4. CASE Cor!SendFirstHalf(word)
  BY <1>1, <1>2, <1>4 DEF Cor!SendFirstHalf, Halves, Cor!PdAddr
<1>5. CASE Cor!SendSecondHalf(word)
  BY <1>1, <1>2, <1>5 DEF Cor!SendSecondHalf, Halves, Cor!PdAddr
<1>6. CASE Cor!SendRequest(word)
  <2>1. cor_send'.addr = 2 /\ cor_send'.data \in RequestWords
    BY <1>3, <1>6 DEF Cor!SendRequest, RequestWords, Cor!AvgAddr
  <2> QED BY <1>1, <1>2, <1>6, <2>1 DEF Cor!SendRequest, Cor!NoHalf
<1>7. CASE Cor!SendNothing(word)
  BY <1>1, <1>2, <1>7 DEF Cor!SendNothing, Cor!NoHalf, Silent
<1> QED BY <1>3, <1>4, <1>5, <1>6, <1>7 DEF Cor!Transmit

LEMMA InitTypes == Init => TypeInv
<1> SUFFICES ASSUME Init PROVE TypeInv
  OBVIOUS
<1> USE DEF Init
<1>1. Net!TypeOK
  BY NetTypeInit
<1>2. SlotOK
  <2>1. count = Port(0) /\ 0 \in 0 .. 7
    BY NextSlot DEF Net!Init
  <2> QED BY <2>1 DEF SlotOK
<1>3. SendsOK
  BY DEF SendsOK, Adc!AdcInit, Avg!AvgInit, Cor!CorInit, Silent
<1>4. QueuesOK
  BY DEF QueuesOK, Net!Init
<1>5. AvgNumbers
  <2> USE DEF Avg!AvgInit, Avg!AvgCoreInit
  <2>1. MaxN \in Nat \ {0} /\ SumModulus \in Nat \ {0}
    BY AspAssumption
  <2>2. /\ avg_window_size \in 1 .. MaxN /\ ptr \in 0 .. MaxN - 1
        /\ sum_acc \in 0 .. SumModulus - 1 /\ avg_data \in 0 .. SumModulus - 1
        /\ ram_q \in 0 .. SumModulus - 1
    BY <2>1
  <2>3. buffer_reg \in [0 .. MaxN - 1 -> Nat]
    OBVIOUS
  <2>4. ram \in [Address -> 0 .. SumModulus - 1] /\ ram_raddr \in Address /\ ram_waddr \in Address
    BY <2>1, AddressType DEF Address
  <2>5. /\ avg_ready \in BOOLEAN /\ corr_calculate \in BOOLEAN
        /\ read_request \in BOOLEAN /\ prev_corr_calculate \in BOOLEAN
    BY Zenon
  <2> QED BY <2>2, <2>3, <2>4, <2>5 DEF AvgNumbers
<1>6. CorNumbers
  BY AspAssumption, AddressType DEF CorNumbers, Cor!CorInit
<1>7. bit_size \in BOOLEAN /\ configs \in 0 .. MaxConfigs
  <2>1. bit_size = FALSE
    BY Zenon DEF Adc!AdcInit
  <2>2. configs \in 0 .. MaxConfigs
    BY WordAssumption
  <2> QED BY <2>1, <2>2
<1> QED BY <1>1, <1>2, <1>3, <1>4, <1>5, <1>6, <1>7 DEF TypeInv

LEMMA EdgeTypes == ASSUME TypeInv, NEW adc \in Samples, Edge(adc) PROVE TypeInv'
<1>1. Net!TypeOK'
  <2>1. \A p \in Ports : SendPort[p].data # NoWord => SendPort[p] \in Net!Packet
    BY Driven DEF TypeInv
  <2> QED BY <2>1, NetTypeStep DEF TypeInv, Edge
<1>2. SlotOK'
  BY NetEdge, Tick DEF TypeInv, Edge
<1>3. QueuesOK'
  <2>1. \A p \in Ports : fifo'[p] \in Seq(Sent(p))
    BY QueueStep DEF Edge
  <2>2. \A p : Sent(p)' = Sent(p)
    BY DEF Sent, AdcPort, AvgPort, CorPort, PdPort, RecopPort, Port, SampleWords, Announces,
           Averages, RequestWords, Halves, Commands, Address, Net!Terminal, Net!Bit
  <2> QED BY <2>1, <2>2 DEF QueuesOK
<1>4. /\ bit_size' \in BOOLEAN
      /\ adc_send' = Silent \/ (adc_send'.addr = 2 /\ adc_send'.data \in SampleWords)
  BY AdcTypes DEF Edge
<1>5. /\ AvgNumbers'
      /\ avg_send' = Silent \/ (avg_send'.addr = 3 /\ avg_send'.data \in Announces \cup Averages)
  BY AvgTypes, Received, PortsInNetwork DEF Edge
<1>6. Cor!CorEdge(recv[CorPort].data) /\ recv[CorPort].data \in Words \cup {NoWord}
  BY Received, PortsInNetwork DEF Edge
<1>7. CorNumbers'
  BY <1>6, ReceiveTypes, MachineTypes, TransmitTypes DEF Cor!CorEdge, CorNumbers, Address
<1>8. configs' \in 0 .. MaxConfigs /\ (recop_send' = Silent \/ recop_send' \in Configs)
  BY WordAssumption DEF TypeInv, Edge, RecopEdge
<1>9. SendsOK'
  BY <1>4, <1>5, <1>6, <1>8, TransmitTypes
     DEF SendsOK, Silent, SampleWords, Announces, Averages, RequestWords, Halves, Address
<1> QED BY <1>1, <1>2, <1>3, <1>4, <1>5, <1>7, <1>8, <1>9 DEF TypeInv

LEMMA NextTypes == TypeInv /\ [Next]_vars => TypeInv'
<1> SUFFICES ASSUME TypeInv, [Next]_vars PROVE TypeInv'
  OBVIOUS
<1>1. CASE Next
  BY <1>1, EdgeTypes DEF Next
<1>2. CASE UNCHANGED vars
  <2>1. /\ UNCHANGED <<count, fifo, wait_state, recv, bit_size, configs>>
        /\ UNCHANGED <<adc_send, avg_send, cor_send, recop_send>>
    BY <1>2 DEF vars, netVars, Adc!adcVars, Avg!avgVars, Avg!avgRamVars, Cor!corVars
  <2>2. Net!TypeOK' /\ SlotOK'
    BY <2>1 DEF TypeInv, Net!TypeOK, SlotOK, Port, Net!Terminal, Net!Bit, Net!Packet,
                Net!Address, Net!Data
  <2>3. SendsOK' /\ QueuesOK' /\ bit_size' \in BOOLEAN /\ configs' \in 0 .. MaxConfigs
    BY <2>1 DEF TypeInv, SendsOK, QueuesOK, Silent, SampleWords, Announces, Averages,
                RequestWords, Halves, Address, Sent, AdcPort, AvgPort, CorPort, PdPort, RecopPort,
                Port, Commands, Net!Terminal, Net!Bit
  <2>4. AvgNumbers'
    BY <1>2 DEF TypeInv, AvgNumbers, vars, Avg!avgVars, Avg!avgCoreVars, Avg!avgRamVars, Address
  <2>5. CorNumbers'
    BY <1>2 DEF TypeInv, CorNumbers, vars, Cor!corVars, Address
  <2> QED BY <2>2, <2>3, <2>4, <2>5 DEF TypeInv
<1> QED BY <1>1, <1>2

(* Every queue and receive register holds only words that the ASPs send,   *)
(* and every address in the ASPs fits the memory, for any sizes, windows   *)
(* and configuration packets (AvgAsp_RAM, CorAsp, TdmaMinInterface).       *)
THEOREM SignalPathTypeCorrect == Spec => []TypeOK
<1>1. TypeInv => TypeOK
  BY DEF TypeInv, TypeOK, AvgNumbers, CorNumbers
<1> QED BY <1>1, InitTypes, NextTypes, PTL DEF Spec

----------------------------------------------------------------------------
(* Every word of the exchange has a slot of its own, and so has every step *)
(* of the averaging ASP. While an answer is on its way to the queue of the *)
(* averaging ASP, the slot of the correlation ASP has just passed and the  *)
(* queue is not full.                                                      *)
AvgTimes ==
  /\ avg_ready => count = Port(5)
  /\ read_request => count = Port(3)
  /\ avg_send.data.kind = "new_address" => count = Port(6)
  /\ avg_send.data.kind = "average" => count = Port(4)
  /\ count \in {Port(2), Port(3), Port(4)} => Len(fifo[AvgPort]) < Depth

SlotInv == Arrivals /\ AvgTimes

LEMMA InitSlots == Init => SlotInv
<1> SUFFICES ASSUME Init PROVE SlotInv
  OBVIOUS
<1>1. Net!Init /\ avg_ready = FALSE /\ read_request = FALSE /\ avg_send.data = NoWord
  BY Zenon DEF Init, Avg!AvgInit, Avg!AvgCoreInit
<1>2. recv[AvgPort].data = NoWord /\ recv[CorPort].data = NoWord /\ Len(fifo[AvgPort]) = 0
  BY <1>1, PortsInNetwork DEF Net!Init, Net!Silent
<1>3. Len(fifo[AvgPort]) < Depth
  BY <1>2, PortsAssumption
<1> QED BY <1>1, <1>2, <1>3, KindsOfWords DEF SlotInv, Arrivals, AvgTimes

(* The averaging ASP: a request is answered one edge after it came, and    *)
(* nothing else is to be sent then.                                        *)
LEMMA AvgSteps ==
  ASSUME TypeInv, SlotInv, Avg!AvgEdge(recv[AvgPort].data)
  PROVE  /\ avg_ready' <=> recv[AvgPort].data.kind = "sample" /\ recv[AvgPort].data.value # 0
         /\ read_request' <=> recv[AvgPort].data.kind = "avg_request"
         /\ avg_send'.data.kind = "average" <=> read_request
         /\ avg_send'.data.kind = "new_address" <=> avg_ready
<1> DEFINE word == recv[AvgPort].data
<1>1. /\ word.kind = "sample" => count = Port(4)
      /\ word.kind = "avg_request" => count = Port(2)
      /\ word.kind = "avg_config" => count = Port(0)
      /\ avg_ready => count = Port(5)
      /\ read_request => count = Port(3)
  BY DEF SlotInv, Arrivals, AvgTimes
<1>2. \A m, n \in {0, 2, 3, 4, 5} : count = Port(m) /\ count = Port(n) => m = n
  <2>1. {0, 2, 3, 4, 5} \subseteq 0 .. 7
    OBVIOUS
  <2> QED BY <2>1, OneSlot
<1>3. avg_ready \in BOOLEAN /\ read_request \in BOOLEAN
  BY DEF TypeInv, AvgNumbers
<1>4. /\ avg_ready => ~ read_request /\ word.kind # "avg_request" /\ word.kind # "avg_config"
      /\ read_request => word.kind # "avg_request"
  BY <1>1, <1>2
<1> HIDE DEF word
<1>5. avg_ready' <=> word.kind = "sample" /\ word.value # 0
  <2>1. CASE Avg!AvgConfig(word)
    <3>1. avg_ready' = avg_ready /\ word.kind = "avg_config"
      BY <2>1 DEF Avg!AvgConfig
    <3> QED BY <3>1, <1>4
  <2>2. CASE Avg!AvgSample(word)
    BY <2>2, Zenon DEF Avg!AvgSample, Avg!IsSample
  <2>3. CASE Avg!AvgNoSample(word)
    BY <2>3, Zenon DEF Avg!AvgNoSample, Avg!IsSample
  <2> QED BY <2>1, <2>2, <2>3 DEF Avg!AvgEdge, Avg!AvgCoreEdge, word
<1>6. Avg!AnnounceAverage(word) \/ Avg!AnswerRequest(word) \/ Avg!SendNothing(word)
  BY DEF Avg!AvgEdge, word
<1>7. read_request' <=> word.kind = "avg_request"
  <2>1. CASE Avg!AnnounceAverage(word)
    BY <2>1, <1>4, Zenon DEF Avg!AnnounceAverage, Avg!Requested, Avg!IsRequest
  <2>2. CASE Avg!AnswerRequest(word)
    BY <2>2, <1>4, Zenon DEF Avg!AnswerRequest
  <2>3. CASE Avg!SendNothing(word)
    BY <2>3, Zenon DEF Avg!SendNothing, Avg!Requested, Avg!IsRequest
  <2> QED BY <1>6, <2>1, <2>2, <2>3
<1>8. avg_send'.data.kind = "average" <=> read_request
  <2>1. CASE Avg!AnnounceAverage(word)
    <3>1. avg_send'.data.kind = "new_address"
      BY <2>1 DEF Avg!AnnounceAverage
    <3> QED BY <2>1, <3>1, <1>4 DEF Avg!AnnounceAverage
  <2>2. CASE Avg!AnswerRequest(word)
    <3>1. avg_send'.data.kind = "average"
      BY <2>2 DEF Avg!AnswerRequest
    <3> QED BY <2>2, <3>1 DEF Avg!AnswerRequest
  <2>3. CASE Avg!SendNothing(word)
    <3>1. avg_send'.data = NoWord
      BY <2>3 DEF Avg!SendNothing
    <3> QED BY <2>3, <3>1, KindsOfWords DEF Avg!SendNothing
  <2> QED BY <1>6, <2>1, <2>2, <2>3
<1>9. avg_send'.data.kind = "new_address" <=> avg_ready
  <2>1. CASE Avg!AnnounceAverage(word)
    <3>1. avg_send'.data.kind = "new_address"
      BY <2>1 DEF Avg!AnnounceAverage
    <3> QED BY <2>1, <3>1 DEF Avg!AnnounceAverage
  <2>2. CASE Avg!AnswerRequest(word)
    <3>1. avg_send'.data.kind = "average"
      BY <2>2 DEF Avg!AnswerRequest
    <3> QED BY <2>2, <3>1 DEF Avg!AnswerRequest
  <2>3. CASE Avg!SendNothing(word)
    <3>1. avg_send'.data = NoWord
      BY <2>3 DEF Avg!SendNothing
    <3> QED BY <2>3, <3>1, KindsOfWords DEF Avg!SendNothing
  <2> QED BY <1>6, <2>1, <2>2, <2>3
<1> QED BY <1>5, <1>7, <1>8, <1>9 DEF word

(* In its own slot the queue gives up its head, unless that is its only    *)
(* packet and not shown yet, and until the next sample or answer nothing   *)
(* is put into it.                                                         *)
LEMMA RoomForAnswer ==
  ASSUME TypeInv, SlotInv, Net!Edge(SendPort), count' \in {Port(2), Port(3), Port(4)}
  PROVE  Len(fifo'[AvgPort]) < Depth
<1>1. /\ count \in [0 .. 2 -> BOOLEAN]
      /\ \A n \in 0 .. 6 : count' = Port(n + 1) <=> count = Port(n)
  BY NetEdge, Tick DEF TypeInv
<1>2. count \in {Port(1), Port(2), Port(3)}
  BY <1>1
<1>3. SendPort[AvgPort].data = NoWord
  <2>1. \A m, n \in {1, 2, 3, 4, 6} : count = Port(m) /\ count = Port(n) => m = n
    <3>1. {1, 2, 3, 4, 6} \subseteq 0 .. 7
      OBVIOUS
    <3> QED BY <3>1, OneSlot
  <2>2. avg_send.data.kind # "new_address" /\ avg_send.data.kind # "average"
    BY <1>2, <2>1 DEF SlotInv, AvgTimes
  <2>3. avg_send = Silent
    BY <2>2, SentKinds DEF TypeInv, SendsOK
  <2> QED BY <2>3, Driven, PortsInNetwork DEF TypeInv, Silent
<1>4. PICK kept \in Seq(Sent(AvgPort)) :
        /\ kept = IF Net!Ready(AvgPort) THEN Tail(fifo[AvgPort]) ELSE fifo[AvgPort]
        /\ Net!Ready(AvgPort) => fifo[AvgPort] # <<>>
        /\ fifo'[AvgPort] = kept
  BY <1>3, QueueStep, PortsInNetwork
<1>5. fifo[AvgPort] \in Seq(Sent(AvgPort)) /\ Len(fifo[AvgPort]) <= Depth /\ Depth \in Nat
  BY PortsInNetwork, PortsAssumption DEF TypeInv, QueuesOK, Net!TypeOK
<1>6. Net!Ready(AvgPort) => Len(kept) = Len(fifo[AvgPort]) - 1
  BY <1>4, <1>5
<1>7. CASE count = Port(1)
  <2>1. Net!Partner(AvgPort) = CorPort
    BY <1>1, <1>7, Slots
  <2>2. fifo[AvgPort] # <<>> => Head(fifo[AvgPort]) \in Sent(AvgPort)
    BY <1>5
  <2>3. fifo[AvgPort] # <<>> => Head(fifo[AvgPort]).addr = CorPort
    BY <2>2, PortsInNetwork DEF Sent
  <2>4. fifo[AvgPort] # <<>> /\ ~ wait_state[AvgPort] => Net!Ready(AvgPort)
    BY <2>1, <2>3 DEF Net!Ready, Net!Empty
  <2>5. CASE fifo[AvgPort] = <<>>
    <3>1. kept = <<>>
      BY <1>4, <2>5
    <3>2. Len(kept) = 0
      BY <3>1
    <3> QED BY <1>4, <1>5, <3>2, PortsAssumption
  <2>6. CASE fifo[AvgPort] # <<>> /\ ~ wait_state[AvgPort]
    BY <1>4, <1>5, <1>6, <2>4, <2>6
  <2>7. CASE wait_state[AvgPort]
    <3>1. kept = fifo[AvgPort]
      BY <1>4, <2>7 DEF Net!Ready, Net!Empty
    <3>2. Len(kept) = 1
      BY <2>7, <3>1, PortsInNetwork DEF TypeInv, Net!TypeOK
    <3>3. 1 < Depth
      BY PortsAssumption
    <3> QED BY <1>4, <3>2, <3>3
  <2> QED BY <2>5, <2>6, <2>7
<1>8. CASE count \in {Port(2), Port(3)}
  <2>1. Len(fifo[AvgPort]) < Depth
    BY <1>8 DEF SlotInv, AvgTimes
  <2>2. Len(fifo[AvgPort]) \in Nat
    BY <1>5
  <2> QED BY <1>4, <1>5, <1>6, <2>1, <2>2
<1> QED BY <1>2, <1>7, <1>8

LEMMA EdgeSlots == ASSUME TypeInv, SlotInv, NEW adc \in Samples, Edge(adc) PROVE SlotInv'
<1>1. Net!Edge(SendPort) /\ Avg!AvgEdge(recv[AvgPort].data)
  BY DEF Edge
<1>2. \A n \in 0 .. 6 : count' = Port(n + 1) <=> count = Port(n)
  BY <1>1, NetEdge, Tick DEF TypeInv
<1>3. Arrivals'
  BY <1>1, ArrivalsNext
<1>4. avg_ready' => count' = Port(5)
  BY <1>1, <1>2, AvgSteps DEF SlotInv, Arrivals
<1>5. read_request' => count' = Port(3)
  BY <1>1, <1>2, AvgSteps DEF SlotInv, Arrivals
<1>6. avg_send'.data.kind = "new_address" => count' = Port(6)
  BY <1>1, <1>2, AvgSteps DEF SlotInv, AvgTimes
<1>7. avg_send'.data.kind = "average" => count' = Port(4)
  BY <1>1, <1>2, AvgSteps DEF SlotInv, AvgTimes
<1>8. count' \in {Port(2), Port(3), Port(4)} => Len(fifo'[AvgPort]) < Depth
  BY <1>1, RoomForAnswer
<1>9. AvgTimes'
  BY <1>4, <1>5, <1>6, <1>7, <1>8 DEF AvgTimes, AvgPort, Port
<1> QED BY <1>3, <1>9 DEF SlotInv

LEMMA SlotsCorrect == Spec => [](TypeInv /\ SlotInv)
<1>1. TypeInv /\ SlotInv /\ [Next]_vars => SlotInv'
  <2> SUFFICES ASSUME TypeInv, SlotInv, [Next]_vars PROVE SlotInv'
    OBVIOUS
  <2>1. CASE Next
    BY <2>1, EdgeSlots DEF Next
  <2>2. CASE UNCHANGED vars
    BY <2>2 DEF SlotInv, Arrivals, AvgTimes, vars, netVars, Avg!avgVars, Avg!avgCoreVars,
                Avg!avgRamVars, AvgPort, CorPort, Port
  <2> QED BY <2>1, <2>2
<1> QED BY <1>1, InitTypes, NextTypes, InitSlots, PTL DEF Spec

(* No sample is stored and announced twice, for any sizes, delays and      *)
(* configuration packets: a configuration packet leaves avg_ready as it    *)
(* is, but comes in a slot three after the one in which it is set (AvgAsp, *)
(* the configuration branch; TdmaMinInterface).                            *)
THEOREM AveragesAreStoredOnce == Spec => AverageStoredOnce
<1>1. TypeInv /\ SlotInv /\ [Next]_vars => [avg_ready => ~ avg_ready']_vars
  <2> SUFFICES ASSUME TypeInv, SlotInv, Next, avg_ready PROVE ~ avg_ready'
    BY DEF vars
  <2>1. Avg!AvgEdge(recv[AvgPort].data)
    BY DEF Next, Edge
  <2>2. count = Port(5)
    BY DEF SlotInv, AvgTimes
  <2>3. recv[AvgPort].data.kind # "sample"
    <3>1. 4 \in 0 .. 7 /\ 5 \in 0 .. 7 /\ 4 # 5
      OBVIOUS
    <3> QED BY <2>2, <3>1, OneSlot DEF SlotInv, Arrivals
  <2> QED BY <2>1, <2>3, AvgSteps
<1> QED BY <1>1, SlotsCorrect, PTL DEF Spec, AverageStoredOnce

----------------------------------------------------------------------------
(* Where an exchange is. Nothing of it is lost: a request finds at most    *)
(* two halves of a result before it in the queue of the correlation ASP,   *)
(* which can take three words, and an answer comes into the queue of the   *)
(* averaging ASP in a slot in which there is room.                         *)
NoneOf(kind, q) == \A i \in DOMAIN q : ~ Carries(kind, q[i])
OneOf(kind, q)  == \E i \in DOMAIN q : \A j \in DOMAIN q : Carries(kind, q[j]) <=> j = i

(* The places of an exchange once its request has left the queue: 1 at the *)
(* averaging ASP, 2 waiting for its answer, 3 the answer on the send port, *)
(* 4 in the queue, 5 at the correlation ASP; and 0 in none of these.       *)
Place(n) ==
  /\ Carries("avg_request", recv[AvgPort]) <=> n = 1
  /\ read_request <=> n = 2
  /\ Carries("average", avg_send) <=> n = 3
  /\ IF n = 4 THEN OneOf("average", fifo[AvgPort]) ELSE NoneOf("average", fifo[AvgPort])
  /\ Carries("average", recv[CorPort]) <=> n = 5

(* What the queue of the correlation ASP must still take of a result. *)
ToCome == One(Carries("correlation", cor_send))
            + One(correlation_first_half) + One(correlation_second_half)

NoExchange ==
  /\ ~ has_send_avg_data_rq /\ ~ Carries("avg_request", cor_send)
  /\ NoneOf("avg_request", fifo[CorPort]) /\ Place(0)
  /\ Len(fifo[CorPort]) + ToCome <= 2
RequestOnPort ==
  /\ has_send_avg_data_rq /\ Carries("avg_request", cor_send)
  /\ NoneOf("avg_request", fifo[CorPort]) /\ Place(0)
  /\ Len(fifo[CorPort]) <= 2
RequestQueued ==
  /\ has_send_avg_data_rq /\ cor_send.data = NoWord
  /\ Len(fifo[CorPort]) \in 1 .. 3 /\ Place(0)
  /\ \A i \in DOMAIN fifo[CorPort] :
       Carries("avg_request", fifo[CorPort][i]) <=> i = Len(fifo[CorPort])
AnswerComing ==
  /\ has_send_avg_data_rq /\ cor_send.data = NoWord
  /\ fifo[CorPort] = <<>> /\ \E n \in 1 .. 5 : Place(n)

(* The flags of the correlation ASP. *)
CorOrder ==
  /\ ~ just_recv_avg_data
  /\ state = "S2" => ~ has_send_avg_data_rq /\ ~ send_avg_data_rq
  /\ correlation_first_half \/ correlation_second_half
       => state = "S0" /\ ~ has_send_avg_data_rq
  /\ ~ (send_avg_data_rq /\ has_send_avg_data_rq)

ExchangeInv ==
  /\ CorOrder
  /\ NoExchange \/ RequestOnPort \/ RequestQueued \/ AnswerComing

(* A queue from which the head is taken, and one to which a packet comes.  *)
LEMMA TailHolds ==
  ASSUME NEW S, NEW q \in Seq(S), q # <<>>, NEW kind
  PROVE  /\ Len(Tail(q)) = Len(q) - 1
         /\ NoneOf(kind, q) => NoneOf(kind, Tail(q)) /\ ~ Carries(kind, Head(q))
         /\ OneOf(kind, q) /\ Carries(kind, Head(q)) => NoneOf(kind, Tail(q))
         /\ OneOf(kind, q) /\ ~ Carries(kind, Head(q)) => OneOf(kind, Tail(q))
<1>1. /\ Len(q) \in Nat /\ Len(q) >= 1 /\ DOMAIN q = 1 .. Len(q)
      /\ Len(Tail(q)) = Len(q) - 1 /\ DOMAIN Tail(q) = 1 .. Len(q) - 1
      /\ Head(q) = q[1] /\ 1 \in DOMAIN q
  OBVIOUS
<1>2. \A i \in DOMAIN Tail(q) : Tail(q)[i] = q[i + 1] /\ i + 1 \in DOMAIN q
  BY <1>1
<1>3. NoneOf(kind, q) => NoneOf(kind, Tail(q)) /\ ~ Carries(kind, Head(q))
  BY <1>1, <1>2 DEF NoneOf
<1>4. ASSUME OneOf(kind, q)
      PROVE  /\ Carries(kind, Head(q)) => NoneOf(kind, Tail(q))
             /\ ~ Carries(kind, Head(q)) => OneOf(kind, Tail(q))
  <2>1. PICK i \in DOMAIN q : \A j \in DOMAIN q : Carries(kind, q[j]) <=> j = i
    BY <1>4 DEF OneOf
  <2>2. CASE i = 1
    <3>1. \A j \in DOMAIN Tail(q) : j + 1 # 1
      BY <1>1
    <3> QED BY <1>1, <1>2, <2>1, <2>2, <3>1 DEF NoneOf
  <2>3. CASE i # 1
    <3>1. i - 1 \in DOMAIN Tail(q) /\ \A j \in DOMAIN Tail(q) : j + 1 = i <=> j = i - 1
      BY <1>1, <2>3
    <3>2. \A j \in DOMAIN Tail(q) : Carries(kind, Tail(q)[j]) <=> j = i - 1
      BY <1>2, <2>1, <3>1
    <3>3. ~ Carries(kind, Head(q))
      BY <1>1, <2>1, <2>3
    <3> QED BY <3>1, <3>2, <3>3 DEF OneOf
  <2> QED BY <2>2, <2>3
<1> QED BY <1>1, <1>3, <1>4

LEMMA AppendHolds ==
  ASSUME NEW S, NEW q \in Seq(S), NEW packet \in S, NEW kind
  PROVE  /\ Len(Append(q, packet)) = Len(q) + 1
         /\ ~ Carries(kind, packet) /\ NoneOf(kind, q) => NoneOf(kind, Append(q, packet))
         /\ ~ Carries(kind, packet) /\ OneOf(kind, q) => OneOf(kind, Append(q, packet))
         /\ Carries(kind, packet) /\ NoneOf(kind, q)
              => /\ OneOf(kind, Append(q, packet))
                 /\ \A i \in DOMAIN Append(q, packet) :
                      Carries(kind, Append(q, packet)[i]) <=> i = Len(q) + 1
<1> DEFINE longer == Append(q, packet)
<1>1. /\ Len(q) \in Nat /\ DOMAIN q = 1 .. Len(q)
      /\ Len(longer) = Len(q) + 1 /\ DOMAIN longer = 1 .. Len(q) + 1
      /\ longer[Len(q) + 1] = packet /\ \A i \in DOMAIN q : longer[i] = q[i]
  OBVIOUS
<1> HIDE DEF longer
<1>2. \A i \in DOMAIN longer : i \in DOMAIN q \/ i = Len(q) + 1
  BY <1>1
<1>3. Len(q) + 1 \notin DOMAIN q /\ Len(q) + 1 \in DOMAIN longer /\ DOMAIN q \subseteq DOMAIN longer
  BY <1>1
<1>4. ~ Carries(kind, packet) /\ NoneOf(kind, q) => NoneOf(kind, longer)
  BY <1>1, <1>2 DEF NoneOf
<1>5. ~ Carries(kind, packet) /\ OneOf(kind, q) => OneOf(kind, longer)
  <2> SUFFICES ASSUME ~ Carries(kind, packet), OneOf(kind, q) PROVE OneOf(kind, longer)
    OBVIOUS
  <2>1. PICK i \in DOMAIN q : \A j \in DOMAIN q : Carries(kind, q[j]) <=> j = i
    BY DEF OneOf
  <2>2. i \in DOMAIN longer /\ \A j \in DOMAIN longer : Carries(kind, longer[j]) <=> j = i
    BY <1>1, <1>2, <1>3, <2>1
  <2> QED BY <2>2 DEF OneOf
<1>6. Carries(kind, packet) /\ NoneOf(kind, q)
        => /\ OneOf(kind, longer)
           /\ \A i \in DOMAIN longer : Carries(kind, longer[i]) <=> i = Len(q) + 1
  BY <1>1, <1>2, <1>3 DEF NoneOf, OneOf
<1> QED BY <1>1, <1>4, <1>5, <1>6 DEF longer

(* A word leaves the queue of its sender when it arrives. *)
LEMMA Delivered ==
  ASSUME TypeInv, Net!Edge(SendPort)
  PROVE  /\ Carries("average", recv'[CorPort])
              <=> Net!Ready(AvgPort) /\ Carries("average", Head(fifo[AvgPort]))
         /\ Carries("avg_request", recv'[AvgPort])
              <=> Net!Ready(CorPort) /\ Carries("avg_request", Head(fifo[CorPort]))
<1>1. ASSUME NEW p \in Ports, NEW q \in Ports, NEW kind \in Kinds,
             \A packet \in Sent(p) : Carries(kind, packet) => packet.addr = q,
             \A r \in Ports : \A packet \in Sent(r) : Carries(kind, packet) => r = p
      PROVE  Carries(kind, recv'[q]) <=> Net!Ready(p) /\ Carries(kind, Head(fifo[p]))
  <2>1. ASSUME Carries(kind, recv'[q])
        PROVE  Net!Ready(p) /\ Carries(kind, Head(fifo[p]))
    <3>1. recv'[q].data # NoWord
      BY <2>1, KindsOfWords DEF Carries, Kinds
    <3>2. /\ Net!Partner(q) \in Ports /\ Net!Ready(Net!Partner(q))
          /\ Carries(kind, Head(fifo[Net!Partner(q)]))
          /\ Head(fifo[Net!Partner(q)]) \in Sent(Net!Partner(q))
      BY <2>1, <3>1, Arrival DEF Carries
    <3>3. Net!Partner(q) = p
      BY <1>1, <3>2
    <3> QED BY <3>2, <3>3
  <2>2. ASSUME Net!Ready(p), Carries(kind, Head(fifo[p]))
        PROVE  Carries(kind, recv'[q])
    <3>1. fifo[p] # <<>> /\ Head(fifo[p]).addr = Net!Partner(p)
      BY <2>2 DEF Net!Ready, Net!Empty
    <3>2. fifo[p] \in Seq(Sent(p))
      BY DEF TypeInv, QueuesOK
    <3>3. Head(fifo[p]) \in Sent(p)
      BY <3>1, <3>2
    <3>4. Net!Partner(p) = q
      BY <1>1, <2>2, <3>1, <3>3
    <3>5. Net!Partner(q) = p
      BY <3>4, PartnerOf, NetEdge DEF TypeInv
    <3>6. recv'[q].data = Head(fifo[p]).data
      BY <2>2, <3>5, Arrival
    <3> QED BY <2>2, <3>6 DEF Carries
  <2> QED BY <2>1, <2>2
<1>2. /\ \A packet \in Sent(AvgPort) : Carries("average", packet) => packet.addr = CorPort
      /\ \A r \in Ports : \A packet \in Sent(r) : Carries("average", packet) => r = AvgPort
  <2>1. \A packet \in Sent(AvgPort) : packet.addr = CorPort
    BY PortsInNetwork DEF Sent
  <2> QED BY <2>1, Senders DEF Carries
<1>3. /\ \A packet \in Sent(CorPort) : Carries("avg_request", packet) => packet.addr = AvgPort
      /\ \A r \in Ports : \A packet \in Sent(r) : Carries("avg_request", packet) => r = CorPort
  <2>1. \A packet \in Sent(CorPort) :
           packet \in [addr : {AvgPort}, data : RequestWords] \cup [addr : {PdPort}, data : Halves]
    BY PortsInNetwork DEF Sent
  <2>2. \A packet \in Sent(CorPort) : Carries("avg_request", packet) => packet.addr = AvgPort
    BY <2>1, SentKinds DEF Carries
  <2> QED BY <2>2, Senders DEF Carries
<1>4. "average" \in Kinds /\ "avg_request" \in Kinds
  BY DEF Kinds
<1>5. Carries("average", recv'[CorPort])
        <=> Net!Ready(AvgPort) /\ Carries("average", Head(fifo[AvgPort]))
  BY <1>1, <1>2, <1>4, PortsInNetwork
<1>6. Carries("avg_request", recv'[AvgPort])
        <=> Net!Ready(CorPort) /\ Carries("avg_request", Head(fifo[CorPort]))
  BY <1>1, <1>3, <1>4, PortsInNetwork
<1> QED BY <1>5, <1>6

(* An average comes into the queue of the averaging ASP and goes.          *)
LEMMA AnswerQueue ==
  ASSUME TypeInv, SlotInv, Net!Edge(SendPort)
  PROVE  /\ NoneOf("average", fifo[AvgPort]) =>
              /\ ~ Carries("average", recv'[CorPort])
              /\ IF Carries("average", avg_send) THEN OneOf("average", fifo'[AvgPort])
                 ELSE NoneOf("average", fifo'[AvgPort])
         /\ OneOf("average", fifo[AvgPort]) /\ ~ Carries("average", avg_send) =>
              IF Carries("average", recv'[CorPort]) THEN NoneOf("average", fifo'[AvgPort])
              ELSE OneOf("average", fifo'[AvgPort])
<1> DEFINE q == fifo[AvgPort]
           packet == SendPort[AvgPort]
<1>1. PICK kept \in Seq(Sent(AvgPort)) :
        /\ kept = IF Net!Ready(AvgPort) THEN Tail(q) ELSE q
        /\ Net!Ready(AvgPort) => q # <<>>
        /\ fifo'[AvgPort] = IF packet.data # NoWord /\ Len(q) < Depth
                            THEN Append(kept, packet) ELSE kept
  BY QueueStep, PortsInNetwork
<1>2. q \in Seq(Sent(AvgPort))
  BY PortsInNetwork DEF TypeInv, QueuesOK
<1>3. packet.data = avg_send.data /\ (packet.data # NoWord => packet \in Sent(AvgPort))
  BY Driven, PortsInNetwork DEF TypeInv
<1>4. Carries("average", avg_send) => Carries("average", packet) /\ packet.data # NoWord /\ Len(q) < Depth
  <2>1. Carries("average", avg_send) => count = Port(4)
    BY DEF SlotInv, AvgTimes, Carries
  <2>2. count = Port(4) => Len(q) < Depth
    BY DEF SlotInv, AvgTimes
  <2> QED BY <1>3, <2>1, <2>2, KindsOfWords DEF Carries
<1>5. ~ Carries("average", avg_send) => ~ Carries("average", packet)
  BY <1>3 DEF Carries
<1>6. Carries("average", recv'[CorPort]) <=> Net!Ready(AvgPort) /\ Carries("average", Head(q))
  BY Delivered
<1> HIDE DEF q, packet
<1>7. ASSUME NoneOf("average", q)
      PROVE  /\ ~ Carries("average", recv'[CorPort])
             /\ IF Carries("average", avg_send) THEN OneOf("average", fifo'[AvgPort])
                ELSE NoneOf("average", fifo'[AvgPort])
  <2>1. NoneOf("average", kept) /\ ~ Carries("average", recv'[CorPort])
    BY <1>1, <1>2, <1>6, <1>7, TailHolds
  <2>2. CASE Carries("average", avg_send)
    <3>1. fifo'[AvgPort] = Append(kept, packet) /\ packet \in Sent(AvgPort)
      BY <1>1, <1>3, <1>4, <2>2
    <3> QED BY <1>4, <2>1, <2>2, <3>1, AppendHolds
  <2>3. CASE ~ Carries("average", avg_send)
    <3>1. packet \in Sent(AvgPort) => NoneOf("average", Append(kept, packet))
      BY <1>5, <2>1, <2>3, AppendHolds
    <3> QED BY <1>1, <1>3, <2>1, <2>3, <3>1
  <2> QED BY <2>2, <2>3
<1>8. ASSUME OneOf("average", q), ~ Carries("average", avg_send)
      PROVE  IF Carries("average", recv'[CorPort]) THEN NoneOf("average", fifo'[AvgPort])
             ELSE OneOf("average", fifo'[AvgPort])
  <2>1. IF Carries("average", recv'[CorPort]) THEN NoneOf("average", kept) ELSE OneOf("average", kept)
    BY <1>1, <1>2, <1>6, <1>8, TailHolds
  <2>2. packet \in Sent(AvgPort) =>
          /\ NoneOf("average", kept) => NoneOf("average", Append(kept, packet))
          /\ OneOf("average", kept) => OneOf("average", Append(kept, packet))
    BY <1>5, <1>8, AppendHolds
  <2> QED BY <1>1, <1>3, <2>1, <2>2
<1> QED BY <1>7, <1>8 DEF q

(* The answer goes from place to place. *)
LEMMA PlaceSteps ==
  ASSUME TypeInv, SlotInv, NEW adc \in Samples, Edge(adc), NEW n \in 0 .. 5, Place(n)
  PROVE  /\ n = 0 => IF Carries("avg_request", recv'[AvgPort]) THEN Place(1)' ELSE Place(0)'
         /\ n \in 1 .. 5 /\ ~ Carries("avg_request", recv'[AvgPort])
              => \/ n < 5 /\ \E m \in 1 .. 5 : Place(m)'
                 \/ n = 5 /\ Place(0)'
<1>1. Net!Edge(SendPort) /\ Avg!AvgEdge(recv[AvgPort].data)
  BY DEF Edge
<1>2. /\ read_request' <=> n = 1
      /\ Carries("average", avg_send') <=> n = 2
  BY <1>1, AvgSteps DEF Place, Carries
<1>3. /\ n \notin {3, 4} => NoneOf("average", fifo'[AvgPort]) /\ ~ Carries("average", recv'[CorPort])
      /\ n = 3 => OneOf("average", fifo'[AvgPort]) /\ ~ Carries("average", recv'[CorPort])
      /\ n = 4 => IF Carries("average", recv'[CorPort]) THEN NoneOf("average", fifo'[AvgPort])
                  ELSE OneOf("average", fifo'[AvgPort])
  BY <1>1, AnswerQueue DEF Place
<1> DEFINE asked == Carries("avg_request", recv'[AvgPort])
           came  == Carries("average", recv'[CorPort])
<1>4. ASSUME NEW m \in 0 .. 5,
             asked <=> m = 1,
             n = 1 <=> m = 2,
             n = 2 <=> m = 3,
             IF m = 4 THEN OneOf("average", fifo'[AvgPort]) ELSE NoneOf("average", fifo'[AvgPort]),
             came <=> m = 5
      PROVE  Place(m)'
  <2>1. /\ Carries("avg_request", recv'[AvgPort]) <=> m = 1
        /\ read_request' <=> m = 2
        /\ Carries("average", avg_send') <=> m = 3
        /\ IF m = 4 THEN OneOf("average", fifo'[AvgPort]) ELSE NoneOf("average", fifo'[AvgPort])
        /\ Carries("average", recv'[CorPort]) <=> m = 5
    BY <1>2, <1>4
  <2> QED BY <2>1 DEF Place, AvgPort, CorPort, Port, Carries, NoneOf, OneOf
<1> HIDE DEF asked, came
<1>5. CASE n = 0 /\ ~ asked
  <2>1. Place(0)' BY <1>3, <1>4, <1>5 DEF came
  <2> QED BY <1>5, <2>1 DEF asked
<1>6. CASE n = 0 /\ asked
  <2>1. Place(1)' BY <1>3, <1>4, <1>6 DEF came
  <2> QED BY <1>6, <2>1 DEF asked
<1>7. CASE n = 1
  <2>1. ~ asked => Place(2)' BY <1>3, <1>4, <1>7 DEF came
  <2> QED BY <1>7, <2>1 DEF asked
<1>8. CASE n = 2
  <2>1. ~ asked => Place(3)' BY <1>3, <1>4, <1>8 DEF came
  <2> QED BY <1>8, <2>1 DEF asked
<1>9. CASE n = 3
  <2>1. ~ asked => Place(4)' BY <1>3, <1>4, <1>9 DEF came
  <2> QED BY <1>9, <2>1 DEF asked
<1>10. CASE n = 4 /\ ~ came
  <2>1. ~ asked => Place(4)' BY <1>3, <1>4, <1>10 DEF came
  <2> QED BY <1>10, <2>1 DEF asked
<1>11. CASE n = 4 /\ came
  <2>1. ~ asked => Place(5)' BY <1>3, <1>4, <1>11 DEF came
  <2> QED BY <1>11, <2>1 DEF asked
<1>12. CASE n = 5
  <2>1. ~ asked => Place(0)' BY <1>3, <1>4, <1>12 DEF came
  <2> QED BY <1>12, <2>1 DEF asked
<1> QED BY <1>5, <1>6, <1>7, <1>8, <1>9, <1>10, <1>11, <1>12

(* An average comes only when the correlation ASP waits for it. *)
LEMMA Awaited ==
  ASSUME TypeInv, ExchangeInv
  PROVE  /\ Cor!Got(recv[CorPort].data) <=> Carries("average", recv[CorPort])
         /\ Carries("average", recv[CorPort]) => /\ AnswerComing /\ Place(5)
                                                 /\ has_send_avg_data_rq /\ ~ send_avg_data_rq
                                                 /\ state # "S2"
<1>1. ~ just_recv_avg_data
  BY DEF ExchangeInv, CorOrder
<1>2. Cor!Got(recv[CorPort].data) <=> Carries("average", recv[CorPort])
  BY <1>1, Zenon DEF Cor!Got, Carries
<1>3. Place(0) => ~ Carries("average", recv[CorPort])
  BY DEF Place
<1>4. Carries("average", recv[CorPort]) => AnswerComing
  BY <1>3 DEF ExchangeInv, NoExchange, RequestOnPort, RequestQueued
<1>5. Carries("average", recv[CorPort]) => Place(5)
  <2>1. \A n \in 1 .. 5 : Place(n) /\ Carries("average", recv[CorPort]) => n = 5
    BY DEF Place
  <2> QED BY <1>4, <2>1 DEF AnswerComing
<1>6. AnswerComing => has_send_avg_data_rq
  BY DEF AnswerComing
<1> QED BY <1>2, <1>4, <1>5, <1>6 DEF ExchangeInv, CorOrder

LEMMA OrderGoesOn ==
  ASSUME TypeInv, ExchangeInv, Cor!CorEdge(recv[CorPort].data)
  PROVE  CorOrder'
<1> DEFINE word == recv[CorPort].data
           got == Cor!Got(word)
<1>1. Cor!Machine(word) /\ Cor!Transmit(word)
  BY DEF Cor!CorEdge
<1>2. CorOrder /\ CorNumbers
  BY DEF ExchangeInv, TypeInv
<1>3. got => has_send_avg_data_rq /\ ~ send_avg_data_rq /\ state # "S2"
  BY Awaited
<1> HIDE DEF word
<1>4. ~ just_recv_avg_data'
  BY <1>1, <1>3
     DEF Cor!Machine, Cor!Await, Cor!Discard, Cor!Start, Cor!Multiply, Cor!CountPair, Cor!Accumulate
<1>5. state' = "S2" => ~ has_send_avg_data_rq' /\ ~ send_avg_data_rq'
  <2> SUFFICES ASSUME state' = "S2" PROVE ~ has_send_avg_data_rq' /\ ~ send_avg_data_rq'
    OBVIOUS
  <2>1. got /\ state = "S1"
    BY <1>1, <1>2
       DEF Cor!Machine, Cor!Await, Cor!Discard, Cor!Start, Cor!Multiply, Cor!CountPair,
           Cor!Accumulate, CorNumbers, CorOrder
  <2>2. ~ Cor!Wanted(word) /\ ~ Cor!Out(word)
    BY <2>1, <1>3 DEF Cor!Wanted, Cor!Out
  <2> QED BY <1>1, <2>2
          DEF Cor!Transmit, Cor!SendFirstHalf, Cor!SendSecondHalf, Cor!SendRequest, Cor!SendNothing
<1>6. correlation_first_half' \/ correlation_second_half'
        => state' = "S0" /\ ~ has_send_avg_data_rq'
  <2>1. CASE Cor!Completes(word)
    <3>1. state' = "S0"
      BY <1>1, <2>1
         DEF Cor!Completes, Cor!Machine, Cor!Await, Cor!Discard, Cor!Start, Cor!Multiply,
             Cor!CountPair, Cor!Accumulate
    <3>2. ~ Cor!Wanted(word) /\ ~ Cor!Out(word)
      BY <2>1, <1>3 DEF Cor!Completes, Cor!Wanted, Cor!Out
    <3> QED BY <1>1, <3>1, <3>2
            DEF Cor!Transmit, Cor!SendFirstHalf, Cor!SendSecondHalf, Cor!SendRequest, Cor!SendNothing
  <2>2. CASE ~ Cor!Completes(word) /\ (correlation_first_half \/ correlation_second_half)
    <3>1. state = "S0" /\ ~ has_send_avg_data_rq
      BY <1>2, <2>2 DEF CorOrder
    <3>2. state' = "S0"
      BY <1>1, <1>3, <3>1
         DEF Cor!Machine, Cor!Await, Cor!Discard, Cor!Start, Cor!Multiply, Cor!CountPair, Cor!Accumulate
    <3>3. has_send_avg_data_rq' = Cor!Out(word)
      BY <1>1, <2>2
         DEF Cor!Transmit, Cor!SendFirstHalf, Cor!SendSecondHalf, Cor!SendRequest, Cor!SendNothing,
             Cor!NoHalf
    <3> QED BY <3>1, <3>2, <3>3 DEF Cor!Out
  <2>3. CASE ~ Cor!Completes(word) /\ ~ correlation_first_half /\ ~ correlation_second_half
    BY <1>1, <2>3
       DEF Cor!Transmit, Cor!SendFirstHalf, Cor!SendSecondHalf, Cor!SendRequest, Cor!SendNothing,
           Cor!NoHalf
  <2> QED BY <2>1, <2>2, <2>3
<1>7. ~ (send_avg_data_rq' /\ has_send_avg_data_rq')
  <2>1. ~ (Cor!Wanted(word) /\ Cor!Out(word))
    BY <1>2, <1>3 DEF Cor!Wanted, Cor!Out, CorOrder
  <2> QED BY <1>1, <2>1
          DEF Cor!Transmit, Cor!SendFirstHalf, Cor!SendSecondHalf, Cor!SendRequest, Cor!SendNothing
<1> QED BY <1>4, <1>5, <1>6, <1>7 DEF CorOrder

(* What the correlation ASP sends, by what it waits for. *)
LEMMA CorSends ==
  ASSUME TypeInv, ExchangeInv, Cor!CorEdge(recv[CorPort].data)
  PROVE  /\ ~ has_send_avg_data_rq =>
              \/ /\ has_send_avg_data_rq' /\ Carries("avg_request", cor_send')
                 /\ ~ correlation_first_half /\ ~ correlation_second_half
              \/ /\ ~ has_send_avg_data_rq' /\ ~ Carries("avg_request", cor_send')
                 /\ ToCome' <= One(correlation_first_half) + One(correlation_second_half)
         /\ has_send_avg_data_rq /\ ~ Carries("average", recv[CorPort]) =>
              has_send_avg_data_rq' /\ cor_send'.data = NoWord
         /\ Carries("average", recv[CorPort]) =>
              ~ has_send_avg_data_rq' /\ cor_send'.data = NoWord /\ ToCome' <= 2
<1> DEFINE word == recv[CorPort].data
           got == Cor!Got(word)
<1>1. Cor!Transmit(word)
  BY DEF Cor!CorEdge
<1>2. CorOrder /\ CorNumbers
  BY DEF ExchangeInv, TypeInv
<1>3. /\ got <=> Carries("average", recv[CorPort])
      /\ got => has_send_avg_data_rq /\ ~ send_avg_data_rq /\ state # "S2"
  BY Awaited
<1>4. ToCome' = One(Carries("correlation", cor_send'))
                  + One(correlation_first_half') + One(correlation_second_half')
  BY DEF ToCome, One, Carries
<1>5. /\ \A holds : One(holds) \in 0 .. 1
      /\ One(FALSE) = 0
  BY DEF One
<1> HIDE DEF word
<1>6. ASSUME ~ has_send_avg_data_rq
      PROVE  \/ /\ has_send_avg_data_rq' /\ Carries("avg_request", cor_send')
                /\ ~ correlation_first_half /\ ~ correlation_second_half
             \/ /\ ~ has_send_avg_data_rq' /\ ~ Carries("avg_request", cor_send')
                /\ ToCome' <= One(correlation_first_half) + One(correlation_second_half)
  <2>1. Cor!Out(word) = FALSE /\ Cor!Completes(word) = FALSE
    BY <1>3, <1>6 DEF Cor!Out, Cor!Completes
  <2>2. CASE Cor!SendFirstHalf(word)
    <3>1. /\ has_send_avg_data_rq' = FALSE /\ cor_send'.data.kind = "correlation"
          /\ correlation_first_half' = FALSE /\ correlation_first_half
          /\ correlation_second_half' = correlation_second_half
      BY <2>1, <2>2, <1>2 DEF Cor!SendFirstHalf, CorNumbers
    <3>2. ToCome' <= One(correlation_first_half) + One(correlation_second_half)
      BY <1>4, <3>1 DEF One
    <3> QED BY <3>1, <3>2 DEF Carries
  <2>3. CASE Cor!SendSecondHalf(word)
    <3>1. /\ has_send_avg_data_rq' = FALSE /\ cor_send'.data.kind = "correlation"
          /\ correlation_first_half' = FALSE /\ correlation_second_half
          /\ correlation_second_half' = FALSE
      BY <2>1, <2>3 DEF Cor!SendSecondHalf
    <3>2. ToCome' <= One(correlation_first_half) + One(correlation_second_half)
      BY <1>4, <3>1 DEF One
    <3> QED BY <3>1, <3>2 DEF Carries
  <2>4. CASE Cor!SendRequest(word)
    <3>1. cor_send'.data.kind = "avg_request"
      BY <2>4 DEF Cor!SendRequest
    <3> QED BY <2>4, <3>1 DEF Cor!SendRequest, Cor!NoHalf, Carries
  <2>5. CASE Cor!SendNothing(word)
    <3>1. /\ has_send_avg_data_rq' = FALSE /\ cor_send'.data = NoWord
          /\ correlation_first_half' = FALSE /\ correlation_second_half' = FALSE
      BY <2>1, <2>5 DEF Cor!SendNothing, Cor!NoHalf
    <3>2. ToCome' = 0 /\ ~ Carries("avg_request", cor_send')
      BY <1>4, <3>1, KindsOfWords DEF One, Carries
    <3> QED BY <1>5, <3>1, <3>2 DEF One
  <2> QED BY <1>1, <2>2, <2>3, <2>4, <2>5 DEF Cor!Transmit
<1>7. has_send_avg_data_rq => Cor!SendNothing(word)
  <2> SUFFICES ASSUME has_send_avg_data_rq PROVE Cor!SendNothing(word)
    OBVIOUS
  <2>1. ~ correlation_first_half /\ ~ correlation_second_half /\ ~ send_avg_data_rq /\ state # "S2"
    BY <1>2 DEF CorOrder
  <2>2. ~ (Cor!Wanted(word) /\ ~ Cor!Out(word))
    BY <2>1 DEF Cor!Wanted, Cor!Out
  <2> QED BY <1>1, <2>1, <2>2
          DEF Cor!Transmit, Cor!SendFirstHalf, Cor!SendSecondHalf, Cor!SendRequest
<1>8. has_send_avg_data_rq => cor_send'.data = NoWord /\ has_send_avg_data_rq' = Cor!Out(word)
  BY <1>7 DEF Cor!SendNothing
<1>9. ASSUME got
      PROVE  ~ has_send_avg_data_rq' /\ cor_send'.data = NoWord /\ ToCome' <= 2
  <2>1. ~ Cor!Out(word)
    BY <1>3, <1>9 DEF Cor!Out
  <2>2. One(Carries("correlation", cor_send')) = 0
    BY <1>3, <1>8, <1>9, KindsOfWords DEF One, Carries
  <2>3. ToCome' <= 2
    BY <1>4, <1>5, <2>2
  <2> QED BY <1>3, <1>8, <1>9, <2>1, <2>3
<1>10. has_send_avg_data_rq /\ ~ got => Cor!Out(word)
  BY DEF Cor!Out
<1> QED BY <1>3, <1>6, <1>8, <1>9, <1>10

(* The queue of the correlation ASP. *)
LEMMA CorQueue ==
  ASSUME TypeInv, Net!Edge(SendPort)
  PROVE  \E kept \in Seq(Sent(CorPort)) :
           /\ kept = IF Net!Ready(CorPort) THEN Tail(fifo[CorPort]) ELSE fifo[CorPort]
           /\ Net!Ready(CorPort) => fifo[CorPort] # <<>>
           /\ cor_send.data = NoWord => fifo'[CorPort] = kept
           /\ cor_send.data # NoWord /\ Len(fifo[CorPort]) <= 2 =>
                \E packet \in Sent(CorPort) :
                  packet.data = cor_send.data /\ fifo'[CorPort] = Append(kept, packet)
           /\ Len(kept) \in Nat /\ Len(kept) <= Len(fifo[CorPort])
           /\ Len(fifo[CorPort]) \in Nat
<1>1. PICK kept \in Seq(Sent(CorPort)) :
        /\ kept = IF Net!Ready(CorPort) THEN Tail(fifo[CorPort]) ELSE fifo[CorPort]
        /\ Net!Ready(CorPort) => fifo[CorPort] # <<>>
        /\ fifo'[CorPort] = IF SendPort[CorPort].data # NoWord /\ Len(fifo[CorPort]) < Depth
                            THEN Append(kept, SendPort[CorPort]) ELSE kept
  BY QueueStep, PortsInNetwork
<1>2. SendPort[CorPort].data = cor_send.data
      /\ (cor_send.data # NoWord => SendPort[CorPort] \in Sent(CorPort))
  BY Driven, PortsInNetwork DEF TypeInv
<1>3. fifo[CorPort] \in Seq(Sent(CorPort))
  BY PortsInNetwork DEF TypeInv, QueuesOK
<1>4. Len(kept) \in Nat /\ Len(kept) <= Len(fifo[CorPort]) /\ Len(fifo[CorPort]) \in Nat
  <2>1. fifo[CorPort] # <<>> => Len(Tail(fifo[CorPort])) = Len(fifo[CorPort]) - 1
    BY <1>3
  <2> QED BY <1>1, <1>3, <2>1
<1>5. cor_send.data = NoWord => fifo'[CorPort] = kept
  BY <1>1, <1>2
<1>6. ASSUME cor_send.data # NoWord, Len(fifo[CorPort]) <= 2
      PROVE  \E packet \in Sent(CorPort) :
               packet.data = cor_send.data /\ fifo'[CorPort] = Append(kept, packet)
  <2>1. Len(fifo[CorPort]) < Depth
    BY <1>4, <1>6, PortsAssumption
  <2> QED BY <1>1, <1>2, <1>6, <2>1
<1> QED BY <1>1, <1>4, <1>5, <1>6

(* The four cases of an edge. *)
LEMMA NoExchangeStep ==
  ASSUME TypeInv, SlotInv, ExchangeInv, NEW adc \in Samples, Edge(adc), NoExchange
  PROVE  (NoExchange \/ RequestOnPort)'
<1>1. Net!Edge(SendPort) /\ Cor!CorEdge(recv[CorPort].data)
  BY DEF Edge
<1>2. PICK kept \in Seq(Sent(CorPort)) :
        /\ kept = IF Net!Ready(CorPort) THEN Tail(fifo[CorPort]) ELSE fifo[CorPort]
        /\ Net!Ready(CorPort) => fifo[CorPort] # <<>>
        /\ cor_send.data = NoWord => fifo'[CorPort] = kept
        /\ cor_send.data # NoWord /\ Len(fifo[CorPort]) <= 2 =>
             \E packet \in Sent(CorPort) :
               packet.data = cor_send.data /\ fifo'[CorPort] = Append(kept, packet)
        /\ Len(kept) \in Nat /\ Len(kept) <= Len(fifo[CorPort])
        /\ Len(fifo[CorPort]) \in Nat
  BY <1>1, CorQueue
<1>3. fifo[CorPort] \in Seq(Sent(CorPort))
  BY PortsInNetwork DEF TypeInv, QueuesOK
<1>4. /\ ~ has_send_avg_data_rq /\ ~ Carries("avg_request", cor_send)
      /\ NoneOf("avg_request", fifo[CorPort]) /\ Place(0)
      /\ Len(fifo[CorPort]) + ToCome <= 2
  BY DEF NoExchange
<1>5. NoneOf("avg_request", kept) /\ ~ Carries("avg_request", recv'[AvgPort])
  BY <1>1, <1>2, <1>3, <1>4, TailHolds, Delivered
<1>6. Place(0)'
  <2>1. 0 \in 0 .. 5
    OBVIOUS
  <2> QED BY <1>4, <1>5, <2>1, PlaceSteps
<1>7. /\ One(correlation_first_half) \in 0 .. 1 /\ One(correlation_second_half) \in 0 .. 1
      /\ One(Carries("correlation", cor_send)) \in 0 .. 1
      /\ ToCome = One(Carries("correlation", cor_send)) + One(correlation_first_half)
                    + One(correlation_second_half)
  BY DEF One, ToCome
<1>8. /\ NoneOf("avg_request", fifo'[CorPort])
      /\ Len(fifo'[CorPort]) \in Nat
      /\ Len(fifo'[CorPort]) <= Len(fifo[CorPort]) + One(Carries("correlation", cor_send))
  <2>1. CASE cor_send.data = NoWord
    <3>1. fifo'[CorPort] = kept
      BY <1>2, <2>1
    <3> QED BY <1>2, <1>5, <1>7, <3>1
  <2>2. CASE cor_send.data # NoWord
    <3>1. cor_send.data \in Halves
      BY <1>4, <2>2, SentKinds DEF TypeInv, SendsOK, Silent, Carries
    <3>2. One(Carries("correlation", cor_send)) = 1
      BY <3>1, SentKinds DEF One, Carries
    <3>3. Len(fifo[CorPort]) <= 2
      BY <1>2, <1>4, <1>7
    <3>4. PICK packet \in Sent(CorPort) :
            packet.data = cor_send.data /\ fifo'[CorPort] = Append(kept, packet)
      BY <1>2, <2>2, <3>3
    <3>5. ~ Carries("avg_request", packet)
      BY <1>4, <3>4 DEF Carries
    <3>6. NoneOf("avg_request", fifo'[CorPort]) /\ Len(fifo'[CorPort]) = Len(kept) + 1
      BY <1>5, <3>4, <3>5, AppendHolds
    <3> QED BY <1>2, <3>2, <3>6
  <2> QED BY <2>1, <2>2
<1>9. CASE /\ has_send_avg_data_rq' /\ Carries("avg_request", cor_send')
           /\ ~ correlation_first_half /\ ~ correlation_second_half
  <2>1. Len(fifo'[CorPort]) <= 2
    BY <1>2, <1>4, <1>7, <1>8
  <2>2. RequestOnPort'
    BY <1>6, <1>8, <1>9, <2>1 DEF RequestOnPort, CorPort, Port, NoneOf, Carries
  <2> QED BY <2>2
<1>10. CASE /\ ~ has_send_avg_data_rq' /\ ~ Carries("avg_request", cor_send')
            /\ ToCome' <= One(correlation_first_half) + One(correlation_second_half)
  <2>1. ToCome' \in Nat
    BY DEF ToCome, One
  <2>2. Len(fifo'[CorPort]) + ToCome' <= 2
    BY <1>2, <1>4, <1>7, <1>8, <1>10, <2>1
  <2>3. NoExchange'
    BY <1>6, <1>8, <1>10, <2>2 DEF NoExchange, CorPort, Port, NoneOf, Carries
  <2> QED BY <2>3
<1> QED BY <1>1, <1>4, <1>9, <1>10, CorSends

LEMMA RequestOnPortStep ==
  ASSUME TypeInv, SlotInv, ExchangeInv, NEW adc \in Samples, Edge(adc), RequestOnPort
  PROVE  RequestQueued'
<1>1. Net!Edge(SendPort) /\ Cor!CorEdge(recv[CorPort].data)
  BY DEF Edge
<1>2. /\ has_send_avg_data_rq /\ Carries("avg_request", cor_send)
      /\ NoneOf("avg_request", fifo[CorPort]) /\ Place(0)
      /\ Len(fifo[CorPort]) <= 2
  BY DEF RequestOnPort
<1>3. cor_send.data # NoWord
  BY <1>2, KindsOfWords DEF Carries
<1>4. PICK kept \in Seq(Sent(CorPort)) :
        /\ kept = IF Net!Ready(CorPort) THEN Tail(fifo[CorPort]) ELSE fifo[CorPort]
        /\ Net!Ready(CorPort) => fifo[CorPort] # <<>>
        /\ \E packet \in Sent(CorPort) :
             packet.data = cor_send.data /\ fifo'[CorPort] = Append(kept, packet)
        /\ Len(kept) \in Nat /\ Len(kept) <= Len(fifo[CorPort])
        /\ Len(fifo[CorPort]) \in Nat
  BY <1>1, <1>2, <1>3, CorQueue
<1>5. PICK packet \in Sent(CorPort) :
        packet.data = cor_send.data /\ fifo'[CorPort] = Append(kept, packet)
  BY <1>4
<1>6. fifo[CorPort] \in Seq(Sent(CorPort))
  BY PortsInNetwork DEF TypeInv, QueuesOK
<1>7. NoneOf("avg_request", kept) /\ ~ Carries("avg_request", recv'[AvgPort])
  BY <1>1, <1>2, <1>4, <1>6, TailHolds, Delivered
<1>8. Place(0)'
  <2>1. 0 \in 0 .. 5
    OBVIOUS
  <2> QED BY <1>2, <1>7, <2>1, PlaceSteps
<1>9. has_send_avg_data_rq' /\ cor_send'.data = NoWord
  <2>1. ~ Carries("average", recv[CorPort])
    BY <1>2 DEF Place
  <2> QED BY <1>1, <1>2, <2>1, CorSends
<1>10. /\ Len(fifo'[CorPort]) = Len(kept) + 1
       /\ \A i \in DOMAIN fifo'[CorPort] :
            Carries("avg_request", fifo'[CorPort][i]) <=> i = Len(fifo'[CorPort])
  <2>1. Carries("avg_request", packet)
    BY <1>2, <1>5 DEF Carries
  <2> QED BY <1>5, <1>7, <2>1, AppendHolds
<1>11. Len(fifo'[CorPort]) \in 1 .. 3
  <2>1. Len(kept) \in Nat /\ Len(kept) <= 2
    BY <1>2, <1>4
  <2> QED BY <1>10, <2>1
<1> QED BY <1>8, <1>9, <1>10, <1>11 DEF RequestQueued, CorPort, Port, Carries

LEMMA RequestQueuedStep ==
  ASSUME TypeInv, SlotInv, ExchangeInv, NEW adc \in Samples, Edge(adc), RequestQueued
  PROVE  (RequestQueued \/ AnswerComing)'
<1> DEFINE q == fifo[CorPort]
<1>1. Net!Edge(SendPort) /\ Cor!CorEdge(recv[CorPort].data)
  BY DEF Edge
<1>2. /\ has_send_avg_data_rq /\ cor_send.data = NoWord
      /\ Len(q) \in 1 .. 3 /\ Place(0)
      /\ \A i \in DOMAIN q : Carries("avg_request", q[i]) <=> i = Len(q)
  BY DEF RequestQueued
<1>3. fifo'[CorPort] = (IF Net!Ready(CorPort) THEN Tail(q) ELSE q)
  BY <1>1, <1>2, CorQueue
<1>4. q \in Seq(Sent(CorPort))
  BY PortsInNetwork DEF TypeInv, QueuesOK
<1>5. has_send_avg_data_rq' /\ cor_send'.data = NoWord
  <2>1. ~ Carries("average", recv[CorPort])
    BY <1>2 DEF Place
  <2> QED BY <1>1, <1>2, <2>1, CorSends
<1>6. Carries("avg_request", recv'[AvgPort])
        <=> Net!Ready(CorPort) /\ Carries("avg_request", Head(q))
  BY <1>1, Delivered
<1> HIDE DEF q
<1>7. /\ Len(q) \in Nat /\ Len(q) >= 1 /\ DOMAIN q = 1 .. Len(q)
      /\ Len(Tail(q)) = Len(q) - 1 /\ DOMAIN Tail(q) = 1 .. Len(q) - 1
      /\ Head(q) = q[1] /\ 1 \in DOMAIN q
      /\ \A i \in DOMAIN Tail(q) : Tail(q)[i] = q[i + 1]
  BY <1>2, <1>4
<1>8. 0 \in 0 .. 5
  OBVIOUS
<1>9. CASE ~ Net!Ready(CorPort)
  <2>1. Place(0)'
    BY <1>2, <1>6, <1>8, <1>9, PlaceSteps
  <2>2. fifo'[CorPort] = q
    BY <1>3, <1>9
  <2>3. RequestQueued'
    BY <1>2, <1>5, <2>1, <2>2 DEF RequestQueued, CorPort, Port, Carries
  <2> QED BY <2>3
<1>10. CASE Net!Ready(CorPort) /\ Len(q) > 1
  <2>1. ~ Carries("avg_request", Head(q))
    BY <1>2, <1>7, <1>10
  <2>2. Place(0)'
    BY <1>2, <1>6, <1>8, <2>1, PlaceSteps
  <2>3. PICK rest : rest = fifo'[CorPort]
    OBVIOUS
  <2>4. rest = Tail(q) /\ Len(rest) \in 1 .. 3
    BY <1>2, <1>3, <1>7, <1>10, <2>3
  <2>5. \A i \in DOMAIN rest : Carries("avg_request", rest[i]) <=> i = Len(rest)
    <3>1. ASSUME NEW i \in DOMAIN rest
          PROVE  Carries("avg_request", rest[i]) <=> i = Len(rest)
      <4>1. i + 1 \in DOMAIN q /\ rest[i] = q[i + 1] /\ (i + 1 = Len(q) <=> i = Len(rest))
        BY <1>7, <2>4
      <4> QED BY <1>2, <4>1
    <3> QED BY <3>1
  <2>6. RequestQueued'
    BY <1>5, <2>2, <2>3, <2>4, <2>5 DEF RequestQueued, CorPort, Port, Carries
  <2> QED BY <2>6
<1>11. CASE Net!Ready(CorPort) /\ Len(q) = 1
  <2>1. Carries("avg_request", Head(q))
    BY <1>2, <1>7, <1>11
  <2>2. Place(1)'
    BY <1>2, <1>6, <1>8, <1>11, <2>1, PlaceSteps
  <2>3. fifo'[CorPort] = <<>>
    BY <1>3, <1>4, <1>7, <1>11
  <2>4. AnswerComing'
    <3>1. \E n \in 1 .. 5 : Place(n)'
      <4>1. 1 \in 1 .. 5
        OBVIOUS
      <4> QED BY <2>2, <4>1
    <3> QED BY <1>5, <2>3, <3>1 DEF AnswerComing, CorPort, Port
  <2> QED BY <2>4
<1> QED BY <1>2, <1>9, <1>10, <1>11

LEMMA AnswerComingStep ==
  ASSUME TypeInv, SlotInv, ExchangeInv, NEW adc \in Samples, Edge(adc), AnswerComing
  PROVE  (AnswerComing \/ NoExchange)'
<1>1. Net!Edge(SendPort) /\ Cor!CorEdge(recv[CorPort].data)
  BY DEF Edge
<1>2. has_send_avg_data_rq /\ cor_send.data = NoWord /\ fifo[CorPort] = <<>>
  BY DEF AnswerComing
<1>3. PICK n \in 1 .. 5 : Place(n)
  BY DEF AnswerComing
<1>4. ~ Net!Ready(CorPort)
  BY <1>2 DEF Net!Ready, Net!Empty
<1>5. fifo'[CorPort] = <<>> /\ ~ Carries("avg_request", recv'[AvgPort])
  BY <1>1, <1>2, <1>4, CorQueue, Delivered
<1>6. n \in 0 .. 5
  OBVIOUS
<1>7. CASE n < 5
  <2>1. \E m \in 1 .. 5 : Place(m)'
    BY <1>3, <1>5, <1>6, <1>7, PlaceSteps
  <2>2. ~ Carries("average", recv[CorPort])
    BY <1>3, <1>7 DEF Place
  <2>3. has_send_avg_data_rq' /\ cor_send'.data = NoWord
    BY <1>1, <1>2, <2>2, CorSends
  <2>4. AnswerComing'
    BY <1>5, <2>1, <2>3 DEF AnswerComing, CorPort, Port
  <2> QED BY <2>4
<1>8. CASE n = 5
  <2>1. Place(0)'
    BY <1>3, <1>5, <1>6, <1>8, PlaceSteps
  <2>2. Carries("average", recv[CorPort])
    BY <1>3, <1>8 DEF Place
  <2>3. ~ has_send_avg_data_rq' /\ cor_send'.data = NoWord /\ ToCome' <= 2
    BY <1>1, <2>2, CorSends
  <2>4. ~ Carries("avg_request", cor_send')
    BY <2>3, KindsOfWords DEF Carries
  <2>5. NoneOf("avg_request", fifo'[CorPort]) /\ Len(fifo'[CorPort]) = 0
    BY <1>5 DEF NoneOf
  <2>6. ToCome' \in Nat
    BY DEF ToCome, One
  <2>7. NoExchange'
    <3>1. Len(fifo'[CorPort]) + ToCome' <= 2
      <4>1. \A t \in Nat : t <= 2 => 0 + t <= 2
        OBVIOUS
      <4>2. ToCome' <= 2 /\ Len(fifo'[CorPort]) = 0
        BY <2>3, <2>5
      <4> QED BY <2>6, <4>1, <4>2
    <3> QED BY <2>1, <2>3, <2>4, <2>5, <3>1 DEF NoExchange, CorPort, Port, NoneOf, Carries
  <2> QED BY <2>7
<1> QED BY <1>7, <1>8

LEMMA InitExchange == Init => ExchangeInv
<1> SUFFICES ASSUME Init PROVE ExchangeInv
  OBVIOUS
<1>1. /\ has_send_avg_data_rq = FALSE /\ send_avg_data_rq = FALSE /\ just_recv_avg_data = FALSE
      /\ correlation_first_half = FALSE /\ correlation_second_half = FALSE /\ read_request = FALSE
  BY Zenon DEF Init, Avg!AvgInit, Cor!CorInit
<1>2. state = "S0" /\ cor_send.data = NoWord /\ avg_send.data = NoWord
  BY DEF Init, Avg!AvgInit, Cor!CorInit
<1>3. /\ fifo[AvgPort] = <<>> /\ fifo[CorPort] = <<>>
      /\ recv[AvgPort].data = NoWord /\ recv[CorPort].data = NoWord
  BY PortsInNetwork DEF Init, Net!Init, Net!Silent
<1>4. CorOrder
  BY <1>1, <1>2 DEF CorOrder
<1>5. Place(0)
  BY <1>1, <1>2, <1>3, KindsOfWords DEF Place, Carries, NoneOf
<1>6. ToCome = 0
  BY <1>1, <1>2, KindsOfWords DEF ToCome, One, Carries
<1>7. NoneOf("avg_request", fifo[CorPort]) /\ Len(fifo[CorPort]) = 0
  BY <1>3 DEF NoneOf
<1>8. NoExchange
  BY <1>1, <1>2, <1>5, <1>6, <1>7, KindsOfWords DEF NoExchange, Carries
<1> QED BY <1>4, <1>8 DEF ExchangeInv

LEMMA ExchangeCorrect == Spec => [](TypeInv /\ ExchangeInv)
<1>1. TypeInv /\ SlotInv /\ ExchangeInv /\ [Next]_vars => ExchangeInv'
  <2> SUFFICES ASSUME TypeInv, SlotInv, ExchangeInv, [Next]_vars PROVE ExchangeInv'
    OBVIOUS
  <2>1. CASE Next
    <3>1. PICK adc \in Samples : Edge(adc)
      BY <2>1 DEF Next
    <3>2. CorOrder'
      BY <3>1, OrderGoesOn DEF Edge
    <3>3. (NoExchange \/ RequestOnPort \/ RequestQueued \/ AnswerComing)'
      BY <3>1, NoExchangeStep, RequestOnPortStep, RequestQueuedStep, AnswerComingStep
         DEF ExchangeInv
    <3> QED BY <3>2, <3>3 DEF ExchangeInv
  <2>2. CASE UNCHANGED vars
    BY <2>2 DEF ExchangeInv, CorOrder, NoExchange, RequestOnPort, RequestQueued, AnswerComing,
                Place, ToCome, One, Carries, NoneOf, OneOf, vars, netVars, Avg!avgVars,
                Avg!avgRamVars, Cor!corVars, AvgPort, CorPort, Port
  <2> QED BY <2>1, <2>2
<1> QED BY <1>1, InitExchange, SlotsCorrect, PTL DEF Spec

LEMMA QueuedCount ==
  ASSUME NEW kind, NEW p
  PROVE  /\ NoneOf(kind, fifo[p]) => Queued(kind, p) = 0
         /\ OneOf(kind, fifo[p]) => Queued(kind, p) = 1
<1> DEFINE found == {i \in DOMAIN fifo[p] : Carries(kind, fifo[p][i])}
<1>1. Queued(kind, p) = Cardinality(found)
  BY DEF Queued
<1>2. ASSUME NoneOf(kind, fifo[p]) PROVE Cardinality(found) = 0
  <2>1. found = {}
    BY <1>2 DEF NoneOf
  <2> QED BY <2>1, FS_EmptySet
<1>3. ASSUME OneOf(kind, fifo[p]) PROVE Cardinality(found) = 1
  <2>1. \E i : found = {i}
    BY <1>3 DEF OneOf
  <2> QED BY <2>1, FS_Singleton
<1> QED BY <1>1, <1>2, <1>3

(* No request and no average of an exchange is lost or doubled, and none   *)
(* is under way when the correlation ASP waits for none, for queues of any *)
(* depth from three, any sizes of buffer and memory, and any configuration *)
(* packets at any edges (CorAsp has_send_avg_data_rq, AvgAsp_RAM           *)
(* read_request, TdmaMinInterface).                                        *)
THEOREM ExchangesAreNeverLost == Spec => []OneExchange
<1>1. TypeInv /\ ExchangeInv => OneExchange
  <2> SUFFICES ASSUME TypeInv, ExchangeInv PROVE OneExchange
    OBVIOUS
  <2>1. One(just_recv_avg_data) = 0
    BY DEF ExchangeInv, CorOrder, One
  <2> DEFINE Answer == One(Carries("avg_request", recv[AvgPort])) + One(read_request)
                         + One(Carries("average", avg_send)) + Queued("average", AvgPort)
                         + One(Carries("average", recv[CorPort]))
  <2>2. ASSUME NEW n \in 0 .. 5, Place(n)
        PROVE  Answer = (IF n = 0 THEN 0 ELSE 1) /\ Queued("average", AvgPort) \in 0 .. 1
    <3>1. /\ One(Carries("avg_request", recv[AvgPort])) = IF n = 1 THEN 1 ELSE 0
          /\ One(read_request) = IF n = 2 THEN 1 ELSE 0
          /\ One(Carries("average", avg_send)) = IF n = 3 THEN 1 ELSE 0
          /\ One(Carries("average", recv[CorPort])) = IF n = 5 THEN 1 ELSE 0
      BY <2>2 DEF Place, One
    <3>2. Queued("average", AvgPort) = IF n = 4 THEN 1 ELSE 0
      BY <2>2, QueuedCount DEF Place
    <3> QED BY <3>1, <3>2
  <2>3. /\ Place(0) => Answer = 0 /\ Queued("average", AvgPort) \in 0 .. 1
        /\ \A n \in 1 .. 5 : Place(n) => Answer = 1 /\ Queued("average", AvgPort) \in 0 .. 1
    <3>1. 0 \in 0 .. 5 /\ \A n \in 1 .. 5 : n \in 0 .. 5 /\ n # 0
      OBVIOUS
    <3> HIDE DEF Answer
    <3> QED BY <2>2, <3>1
  <2>4. ASSUME Queued("avg_request", CorPort) \in 0 .. 1, Queued("average", AvgPort) \in 0 .. 1
        PROVE  Tokens = One(Carries("avg_request", cor_send)) + Queued("avg_request", CorPort) + Answer
    <3>1. \A a, b, c, d, e, f, g \in 0 .. 1 :
             a + b + c + d + e + f + g + 0 = a + b + (c + d + e + f + g)
      OBVIOUS
    <3>2. /\ One(Carries("avg_request", cor_send)) \in 0 .. 1
          /\ One(Carries("avg_request", recv[AvgPort])) \in 0 .. 1
          /\ One(read_request) \in 0 .. 1 /\ One(Carries("average", avg_send)) \in 0 .. 1
          /\ One(Carries("average", recv[CorPort])) \in 0 .. 1
      BY DEF One
    <3> QED BY <2>1, <2>4, <3>1, <3>2 DEF Tokens
  <2> HIDE DEF Answer
  <2>5. CASE NoExchange
    <3>1. One(Carries("avg_request", cor_send)) = 0 /\ One(has_send_avg_data_rq) = 0
      BY <2>5 DEF NoExchange, One
    <3>2. Queued("avg_request", CorPort) = 0
      BY <2>5, QueuedCount DEF NoExchange
    <3>3. Answer = 0 /\ Queued("average", AvgPort) \in 0 .. 1
      BY <2>3, <2>5 DEF NoExchange
    <3> QED BY <2>4, <3>1, <3>2, <3>3 DEF OneExchange
  <2>6. CASE RequestOnPort
    <3>1. One(Carries("avg_request", cor_send)) = 1 /\ One(has_send_avg_data_rq) = 1
      BY <2>6 DEF RequestOnPort, One
    <3>2. Queued("avg_request", CorPort) = 0
      BY <2>6, QueuedCount DEF RequestOnPort
    <3>3. Answer = 0 /\ Queued("average", AvgPort) \in 0 .. 1
      BY <2>3, <2>6 DEF RequestOnPort
    <3> QED BY <2>4, <3>1, <3>2, <3>3 DEF OneExchange
  <2>7. CASE RequestQueued
    <3>1. One(Carries("avg_request", cor_send)) = 0 /\ One(has_send_avg_data_rq) = 1
      BY <2>7, KindsOfWords DEF RequestQueued, One, Carries
    <3>2. Queued("avg_request", CorPort) = 1
      <4>1. fifo[CorPort] \in Seq(Sent(CorPort))
        BY PortsInNetwork DEF TypeInv, QueuesOK
      <4>2. Len(fifo[CorPort]) \in DOMAIN fifo[CorPort]
        BY <2>7, <4>1 DEF RequestQueued
      <4>3. OneOf("avg_request", fifo[CorPort])
        BY <2>7, <4>2 DEF RequestQueued, OneOf
      <4> QED BY <4>3, QueuedCount
    <3>3. Answer = 0 /\ Queued("average", AvgPort) \in 0 .. 1
      BY <2>3, <2>7 DEF RequestQueued
    <3> QED BY <2>4, <3>1, <3>2, <3>3 DEF OneExchange
  <2>8. CASE AnswerComing
    <3>1. One(Carries("avg_request", cor_send)) = 0 /\ One(has_send_avg_data_rq) = 1
      BY <2>8, KindsOfWords DEF AnswerComing, One, Carries
    <3>2. Queued("avg_request", CorPort) = 0
      <4>1. NoneOf("avg_request", fifo[CorPort])
        BY <2>8 DEF AnswerComing, NoneOf
      <4> QED BY <4>1, QueuedCount
    <3>3. Answer = 1 /\ Queued("average", AvgPort) \in 0 .. 1
      BY <2>3, <2>8 DEF AnswerComing
    <3> QED BY <2>4, <3>1, <3>2, <3>3 DEF OneExchange
  <2> QED BY <2>5, <2>6, <2>7, <2>8 DEF ExchangeInv
<1> QED BY <1>1, ExchangeCorrect, PTL

(* The queue of the correlation ASP never holds more than the two halves   *)
(* of a result and a request, however long the network holds them (CorAsp  *)
(* correlation_first_half, correlation_second_half, send_avg_data_rq).     *)
THEOREM CorQueueIsBounded == Spec => []CorQueueBound
<1>1. TypeInv /\ ExchangeInv => CorQueueBound
  <2> SUFFICES ASSUME TypeInv, ExchangeInv PROVE Len(fifo[CorPort]) <= 3
    BY DEF CorQueueBound
  <2>1. Len(fifo[CorPort]) \in Nat
    BY PortsInNetwork DEF TypeInv, QueuesOK
  <2>2. CASE NoExchange
    <3>1. ToCome \in Nat
      BY DEF ToCome, One
    <3> QED BY <2>1, <2>2, <3>1 DEF NoExchange
  <2>3. CASE RequestOnPort
    BY <2>1, <2>3 DEF RequestOnPort
  <2>4. CASE RequestQueued
    BY <2>4 DEF RequestQueued
  <2>5. CASE AnswerComing
    <3>1. Len(fifo[CorPort]) = 0
      BY <2>5 DEF AnswerComing
    <3> QED BY <3>1
  <2> QED BY <2>2, <2>3, <2>4, <2>5 DEF ExchangeInv
<1> QED BY <1>1, ExchangeCorrect, PTL
----------------------------------------------------------------------------
(* The signal path implements the correlation ASP with a service of any    *)
(* speed: the network and the averaging ASP answer each request once, and  *)
(* only when one is out. What the service remembers is added to the path   *)
(* as history: the last answers, and the newest address when the origin    *)
(* was asked for.                                                          *)
VARIABLES
  answered, ends, steady,   \* as in CorAspService
  cell                      \* the cell read at the edge at which a request last came
pathVars == <<vars, answered, ends, steady, cell>>

(* The request that has left the correlation ASP and has not been answered *)
(* yet, wherever it or its answer is.                                      *)
Pending == IF has_send_avg_data_rq /\ ~ Carries("avg_request", cor_send)
           THEN {avg_data_mem_addr} ELSE {}

(* The words of other kinds, as far as the service may see them. *)
OtherWords == {w \in Words \cup {NoWord} : w.kind \notin {"average", "new_address", "cor_config"}}

Service == INSTANCE CorAspServiceProofs
             WITH sendSignal <- cor_send, avg_data <- cor_avg_data, pending <- Pending,
                  Averages <- 0 .. SumModulus - 1, WindowCodes <- 0 .. 7, Others <- OtherWords

(* The path with its history, which decides nothing. *)
HistoryInit ==
  /\ Init
  /\ Service!InitHistory
  /\ cell = [addr |-> 0, value |-> 0]
HistoryNext ==
  /\ Next
  /\ Service!Remember(recv[CorPort].data)
  /\ cell' = IF Carries("avg_request", recv[AvgPort])
             THEN [addr |-> ram_raddr, value |-> ram[ram_raddr]] ELSE cell
HistorySpec == HistoryInit /\ [][HistoryNext]_pathVars

LEMMA SameCor ==
  ASSUME NEW word
  PROVE  Cor!CorEdge(word) <=> Service!CorEdge(word)
<1>1. /\ Cor!Half = Service!Half
      /\ Cor!Got(word) = Service!Got(word) /\ Cor!Asked(word) = Service!Asked(word)
  BY DEF Cor!Half, Service!Half, Cor!Got, Service!Got, Cor!Asked, Service!Asked
<1>2. Cor!FetchAddr = Service!FetchAddr
  BY <1>1 DEF Cor!FetchAddr, Service!FetchAddr, Cor!AddrMinus, Service!AddrMinus
<1>3. Cor!Receive(word) <=> Service!Receive(word)
  BY DEF Cor!Receive, Service!Receive
<1>4. Cor!Machine(word) <=> Service!Machine(word)
  <2>1. Cor!Await(word) <=> Service!Await(word)
    BY <1>1, <1>2 DEF Cor!Await, Service!Await
  <2>2. Cor!Discard(word) <=> Service!Discard(word)
    BY <1>1 DEF Cor!Discard, Service!Discard
  <2>3. Cor!Start(word) <=> Service!Start(word)
    BY <1>1 DEF Cor!Start, Service!Start
  <2>4. Cor!Multiply(word) <=> Service!Multiply(word)
    BY <1>1 DEF Cor!Multiply, Service!Multiply
  <2>5. Cor!CountPair(word) <=> Service!CountPair(word)
    BY <1>1 DEF Cor!CountPair, Service!CountPair
  <2>6. Cor!Accumulate(word) <=> Service!Accumulate(word)
    BY <1>1 DEF Cor!Accumulate, Service!Accumulate
  <2> QED BY <2>1, <2>2, <2>3, <2>4, <2>5, <2>6 DEF Cor!Machine, Service!Machine
<1>5. Cor!Transmit(word) <=> Service!Transmit(word)
  <2>1. /\ Cor!Wanted(word) = Service!Wanted(word) /\ Cor!Out(word) = Service!Out(word)
        /\ Cor!Completes(word) = Service!Completes(word)
    BY <1>1 DEF Cor!Wanted, Service!Wanted, Cor!Out, Service!Out, Cor!Completes, Service!Completes
  <2>2. Cor!NoHalf(word) <=> Service!NoHalf(word)
    BY <2>1 DEF Cor!NoHalf, Service!NoHalf
  <2>3. Cor!SendFirstHalf(word) <=> Service!SendFirstHalf(word)
    BY <2>1 DEF Cor!SendFirstHalf, Service!SendFirstHalf, Cor!PdAddr, Service!PdAddr
  <2>4. Cor!SendSecondHalf(word) <=> Service!SendSecondHalf(word)
    BY <2>1 DEF Cor!SendSecondHalf, Service!SendSecondHalf, Cor!PdAddr, Service!PdAddr
  <2>5. Cor!SendRequest(word) <=> Service!SendRequest(word)
    BY <2>1, <2>2 DEF Cor!SendRequest, Service!SendRequest, Cor!AvgAddr, Service!AvgAddr
  <2>6. Cor!SendNothing(word) <=> Service!SendNothing(word)
    BY <2>1, <2>2 DEF Cor!SendNothing, Service!SendNothing
  <2> QED BY <2>3, <2>4, <2>5, <2>6 DEF Cor!Transmit, Service!Transmit
<1> QED BY <1>3, <1>4, <1>5 DEF Cor!CorEdge, Service!CorEdge

(* A request on the port is for the address that is kept. *)
RequestAddr == Carries("avg_request", cor_send) => cor_send.data.addr = avg_data_mem_addr

LEMMA RequestAddrNext ==
  ASSUME NEW word, Cor!CorEdge(word)
  PROVE  RequestAddr'
<1>1. Cor!Transmit(word) BY DEF Cor!CorEdge
<1>2. CASE Cor!SendRequest(word)
  BY <1>2 DEF Cor!SendRequest, RequestAddr, Carries
<1>3. CASE ~ Cor!SendRequest(word)
  <2>1. cor_send'.data.kind \in {"correlation", "none"}
    BY <1>1, <1>3, KindsOfWords
    DEF Cor!Transmit, Cor!SendFirstHalf, Cor!SendSecondHalf, Cor!SendNothing
  <2> QED BY <2>1 DEF RequestAddr, Carries
<1> QED BY <1>2, <1>3

(* The word that comes is one that the service gives. *)
LEMMA ServiceWord ==
  ASSUME TypeInv, ExchangeInv
  PROVE  recv[CorPort].data \in Service!Words
<1> DEFINE word == recv[CorPort].data
<1>1. word \in Words \cup {NoWord} BY Received, PortsInNetwork
<1>2. CASE word.kind = "average"
  <2>1. AnswerComing BY <1>2, Awaited DEF Carries
  <2>2. Pending # {} BY <2>1, KindsOfWords DEF AnswerComing, Pending, Carries
  <2>3. word \in [kind : {"average"}, calculate : BOOLEAN, value : 0 .. SumModulus - 1]
    BY <1>1, <1>2, KindSets DEF Averages
  <2> QED BY <2>2, <2>3 DEF Service!Words
<1>3. CASE word.kind = "new_address"
  <2>1. word \in [kind : {"new_address"}, addr : Service!Address]
    BY <1>1, <1>3, KindSets DEF Announces, Address, Service!Address
  <2> QED BY <2>1 DEF Service!Words
<1>4. CASE word.kind = "cor_config"
  <2>1. word \in ConfigWords BY <1>1, <1>4, KindSets
  <2>2. word \in [kind : {"cor_config"}, window : 0 .. 7] BY <2>1, <1>4 DEF ConfigWords
  <2> QED BY <2>2 DEF Service!Words
<1>5. CASE word.kind \notin {"average", "new_address", "cor_config"}
  <2>1. word \in OtherWords BY <1>1, <1>5 DEF OtherWords
  <2> QED BY <2>1 DEF Service!Words
<1> QED BY <1>2, <1>3, <1>4, <1>5

(* What is pending, by what the correlation ASP sends and reads. *)
LEMMA PendingStep ==
  ASSUME TypeInv, ExchangeInv, RequestAddr, Cor!CorEdge(recv[CorPort].data)
  PROVE  Pending' = IF recv[CorPort].data.kind = "average" THEN Service!Requests
                    ELSE Pending \cup Service!Requests
<1> DEFINE word == recv[CorPort].data
<1>1. Service!Requests = IF Carries("avg_request", cor_send) THEN {avg_data_mem_addr} ELSE {}
  BY DEF Service!Requests, RequestAddr, Carries
<1>2. Pending' = IF has_send_avg_data_rq' /\ ~ Carries("avg_request", cor_send')
                 THEN {avg_data_mem_addr'} ELSE {}
  BY DEF Pending, Carries
<1>3. CASE ~ has_send_avg_data_rq
  <2>1. NoExchange
    BY <1>3 DEF ExchangeInv, RequestOnPort, RequestQueued, AnswerComing
  <2>2. Service!Requests = {} /\ Pending = {}
    BY <1>1, <1>3, <2>1 DEF NoExchange, Pending
  <2>3. Pending' = {}
    BY <1>2, <1>3, CorSends
  <2> QED BY <2>2, <2>3
<1>4. CASE has_send_avg_data_rq /\ ~ Carries("average", recv[CorPort])
  <2>1. has_send_avg_data_rq' /\ cor_send'.data = NoWord
    BY <1>4, CorSends
  <2>2. avg_data_mem_addr' = avg_data_mem_addr
    <3>1. Cor!Machine(word) BY DEF Cor!CorEdge
    <3>2. ~ Cor!Got(word) BY <1>4, Awaited
    <3> QED BY <3>1, <3>2, <1>4
        DEF Cor!Machine, Cor!Await, Cor!Discard, Cor!Start, Cor!Multiply, Cor!CountPair, Cor!Accumulate
  <2>3. Pending' = {avg_data_mem_addr}
    BY <1>2, <2>1, <2>2, KindsOfWords DEF Carries
  <2>4. Pending \cup Service!Requests = {avg_data_mem_addr}
    BY <1>1, <1>4 DEF Pending
  <2> QED BY <1>4, <2>3, <2>4 DEF Carries
<1>5. CASE Carries("average", recv[CorPort])
  <2>1. ~ has_send_avg_data_rq' /\ cor_send.data = NoWord
    BY <1>5, CorSends, Awaited DEF AnswerComing
  <2>2. Service!Requests = {} BY <1>1, <2>1, KindsOfWords DEF Carries
  <2>3. Pending' = {} BY <1>2, <2>1
  <2> QED BY <1>5, <2>2, <2>3 DEF Carries
<1> QED BY <1>3, <1>4, <1>5

LEMMA EdgeIsServiceEdge ==
  ASSUME TypeInv, ExchangeInv, RequestAddr, HistoryNext
  PROVE  Service!ServiceNext
<1>1. Cor!CorEdge(recv[CorPort].data) /\ Service!Remember(recv[CorPort].data)
  BY DEF HistoryNext, Next, Edge
<1>2. Service!CorEdge(recv[CorPort].data)
  BY <1>1, SameCor
<1>3. Service!ServiceEdge(recv[CorPort].data)
  BY <1>1, <1>2, PendingStep DEF Service!ServiceEdge
<1> QED BY <1>3, ServiceWord DEF Service!ServiceNext

(* The signal path implements the correlation ASP with a service that      *)
(* answers each request once, after any time: what the network and the     *)
(* averaging ASP are to the correlation ASP (CorAsp, AvgAsp_RAM "Send Q    *)
(* From RAM", TdmaMinInterface).                                           *)
THEOREM PathIsAService == HistorySpec => Service!ServiceSpec
<1>1. HistorySpec => Spec
  <2>1. HistoryInit => Init BY DEF HistoryInit
  <2>2. [HistoryNext]_pathVars => [Next]_vars
    BY DEF HistoryNext, pathVars
  <2> QED BY <2>1, <2>2, PTL DEF HistorySpec, Spec
<1>2. HistorySpec => [](TypeInv /\ ExchangeInv)
  BY <1>1, ExchangeCorrect, PTL
<1>3. HistorySpec => []RequestAddr
  <2>1. HistoryInit => RequestAddr
    BY KindsOfWords DEF HistoryInit, Init, Cor!CorInit, RequestAddr, Carries
  <2>2. RequestAddr /\ [HistoryNext]_pathVars => RequestAddr'
    <3>1. HistoryNext => RequestAddr'
      BY RequestAddrNext DEF HistoryNext, Next, Edge
    <3>2. RequestAddr /\ UNCHANGED pathVars => RequestAddr'
      BY DEF RequestAddr, Carries, pathVars, vars, Cor!corVars
    <3> QED BY <3>1, <3>2
  <2> QED BY <2>1, <2>2, PTL DEF HistorySpec
<1>4. HistoryInit => Service!ServiceInit
  <2> SUFFICES ASSUME HistoryInit PROVE Service!ServiceInit
    OBVIOUS
  <2>1. Service!CorInit
    BY DEF HistoryInit, Init, Cor!CorInit, Service!CorInit
  <2>2. Pending = {}
    BY DEF HistoryInit, Init, Cor!CorInit, Pending
  <2> QED BY <2>1, <2>2 DEF HistoryInit, Service!ServiceInit
<1>5. TypeInv /\ ExchangeInv /\ RequestAddr /\ [HistoryNext]_pathVars
        => [Service!ServiceNext]_(Service!serviceVars)
  <2>1. UNCHANGED pathVars => UNCHANGED Service!serviceVars
    BY DEF pathVars, vars, Cor!corVars, Service!serviceVars, Service!corVars, Service!history, Pending, Carries
  <2> QED BY <2>1, EdgeIsServiceEdge
<1> QED BY <1>2, <1>3, <1>4, <1>5, PTL DEF HistorySpec, Service!ServiceSpec

LEMMA ServiceAssumptions ==
  /\ Service!CorAssumption /\ Service!AveragesAssumption /\ Service!CodesAssumption
  /\ Service!NoWordAssumption /\ Service!OthersAssumption
BY AspAssumption, KindsOfWords
   DEF Service!CorAssumption, Service!AveragesAssumption, Service!CodesAssumption,
       Service!NoWordAssumption, Service!OthersAssumption, OtherWords

(* A correlation of the path is the sum of the products of the answers to  *)
(* the requests for its window, when the window fits the memory and no     *)
(* configuration packet comes meanwhile (CorAsp S0 - S3, AvgAsp_RAM).      *)
THEOREM PathCorrelatesAnswers == HistorySpec => Service!CorrelationIsWindowSum
<1>1. Service!ServiceSpec => Service!CorrelationIsWindowSum
  BY ServiceAssumptions, Service!CorrelationsAreWindowSums
<1> QED BY <1>1, PathIsAService, PTL

----------------------------------------------------------------------------
(* Answers come one request late. The memory reads its cell at the edge at *)
(* which a request comes, and the request's own address is latched only    *)
(* then: the answer is the cell of the request before. In the correlation  *)
(* ASP the factors of a pair are so those of the addresses fetched before  *)
(* them.                                                                   *)
AnswerIsLate ==
  Carries("average", recv[CorPort]) =>
    /\ recv[CorPort].data.value = cell.value
    /\ state = "S1" => cell.addr = (current_corr_origin + counter) % RamSize
    /\ state = "S3" => cell.addr = Cor!AddrMinus(current_corr_origin, counter)

(* An answer is under way, from the edge at which its cell is read.        *)
Answering == read_request \/ Carries("average", avg_send)
               \/ ~ NoneOf("average", fifo[AvgPort]) \/ Carries("average", recv[CorPort])

LEMMA AnsweringPlaces ==
  ASSUME ExchangeInv
  PROVE  /\ Carries("avg_request", recv[AvgPort]) => ~ Answering
         /\ Answering => has_send_avg_data_rq
         /\ Carries("avg_request", recv[AvgPort]) => has_send_avg_data_rq
         /\ \E n \in 0 .. 5 : Place(n) /\ (Answering <=> n \in 2 .. 5)
<1>1. \E n \in 0 .. 5 : Place(n) /\ (n # 0 => has_send_avg_data_rq)
  <2>1. 0 \in 0 .. 5 /\ \A n \in 1 .. 5 : n \in 0 .. 5 OBVIOUS
  <2> QED BY <2>1 DEF ExchangeInv, NoExchange, RequestOnPort, RequestQueued, AnswerComing
<1>2. PICK n \in 0 .. 5 : Place(n) /\ (n # 0 => has_send_avg_data_rq) BY <1>1
<1>3. OneOf("average", fifo[AvgPort]) => ~ NoneOf("average", fifo[AvgPort])
  BY DEF OneOf, NoneOf
<1>4. Answering <=> n \in 2 .. 5
  BY <1>2, <1>3 DEF Place, Answering
<1>5. Carries("avg_request", recv[AvgPort]) <=> n = 1
  BY <1>2 DEF Place
<1> QED BY <1>2, <1>4, <1>5

LEMMA AnsweringStep ==
  ASSUME TypeInv, SlotInv, ExchangeInv, NEW adc \in Samples, Edge(adc)
  PROVE  Answering' <=> \/ Carries("avg_request", recv[AvgPort])
                        \/ Answering /\ ~ Carries("average", recv[CorPort])
<1>1. Net!Edge(SendPort) /\ Avg!AvgEdge(recv[AvgPort].data)
  BY DEF Edge
<1>2. PICK n \in 0 .. 5 : Place(n) /\ (Answering <=> n \in 2 .. 5)
  BY AnsweringPlaces
<1>3. /\ Carries("avg_request", recv[AvgPort]) <=> n = 1
      /\ Carries("average", recv[CorPort]) <=> n = 5
  BY <1>2 DEF Place
<1>4. /\ read_request' <=> n = 1
      /\ Carries("average", avg_send') <=> n = 2
  BY <1>1, <1>2, AvgSteps DEF Place, Carries
<1>5. /\ n \notin {3, 4} => NoneOf("average", fifo'[AvgPort]) /\ ~ Carries("average", recv'[CorPort])
      /\ n = 3 => OneOf("average", fifo'[AvgPort])
      /\ n = 4 => \/ Carries("average", recv'[CorPort])
                  \/ OneOf("average", fifo'[AvgPort])
  BY <1>1, <1>2, AnswerQueue DEF Place
<1>6. OneOf("average", fifo'[AvgPort]) => ~ NoneOf("average", fifo'[AvgPort])
  BY DEF OneOf, NoneOf
<1>7. Answering' <=> read_request' \/ Carries("average", avg_send')
                       \/ ~ NoneOf("average", fifo'[AvgPort]) \/ Carries("average", recv'[CorPort])
  BY DEF Answering, NoneOf, Carries, AvgPort, CorPort, Port
<1>8. Answering' <=> n \in 1 .. 4
  BY <1>4, <1>5, <1>6, <1>7
<1> QED BY <1>2, <1>3, <1>8

(* What travels from a port to another: a word in a queue or on the port   *)
(* is one that was in the queue or on the port before.                     *)
LEMMA Travels ==
  ASSUME TypeInv, Net!Edge(SendPort), NEW kind, NEW p \in Ports, NEW q \in Ports, NEW Good,
         \A r \in Ports : \A packet \in Sent(r) : Carries(kind, packet) => r = p,
         kind # "none",
         \A i \in DOMAIN fifo[p] : Carries(kind, fifo[p][i]) => fifo[p][i].data \in Good,
         SendPort[p].data.kind = kind => SendPort[p].data \in Good
  PROVE  /\ \A i \in DOMAIN fifo'[p] : Carries(kind, fifo'[p][i]) => fifo'[p][i].data \in Good
         /\ Carries(kind, recv'[q]) => recv'[q].data \in Good
<1>1. PICK kept \in Seq(Sent(p)) :
        /\ kept = IF Net!Ready(p) THEN Tail(fifo[p]) ELSE fifo[p]
        /\ Net!Ready(p) => fifo[p] # <<>> /\ Head(fifo[p]).addr = Net!Partner(p)
        /\ fifo'[p] = IF SendPort[p].data # NoWord /\ Len(fifo[p]) < Depth
                      THEN Append(kept, SendPort[p]) ELSE kept
  BY QueueStep
<1>2. fifo[p] \in Seq(Sent(p)) BY DEF TypeInv, QueuesOK
<1>3. \A i \in DOMAIN kept : Carries(kind, kept[i]) => kept[i].data \in Good
  <2>1. CASE Net!Ready(p)
    <3>1. SUFFICES ASSUME NEW i \in DOMAIN kept, Carries(kind, kept[i]) PROVE kept[i].data \in Good
      OBVIOUS
    <3>2. i \in 1 .. Len(kept) /\ Len(kept) = Len(fifo[p]) - 1 /\ kept[i] = fifo[p][i + 1]
      BY <1>1, <1>2, <2>1
    <3>3. i + 1 \in DOMAIN fifo[p] BY <1>2, <3>2
    <3> QED BY <3>1, <3>2, <3>3
  <2>2. CASE ~ Net!Ready(p)
    BY <1>1, <2>2
  <2> QED BY <2>1, <2>2
<1>4. \A i \in DOMAIN fifo'[p] : Carries(kind, fifo'[p][i]) => fifo'[p][i].data \in Good
  <2>1. CASE SendPort[p].data # NoWord /\ Len(fifo[p]) < Depth
    <3>1. fifo'[p] = Append(kept, SendPort[p]) BY <1>1, <2>1
    <3>2. SendPort[p] \in Sent(p) BY <2>1, Driven DEF TypeInv
    <3>3. SUFFICES ASSUME NEW i \in DOMAIN fifo'[p], Carries(kind, fifo'[p][i])
                   PROVE  fifo'[p][i].data \in Good
      OBVIOUS
    <3>4. i \in 1 .. Len(kept) + 1 /\ Len(kept) \in Nat BY <3>1, <3>2, <3>3
    <3>5. CASE i = Len(kept) + 1
      <4>1. fifo'[p][i] = SendPort[p] BY <3>1, <3>2, <3>5
      <4> QED BY <3>3, <4>1 DEF Carries
    <3>6. CASE i # Len(kept) + 1
      <4>1. i \in DOMAIN kept /\ fifo'[p][i] = kept[i] BY <3>1, <3>2, <3>4, <3>6
      <4> QED BY <1>3, <3>3, <4>1
    <3> QED BY <3>5, <3>6
  <2>2. CASE ~ (SendPort[p].data # NoWord /\ Len(fifo[p]) < Depth)
    BY <1>1, <1>3, <2>2
  <2> QED BY <2>1, <2>2
<1>5. ASSUME Carries(kind, recv'[q]) PROVE recv'[q].data \in Good
  <2>1. recv'[q].data # NoWord BY <1>5, KindsOfWords DEF Carries
  <2>2. /\ Net!Partner(q) \in Ports /\ Net!Ready(Net!Partner(q))
        /\ recv'[q].data = Head(fifo[Net!Partner(q)]).data
        /\ Head(fifo[Net!Partner(q)]) \in Sent(Net!Partner(q))
    BY <2>1, Arrival
  <2>3. Net!Partner(q) = p BY <1>5, <2>2 DEF Carries
  <2>4. fifo[p] # <<>> BY <2>2, <2>3 DEF Net!Ready, Net!Empty
  <2>5. 1 \in DOMAIN fifo[p] /\ Head(fifo[p]) = fifo[p][1] BY <1>2, <2>4
  <2> QED BY <1>5, <2>2, <2>3, <2>5 DEF Carries
<1> QED BY <1>4, <1>5

(* The one request is for the address that is kept, and the one answer     *)
(* holds what was read.                                                    *)
RequestsKept ==
  /\ RequestAddr
  /\ \A i \in DOMAIN fifo[CorPort] : Carries("avg_request", fifo[CorPort][i])
                                       => fifo[CorPort][i].data.addr = avg_data_mem_addr
  /\ Carries("avg_request", recv[AvgPort]) => recv[AvgPort].data.addr = avg_data_mem_addr

AnswersKept ==
  /\ read_request => ram_q = cell.value
  /\ Carries("average", avg_send) => avg_send.data.value = cell.value
  /\ \A i \in DOMAIN fifo[AvgPort] : Carries("average", fifo[AvgPort][i])
                                       => fifo[AvgPort][i].data.value = cell.value
  /\ Carries("average", recv[CorPort]) => recv[CorPort].data.value = cell.value

(* The address that is read for the answer to come. *)
ReadAddr == IF Answering THEN cell.addr ELSE ram_raddr

Fetching ==
  /\ Answering => ram_raddr = avg_data_mem_addr
  /\ state = "S1" =>
       /\ ReadAddr = (current_corr_origin + counter) % RamSize
       /\ has_send_avg_data_rq => avg_data_mem_addr = Cor!AddrMinus(current_corr_origin, counter + 1)
  /\ state = "S2" => ram_raddr = Cor!AddrMinus(current_corr_origin, counter + 1)
  /\ state = "S3" =>
       /\ ReadAddr = Cor!AddrMinus(current_corr_origin, counter)
       /\ has_send_avg_data_rq => avg_data_mem_addr = (current_corr_origin + counter) % RamSize

LateInv == RequestsKept /\ AnswersKept /\ Fetching

LEMMA AddressKept ==
  ASSUME TypeInv, ExchangeInv, Cor!CorEdge(recv[CorPort].data), has_send_avg_data_rq
  PROVE  avg_data_mem_addr' = avg_data_mem_addr
<1>1. Cor!Machine(recv[CorPort].data) BY DEF Cor!CorEdge
<1> QED BY <1>1
    DEF Cor!Machine, Cor!Await, Cor!Discard, Cor!Start, Cor!Multiply, Cor!CountPair, Cor!Accumulate

LEMMA SendersOfExchange ==
  /\ \A r \in Ports : \A packet \in Sent(r) : Carries("average", packet) => r = AvgPort
  /\ \A r \in Ports : \A packet \in Sent(r) : Carries("avg_request", packet) => r = CorPort
BY Senders DEF Carries

LEMMA RequestsKeptNext ==
  ASSUME TypeInv, ExchangeInv, RequestsKept, NEW adc \in Samples, Edge(adc)
  PROVE  RequestsKept'
<1>1. Net!Edge(SendPort) /\ Cor!CorEdge(recv[CorPort].data)
  BY DEF Edge
<1>2. RequestAddr' BY <1>1, RequestAddrNext
<1> DEFINE Good == {w \in RequestWords : w.addr = avg_data_mem_addr'}
<1>3. fifo[CorPort] \in Seq(Sent(CorPort)) BY PortsInNetwork DEF TypeInv, QueuesOK
<1>4. \A i \in DOMAIN fifo[CorPort] : Carries("avg_request", fifo[CorPort][i])
                                        => fifo[CorPort][i].data \in Good
  <2> SUFFICES ASSUME NEW i \in DOMAIN fifo[CorPort], Carries("avg_request", fifo[CorPort][i])
               PROVE  fifo[CorPort][i].data \in Good
    OBVIOUS
  <2>1. fifo[CorPort][i].data \in RequestWords
    <3>1. fifo[CorPort][i] \in Sent(CorPort) BY <1>3
    <3>2. fifo[CorPort][i] \in [addr : {AvgPort}, data : RequestWords] \cup [addr : {PdPort}, data : Halves]
      BY <3>1, PortsInNetwork DEF Sent
    <3> QED BY <3>2, SentKinds DEF Carries
  <2>2. has_send_avg_data_rq
    BY DEF ExchangeInv, NoExchange, NoneOf, RequestOnPort, RequestQueued, AnswerComing
  <2>3. fifo[CorPort][i].data.addr = avg_data_mem_addr'
    BY <1>1, <2>2, AddressKept DEF RequestsKept
  <2> QED BY <2>1, <2>3
<1>5. SendPort[CorPort].data.kind = "avg_request" => SendPort[CorPort].data \in Good
  <2> SUFFICES ASSUME SendPort[CorPort].data.kind = "avg_request" PROVE SendPort[CorPort].data \in Good
    OBVIOUS
  <2>1. SendPort[CorPort].data = cor_send.data BY Driven, PortsInNetwork DEF TypeInv
  <2>2. Carries("avg_request", cor_send) BY <2>1 DEF Carries
  <2>3. cor_send.data \in RequestWords
    BY <2>2, SentKinds, KindsOfWords DEF TypeInv, SendsOK, Silent, Carries
  <2>4. has_send_avg_data_rq
    BY <2>2, KindsOfWords DEF Carries, ExchangeInv, NoExchange, RequestOnPort, RequestQueued, AnswerComing
  <2>5. cor_send.data.addr = avg_data_mem_addr'
    BY <1>1, <2>2, <2>4, AddressKept DEF RequestsKept, RequestAddr
  <2> QED BY <2>1, <2>3, <2>5
<1> HIDE DEF Good
<1>6. /\ \A i \in DOMAIN fifo'[CorPort] : Carries("avg_request", fifo'[CorPort][i])
                                            => fifo'[CorPort][i].data \in Good
      /\ Carries("avg_request", recv'[AvgPort]) => recv'[AvgPort].data \in Good
  BY <1>1, <1>4, <1>5, SendersOfExchange, PortsInNetwork, Travels
<1>7. \A w \in Good : w.addr = avg_data_mem_addr' BY DEF Good
<1>8. /\ \A i \in DOMAIN fifo'[CorPort] : Carries("avg_request", fifo'[CorPort][i])
                                            => fifo'[CorPort][i].data.addr = avg_data_mem_addr'
      /\ Carries("avg_request", recv'[AvgPort]) => recv'[AvgPort].data.addr = avg_data_mem_addr'
  BY <1>6, <1>7
<1> QED BY <1>2, <1>8 DEF RequestsKept, Carries, AvgPort, CorPort, Port

LEMMA AnswersKeptNext ==
  ASSUME TypeInv, SlotInv, ExchangeInv, AnswersKept, NEW adc \in Samples, Edge(adc),
         cell' = IF Carries("avg_request", recv[AvgPort])
                 THEN [addr |-> ram_raddr, value |-> ram[ram_raddr]] ELSE cell
  PROVE  AnswersKept'
<1>1. Net!Edge(SendPort) /\ Avg!AvgEdge(recv[AvgPort].data)
  BY DEF Edge
<1>2. ram_q' = ram[ram_raddr] BY <1>1 DEF Avg!AvgEdge, Avg!RamEdge
<1>3. /\ read_request' <=> Carries("avg_request", recv[AvgPort])
      /\ Carries("average", avg_send') <=> read_request
  BY <1>1, AvgSteps DEF Carries
<1>4. Answering => cell' = cell BY AnsweringPlaces
<1>5. read_request' => ram_q' = cell'.value BY <1>2, <1>3
<1>6. Carries("average", avg_send') => avg_send'.data.value = cell'.value
  <2> SUFFICES ASSUME Carries("average", avg_send') PROVE avg_send'.data.value = cell'.value
    OBVIOUS
  <2>1. read_request /\ cell' = cell BY <1>3, <1>4 DEF Answering
  <2>2. Avg!AnswerRequest(recv[AvgPort].data)
    <3>1. avg_send'.data.kind = "average" BY DEF Carries
    <3>2. ~ Avg!AnnounceAverage(recv[AvgPort].data) BY <3>1 DEF Avg!AnnounceAverage
    <3>3. ~ Avg!SendNothing(recv[AvgPort].data) BY <2>1 DEF Avg!SendNothing
    <3> QED BY <1>1, <3>2, <3>3 DEF Avg!AvgEdge
  <2>3. avg_send'.data.value = ram_q BY <2>2 DEF Avg!AnswerRequest
  <2> QED BY <2>1, <2>3 DEF AnswersKept
<1> DEFINE Good == {w \in Averages : w.value = cell'.value}
<1>7. fifo[AvgPort] \in Seq(Sent(AvgPort)) BY PortsInNetwork DEF TypeInv, QueuesOK
<1>8. \A i \in DOMAIN fifo[AvgPort] : Carries("average", fifo[AvgPort][i])
                                        => fifo[AvgPort][i].data \in Good
  <2> SUFFICES ASSUME NEW i \in DOMAIN fifo[AvgPort], Carries("average", fifo[AvgPort][i])
               PROVE  fifo[AvgPort][i].data \in Good
    OBVIOUS
  <2>1. fifo[AvgPort][i].data \in Averages
    <3>1. fifo[AvgPort][i] \in Sent(AvgPort) BY <1>7
    <3>2. fifo[AvgPort][i] \in [addr : {CorPort}, data : Announces \cup Averages]
      BY <3>1, PortsInNetwork DEF Sent
    <3> QED BY <3>2, SentKinds DEF Carries
  <2>2. cell' = cell BY <1>4 DEF Answering, NoneOf
  <2> QED BY <2>1, <2>2 DEF AnswersKept
<1>9. SendPort[AvgPort].data.kind = "average" => SendPort[AvgPort].data \in Good
  <2> SUFFICES ASSUME SendPort[AvgPort].data.kind = "average" PROVE SendPort[AvgPort].data \in Good
    OBVIOUS
  <2>1. SendPort[AvgPort].data = avg_send.data BY Driven, PortsInNetwork DEF TypeInv
  <2>2. Carries("average", avg_send) BY <2>1 DEF Carries
  <2>3. avg_send.data \in Averages
    BY <2>2, SentKinds, KindsOfWords DEF TypeInv, SendsOK, Silent, Carries
  <2>4. cell' = cell BY <2>2, <1>4 DEF Answering
  <2> QED BY <2>1, <2>2, <2>3, <2>4 DEF AnswersKept
<1> HIDE DEF Good
<1>10. /\ \A i \in DOMAIN fifo'[AvgPort] : Carries("average", fifo'[AvgPort][i])
                                             => fifo'[AvgPort][i].data \in Good
       /\ Carries("average", recv'[CorPort]) => recv'[CorPort].data \in Good
  BY <1>1, <1>8, <1>9, SendersOfExchange, PortsInNetwork, Travels
<1>11. \A w \in Good : w.value = cell'.value BY DEF Good
<1>12. /\ \A i \in DOMAIN fifo'[AvgPort] : Carries("average", fifo'[AvgPort][i])
                                             => fifo'[AvgPort][i].data.value = cell'.value
       /\ Carries("average", recv'[CorPort]) => recv'[CorPort].data.value = cell'.value
  BY <1>10, <1>11
<1> QED BY <1>5, <1>6, <1>12 DEF AnswersKept, Carries, AvgPort, CorPort, Port

LEMMA FetchingNext ==
  ASSUME TypeInv, SlotInv, ExchangeInv, RequestsKept, Fetching, NEW adc \in Samples, Edge(adc),
         cell' = IF Carries("avg_request", recv[AvgPort])
                 THEN [addr |-> ram_raddr, value |-> ram[ram_raddr]] ELSE cell
  PROVE  Fetching'
<1> DEFINE word == recv[CorPort].data
           asked == Carries("avg_request", recv[AvgPort])
<1>0. cell' = IF asked THEN [addr |-> ram_raddr, value |-> ram[ram_raddr]] ELSE cell
  OBVIOUS
<1>1. Cor!CorEdge(word) /\ Avg!AvgEdge(recv[AvgPort].data)
  BY DEF Edge
<1>2. Answering' <=> asked \/ (Answering /\ ~ Carries("average", recv[CorPort]))
  BY AnsweringStep
<1>3. /\ Answering => has_send_avg_data_rq /\ ~ asked
      /\ asked => has_send_avg_data_rq
  BY AnsweringPlaces
<1>4. ram_raddr' = IF asked THEN avg_data_mem_addr ELSE ram_raddr
  BY <1>1 DEF Avg!AvgEdge, Avg!LatchRequest, Avg!IsRequest, RequestsKept, Carries
<1>5. ReadAddr' = IF Answering' THEN cell'.addr ELSE ram_raddr'
  BY DEF ReadAddr
<1>6. Cor!Machine(word) BY <1>1 DEF Cor!CorEdge
<1>7. CorNumbers /\ CorOrder BY DEF TypeInv, ExchangeInv
<1>8. /\ Cor!Got(word) <=> Carries("average", recv[CorPort])
      /\ Carries("average", recv[CorPort]) => Answering /\ has_send_avg_data_rq /\ state # "S2"
  BY Awaited DEF Answering
<1>9. Answering' => ram_raddr' = avg_data_mem_addr'
  <2> SUFFICES ASSUME Answering' PROVE ram_raddr' = avg_data_mem_addr'
    OBVIOUS
  <2>1. avg_data_mem_addr' = avg_data_mem_addr BY <1>1, <1>2, <1>3, AddressKept
  <2> QED BY <1>2, <1>4, <2>1 DEF Fetching
<1> HIDE DEF word, asked
<1>10. ASSUME Cor!Got(word)
       PROVE  /\ ~ Answering' /\ ReadAddr' = avg_data_mem_addr /\ ram_raddr' = avg_data_mem_addr
              /\ avg_data_mem_addr' = avg_data_mem_addr /\ ~ has_send_avg_data_rq'
  <2>1. ~ Answering' /\ ram_raddr' = avg_data_mem_addr
    BY <1>2, <1>3, <1>4, <1>8, <1>10 DEF Fetching
  <2>2. avg_data_mem_addr' = avg_data_mem_addr BY <1>1, <1>8, <1>10, AddressKept DEF word
  <2>3. ~ has_send_avg_data_rq' BY <1>1, <1>8, <1>10, CorSends DEF word
  <2> QED BY <1>5, <2>1, <2>2, <2>3
<1>11. ASSUME ~ Cor!Got(word) PROVE ReadAddr' = ReadAddr
  BY <1>2, <1>3, <1>4, <1>5, <1>8, <1>0, <1>11 DEF ReadAddr
<1>12. CASE Cor!Await(word)
  <2>1. ~ Cor!Got(word) /\ state # "S2" /\ state' = state /\ counter' = counter
        /\ current_corr_origin' = current_corr_origin
        /\ avg_data_mem_addr' = IF has_send_avg_data_rq THEN avg_data_mem_addr ELSE Cor!FetchAddr
    BY <1>12 DEF Cor!Await
  <2>2. ReadAddr' = ReadAddr BY <1>11, <2>1
  <2>3. CASE state = "S1"
    BY <1>9, <2>1, <2>2, <2>3 DEF Fetching, Cor!FetchAddr, Cor!AddrMinus
  <2>4. CASE state = "S3"
    BY <1>9, <2>1, <2>2, <2>4 DEF Fetching, Cor!FetchAddr, Cor!AddrMinus
  <2>5. CASE state \notin {"S1", "S3"}
    BY <1>9, <2>1, <2>5 DEF Fetching
  <2> QED BY <2>3, <2>4, <2>5
<1>13. CASE Cor!Discard(word)
  <2>1. state' = "S0" BY <1>13 DEF Cor!Discard
  <2> QED BY <1>9, <2>1 DEF Fetching
<1>14. CASE Cor!Start(word)
  <2>1. state' = "S1" /\ counter' = 0 /\ current_corr_origin' = avg_data_mem_addr /\ Cor!Got(word)
    BY <1>14 DEF Cor!Start
  <2>2. (avg_data_mem_addr + 0) % RamSize = avg_data_mem_addr
    <3>1. avg_data_mem_addr \in 0 .. RamSize - 1 /\ RamSize \in Nat \ {0}
      BY <1>7, AddressType DEF CorNumbers, Address
    <3> QED BY <3>1
  <2> QED BY <1>9, <1>10, <2>1, <2>2 DEF Fetching
<1>15. CASE Cor!Multiply(word)
  <2>1. state = "S1" /\ state' = "S2" /\ counter' = counter /\ Cor!Got(word)
        /\ current_corr_origin' = current_corr_origin
    BY <1>15 DEF Cor!Multiply
  <2>2. avg_data_mem_addr = Cor!AddrMinus(current_corr_origin, counter + 1)
    BY <1>8, <2>1 DEF Fetching
  <2> QED BY <1>9, <1>10, <2>1, <2>2 DEF Fetching, Cor!AddrMinus
<1>16. CASE Cor!CountPair(word)
  <2>1. state = "S2" /\ state' = "S3" /\ counter' = counter + 1
        /\ current_corr_origin' = current_corr_origin
    BY <1>16 DEF Cor!CountPair
  <2>2. ~ has_send_avg_data_rq /\ ~ send_avg_data_rq BY <1>7, <2>1 DEF CorOrder
  <2>3. ~ Answering' /\ ram_raddr' = ram_raddr
    BY <1>2, <1>3, <1>4, <2>2
  <2>4. ~ has_send_avg_data_rq'
    <3>1. ~ Cor!Wanted(word) /\ ~ Cor!Out(word) BY <2>1, <2>2 DEF Cor!Wanted, Cor!Out
    <3> QED BY <1>1, <3>1
        DEF Cor!CorEdge, Cor!Transmit, Cor!SendFirstHalf, Cor!SendSecondHalf, Cor!SendRequest,
            Cor!SendNothing
  <2> QED BY <1>5, <1>9, <2>1, <2>3, <2>4 DEF Fetching, Cor!AddrMinus
<1>17. CASE Cor!Accumulate(word)
  <2>1. state = "S3" /\ Cor!Got(word) /\ current_corr_origin' = current_corr_origin
        /\ (state' = "S0" \/ (state' = "S1" /\ counter' = counter))
    BY <1>17 DEF Cor!Accumulate
  <2>2. avg_data_mem_addr = (current_corr_origin + counter) % RamSize
    BY <1>8, <2>1 DEF Fetching
  <2> QED BY <1>9, <1>10, <2>1, <2>2 DEF Fetching
<1> QED BY <1>6, <1>12, <1>13, <1>14, <1>15, <1>16, <1>17 DEF Cor!Machine

LEMMA InitLate == HistoryInit => LateInv
<1> SUFFICES ASSUME HistoryInit PROVE LateInv
  OBVIOUS
<1>1. Init BY DEF HistoryInit
<1>2. read_request = FALSE BY <1>1, Zenon DEF Init, Avg!AvgInit
<1>3. state = "S0" /\ cor_send.data = NoWord /\ avg_send.data = NoWord
  BY <1>1 DEF Init, Avg!AvgInit, Cor!CorInit
<1>4. /\ fifo[AvgPort] = <<>> /\ fifo[CorPort] = <<>>
      /\ recv[AvgPort].data = NoWord /\ recv[CorPort].data = NoWord
  BY <1>1, PortsInNetwork DEF Init, Net!Init, Net!Silent
<1>5. ~ Answering BY <1>2, <1>3, <1>4, KindsOfWords DEF Answering, Carries, NoneOf
<1>6. RequestsKept BY <1>3, <1>4, KindsOfWords DEF RequestsKept, RequestAddr, Carries
<1>7. AnswersKept BY <1>2, <1>3, <1>4, KindsOfWords DEF AnswersKept, Carries
<1> QED BY <1>3, <1>5, <1>6, <1>7 DEF LateInv, Fetching

(* Every answer is the value that the cell asked for before held when the  *)
(* request came: the second factor of pair c is that of the origin plus c, *)
(* and the first factor of the next pair that of the origin less c, where  *)
(* the addresses fetched are the origin less c + 1 and the origin plus c   *)
(* (AvgAsp_RAM "Latch new read address", AverageDataRAM, CorAsp S1, S3).   *)
THEOREM AnswersAreLate == HistorySpec => []AnswerIsLate
<1>1. HistorySpec => Spec
  <2>1. HistoryInit => Init BY DEF HistoryInit
  <2>2. [HistoryNext]_pathVars => [Next]_vars
    BY DEF HistoryNext, pathVars
  <2> QED BY <2>1, <2>2, PTL DEF HistorySpec, Spec
<1>2. TypeInv /\ SlotInv /\ ExchangeInv /\ LateInv /\ [HistoryNext]_pathVars => LateInv'
  <2> SUFFICES ASSUME TypeInv, SlotInv, ExchangeInv, LateInv, [HistoryNext]_pathVars PROVE LateInv'
    OBVIOUS
  <2>1. CASE HistoryNext
    <3>1. PICK adc \in Samples : Edge(adc) BY <2>1 DEF HistoryNext, Next
    <3>2. cell' = IF Carries("avg_request", recv[AvgPort])
                  THEN [addr |-> ram_raddr, value |-> ram[ram_raddr]] ELSE cell
      BY <2>1 DEF HistoryNext
    <3> QED BY <3>1, <3>2, RequestsKeptNext, AnswersKeptNext, FetchingNext DEF LateInv
  <2>2. CASE UNCHANGED pathVars
    BY <2>2 DEF LateInv, RequestsKept, RequestAddr, AnswersKept, Fetching, ReadAddr, Answering,
                Carries, NoneOf, Cor!AddrMinus, pathVars, vars, netVars, Avg!avgVars,
                Avg!avgRamVars, Cor!corVars, AvgPort, CorPort, Port
  <2> QED BY <2>1, <2>2
<1>3. LateInv => AnswerIsLate
  BY DEF LateInv, AnswersKept, Fetching, ReadAddr, Answering, AnswerIsLate
<1> QED BY <1>1, <1>2, <1>3, InitLate, SlotsCorrect, ExchangeCorrect, PTL DEF HistorySpec
=============================================================================
