--------------------------- MODULE PeakPathProofs ---------------------------
(***************************************************************************)
(* The end of the signal path, for every set of results, widths of the     *)
(* counter and of the halves, depth of the queues, and gap between results *)
(* of at least two rounds of the slot counter.                             *)
(*                                                                         *)
(* What is proved of the network alone is used through `Proved'. That the  *)
(* halves are joined right is a matter of time: `Phase' follows a result   *)
(* from the correlation ASP to the peak detector, edge by edge.            *)
(***************************************************************************)
EXTENDS PeakPath, TLAPS, SequenceTheorems

(* The theorems of the network; no deadlines are asked of it here. *)
Proved == INSTANCE TdmaMinProofs WITH Idle <- NoWord, due <- [p \in Ports |-> <<>>]

----------------------------------------------------------------------------
(* The network of PeakPath is the one that the theorems are about. *)
LEMMA SameSets ==
  /\ Net!Bit = 0 .. 2 /\ Proved!Bit = 0 .. 2
  /\ Net!Terminal = [0 .. 2 -> BOOLEAN] /\ Proved!Terminal = [0 .. 2 -> BOOLEAN]
  /\ Proved!Packet = Net!Packet /\ Proved!Data = Net!Data
BY PortsAssumption
   DEF Net!Bit, Proved!Bit, Net!Terminal, Proved!Terminal, Net!Packet, Proved!Packet,
       Net!Address, Proved!Address, Net!Data, Proved!Data

LEMMA Assumptions ==
  /\ Stages \in Nat \ {0} /\ Ports \subseteq Proved!Terminal
  /\ Depth \in Nat \ {0} /\ NoWord \notin Words /\ Far \cap Proved!Terminal = {}
<1>1. \A w \in Words : w.kind \in {"peak", "correlation", "count_read"}
  BY DEF Words, Peaks, Halves
<1> QED BY <1>1, SameSets, PortsAssumption, WordAssumption, GapAssumption

LEMMA SameParts ==
  /\ Proved!TypeOK <=> Net!TypeOK
  /\ \A p : Proved!Ready(p) <=> Net!Ready(p)
  /\ \A p : Proved!Partner(p) = Net!Partner(p)
  /\ Proved!Push = Net!Push
  /\ \A slot, push : Proved!Pull(slot, push) = Net!Pull(slot, push)
BY SameSets
   DEF Proved!TypeOK, Net!TypeOK, Proved!Ready, Net!Ready, Proved!Empty, Net!Empty,
       Proved!Partner, Net!Partner,
       Proved!Xor, Net!Xor, Proved!Push, Net!Push, Proved!Pull, Net!Pull, Proved!Links, Net!Links,
       Proved!Stage, Net!Stage, Proved!Entering, Net!Entering, Proved!Input, Net!Input,
       Proved!SwitchX, Net!SwitchX, Proved!SwitchY, Net!SwitchY, Proved!Bit, Net!Bit,
       Proved!Terminal, Net!Terminal, Proved!Packet, Net!Packet, Proved!Data, Net!Data,
       Proved!Address, Net!Address

LEMMA SameEdge == ASSUME NEW send PROVE Net!Edge(send) <=> Proved!Edge(send)
BY SameSets
   DEF Proved!Edge, Net!Edge, Proved!Increment, Net!Increment, Proved!ScFifo, Net!ScFifo,
       Proved!WaitState, Net!WaitState,
       Proved!Ready, Net!Ready, Proved!Empty, Net!Empty, Proved!Partner, Net!Partner,
       Proved!Xor, Net!Xor, Proved!Push, Net!Push, Proved!Pull, Net!Pull, Proved!Links, Net!Links,
       Proved!Stage, Net!Stage, Proved!Entering, Net!Entering, Proved!Input, Net!Input,
       Proved!SwitchX, Net!SwitchX, Proved!SwitchY, Net!SwitchY, Proved!Bit, Net!Bit,
       Proved!Terminal, Net!Terminal

(* What an edge does to the queues and to what the ports receive. *)
LEMMA NetEdge ==
  ASSUME Net!TypeOK, NEW send, Net!Edge(send)
  PROVE  /\ count \in [0 .. 2 -> BOOLEAN]
         /\ count' = Net!Increment(count)
         /\ \A p \in Ports :
              fifo'[p] = Net!ScFifo(fifo[p], Net!Ready(p), send[p].data # NoWord, send[p])
         /\ \A q \in Ports :
              recv'[q].data = IF Net!Partner(q) \in Ports /\ Net!Ready(Net!Partner(q))
                              THEN Head(fifo[Net!Partner(q)]).data ELSE NoWord
<1>1. Proved!TypeOK
  BY SameParts
<1>2. ASSUME NEW q \in Ports
      PROVE  Net!Pull(count, Net!Push)[q] =
               IF Net!Partner(q) \in Ports /\ Net!Ready(Net!Partner(q))
               THEN Head(fifo[Net!Partner(q)]).data ELSE NoWord
  <2>1. Proved!Pull(count, Proved!Push)[q] =
          IF Proved!Partner(q) \in Ports /\ Proved!Ready(Proved!Partner(q))
          THEN Head(fifo[Proved!Partner(q)]).data ELSE NoWord
    BY <1>1, Assumptions, Proved!PullFromPartner, Zenon
  <2> QED BY <2>1, SameParts
<1> QED BY <1>2, SameSets DEF Net!Edge, Net!TypeOK

LEMMA NetTypeStep ==
  ASSUME Net!TypeOK, NEW send, Net!Edge(send),
         \A p \in Ports : send[p].data # NoWord => send[p] \in Net!Packet
  PROVE  Net!TypeOK'
<1>1. Proved!TypeOK /\ Proved!Edge(send)
      /\ \A p \in Ports : send[p].data # NoWord => send[p] \in Proved!Packet
  BY SameParts, SameEdge, SameSets
<1>2. Proved!TypeOK'
  BY <1>1, Assumptions, Proved!EdgeTypeOK, Zenon
<1>3. (Proved!TypeOK <=> Net!TypeOK)'
  BY SameParts, PTL
<1> QED BY <1>2, <1>3

LEMMA NetTypeInit == Net!Init => Net!TypeOK
<1>1. Proved!Init => Proved!TypeOK
  BY Assumptions, Proved!InitTypeOK, Zenon
<1>2. Net!Init => Proved!Init
  BY DEF Net!Init, Proved!Init, Net!Zero, Proved!Zero, Net!Silent, Proved!Silent, Net!Bit, Proved!Bit
<1> QED BY <1>1, <1>2, SameParts

----------------------------------------------------------------------------
(* Ports and slots are numbers below eight. *)
LEMMA SameNumbers == ASSUME NEW n PROVE Port(n) = Proved!ToUnsigned(n, 3)
BY PortsAssumption DEF Port, ToUnsigned, Proved!ToUnsigned

LEMMA Bits ==
  ASSUME NEW n \in 0 .. 7
  PROVE  /\ Port(n) \in [0 .. 2 -> BOOLEAN]
         /\ Port(n)[0] = (n % 2 = 1)
         /\ Port(n)[1] = ((n \div 2) % 2 = 1)
         /\ Port(n)[2] = ((n \div 4) % 2 = 1)
BY SameNumbers, SameSets, PortsAssumption, Assumptions, Proved!TerminalBits, Zenon

LEMMA SlotsDiffer == \A n \in 0 .. 7 : Port(n) = Port(7) => n = 7
<1>1. 7 \in 0 .. 7
  OBVIOUS
<1> QED BY <1>1, SameNumbers, PortsAssumption, Assumptions, Proved!TerminalsDiffer, Zenon

After(n) == IF n = 7 THEN 0 ELSE n + 1

LEMMA NextSlot ==
  ASSUME NEW n \in 0 .. 7
  PROVE  Net!Increment(Port(n)) = Port(After(n))
<1>1. After(n) \in 0 .. 7
  BY DEF After
<1>2. Proved!Increment(Port(n)) = Port(After(n))
  BY <1>1, SameNumbers, PortsAssumption, Assumptions, Proved!NextTerminal, Zenon DEF After
<1>3. Net!Increment(Port(n)) = Proved!Increment(Port(n))
  BY SameSets DEF Net!Increment, Proved!Increment
<1> QED BY <1>2, <1>3

(* The ports of the path, and the slots that join them. *)
LEMMA PathPorts ==
  /\ {CorPort, PdPort, NiosPort} \subseteq Ports
  /\ CorPort # PdPort /\ CorPort # NiosPort /\ PdPort # NiosPort
  /\ CorPort = Port(3) /\ PdPort = Port(4) /\ NiosPort = Port(7) /\ Net!Zero = Port(0)
<1>1. {CorPort, PdPort, NiosPort} \subseteq Ports
  BY PortsAssumption DEF CorPort, PdPort, NiosPort, Port
<1>2. /\ ~ CorPort[2] /\ CorPort[0] /\ CorPort[1]
      /\ PdPort[2] /\ ~ PdPort[0] /\ ~ PdPort[1]
      /\ NiosPort[2] /\ NiosPort[0] /\ NiosPort[1]
  BY Bits DEF CorPort, PdPort, NiosPort
<1>3. Net!Zero = Port(0)
  <2>1. Net!Zero \in [0 .. 2 -> BOOLEAN] /\ ~ Net!Zero[0] /\ ~ Net!Zero[1] /\ ~ Net!Zero[2]
    BY SameSets DEF Net!Zero
  <2>2. Port(0) \in [0 .. 2 -> BOOLEAN] /\ ~ Port(0)[0] /\ ~ Port(0)[1] /\ ~ Port(0)[2]
    BY Bits
  <2>3. \A k \in 0 .. 2 : k = 0 \/ k = 1 \/ k = 2
    OBVIOUS
  <2> QED BY <2>1, <2>2, <2>3
<1> QED BY <1>1, <1>2, <1>3 DEF CorPort, PdPort, NiosPort

(* Only slot 7 joins the correlation ASP and the peak detector. *)
LEMMA ResultSlot ==
  ASSUME count \in [0 .. 2 -> BOOLEAN]
  PROVE  /\ Net!Partner(PdPort) = CorPort <=> count = Port(7)
         /\ Net!Partner(CorPort) = PdPort <=> count = Port(7)
<1>1. /\ 3 \in 0 .. 7 /\ 4 \in 0 .. 7 /\ 7 \in 0 .. 7
      /\ (4 + 3 + 7) % 2 = 0 /\ (3 + 4 + 7) % 2 = 0
      /\ ((4 \div 2) + (3 \div 2) + (7 \div 2)) % 2 = 0
      /\ ((3 \div 2) + (4 \div 2) + (7 \div 2)) % 2 = 0
      /\ ((4 \div 4) + (3 \div 4) + (7 \div 4)) % 2 = 0
      /\ ((3 \div 4) + (4 \div 4) + (7 \div 4)) % 2 = 0
  OBVIOUS
<1>2. count \in Proved!Terminal
  BY SameSets
<1>3. Proved!Xor(Proved!ToUnsigned(4, 3), count) = Proved!ToUnsigned(3, 3)
        <=> count = Proved!ToUnsigned(7, 3)
  BY <1>1, <1>2, PortsAssumption, Assumptions, Proved!JoinedInSlot
<1>5. Proved!Xor(Proved!ToUnsigned(3, 3), count) = Proved!ToUnsigned(4, 3)
        <=> count = Proved!ToUnsigned(7, 3)
  BY <1>1, <1>2, PortsAssumption, Assumptions, Proved!JoinedInSlot
<1>4. \A a : Net!Xor(a, count) = Proved!Xor(a, count)
  BY SameSets DEF Net!Xor, Proved!Xor
<1> QED BY <1>3, <1>5, <1>4, SameNumbers DEF Net!Partner, CorPort, PdPort

----------------------------------------------------------------------------
(* What the ports drive, and so what their queues can hold. *)
Ack       == [addr |-> PdPort, data |-> [kind |-> "count_read"]]
Mixed     == {packet \in Net!Packet : packet.data.kind # "correlation"}
NiosSends ==
  {Silent, [addr |-> 4, data |-> NoWord], [addr |-> 4, data |-> [kind |-> "count_read"]]}

NumbersOK ==
  /\ {counter, counter_prev, maxCorr} \subseteq 0 .. CountModulus - 1
  /\ access \in {"read", "addr", "data"}
  /\ last_slope_pos \in BOOLEAN
  /\ {since, rest, correlation, incomplete_correlation_value} \subseteq Nat

SendsOK ==
  /\ pd_send = Silent \/ pd_send \in [addr : {7}, data : Peaks]
  /\ rest # 0 => correlation \in Results
  /\ cor_send = Silent \/ \E second \in BOOLEAN, value \in Results : cor_send = Half(second, value)
  /\ nios_send \in NiosSends /\ (access = "data" => nios_send.addr = 4)

QueuesOK ==
  /\ \A p \in Ports \ {CorPort} : fifo[p] \in Seq(Mixed)
  /\ fifo[NiosPort] \in Seq({Ack})

PathInv == Net!TypeOK /\ NumbersOK /\ SendsOK /\ QueuesOK

LEMMA KindsOfWords ==
  /\ NoWord.kind \notin {"peak", "correlation", "count_read"} /\ NoWord \notin Words
  /\ \A w \in Words : /\ w.kind = "peak" => w \in Peaks
                      /\ w.kind \in {"peak", "correlation", "count_read"}
  /\ \A w \in Peaks : w.kind = "peak" /\ w.count \in 0 .. CountModulus - 1
<1>1. \A w \in Peaks : w.kind = "peak" /\ w.count \in 0 .. CountModulus - 1
  BY DEF Peaks
<1>2. \A w \in Halves : w.kind = "correlation"
  BY DEF Halves
<1>3. [kind |-> "count_read"].kind = "count_read"
  OBVIOUS
<1> QED BY <1>1, <1>2, <1>3, WordAssumption DEF Words

(* A queue takes only what it is offered. *)
LEMMA QueueHolds ==
  ASSUME Net!TypeOK, NEW send, Net!Edge(send), NEW p \in Ports,
         NEW S, fifo[p] \in Seq(S), send[p].data # NoWord => send[p] \in S
  PROVE  fifo'[p] \in Seq(S)
<1>1. PICK kept : kept = IF Net!Ready(p) THEN Tail(fifo[p]) ELSE fifo[p]
  OBVIOUS
<1>2. kept \in Seq(S)
  BY <1>1 DEF Net!Ready, Net!Empty
<1>3. fifo'[p] = IF send[p].data # NoWord /\ Len(fifo[p]) < Depth
                 THEN Append(kept, send[p]) ELSE kept
  BY <1>1, NetEdge DEF Net!ScFifo
<1>4. send[p] \in S => Append(kept, send[p]) \in Seq(S)
  BY <1>2
<1> QED BY <1>2, <1>3, <1>4

LEMMA Driven ==
  ASSUME PathInv, NEW p \in Ports
  PROVE  /\ SendPort[p].data # NoWord => SendPort[p] \in Net!Packet
         /\ p # CorPort /\ SendPort[p].data # NoWord => SendPort[p] \in Mixed
         /\ p = NiosPort /\ SendPort[p].data # NoWord => SendPort[p] = Ack
         /\ p = CorPort => SendPort[p] = [addr |-> Port(cor_send.addr), data |-> cor_send.data]
<1>1. SendPort[p] = [addr |-> Port(SendSignal(p).addr), data |-> SendSignal(p).data]
  BY DEF SendPort
<1>2. Port(4) \in Net!Address /\ Port(7) \in Net!Address
  BY Bits, SameSets DEF Net!Address
<1>3. CASE p = CorPort
  <2>1. SendSignal(p) = cor_send
    BY <1>3, PathPorts DEF SendSignal
  <2>2. cor_send = Silent \/ (cor_send.addr = 4 /\ cor_send.data \in Halves)
    BY DEF PathInv, SendsOK, Half, Halves
  <2>3. cor_send = Silent => cor_send.data = NoWord
    BY DEF Silent
  <2> QED BY <1>1, <1>2, <1>3, <2>1, <2>2, <2>3, PathPorts DEF Words, Net!Packet
<1>4. CASE p = PdPort
  <2>1. SendSignal(p) = pd_send
    BY <1>4, PathPorts DEF SendSignal
  <2>2. pd_send = Silent \/ (pd_send.addr = 7 /\ pd_send.data \in Peaks)
    BY DEF PathInv, SendsOK
  <2>3. pd_send = Silent => pd_send.data = NoWord
    BY DEF Silent
  <2>4. pd_send.data \in Peaks => pd_send.data \in Words /\ pd_send.data.kind # "correlation"
    BY KindsOfWords DEF Words
  <2> QED BY <1>1, <1>2, <1>4, <2>1, <2>2, <2>3, <2>4, PathPorts DEF Mixed, Net!Packet
<1>5. CASE p = NiosPort
  <2>1. SendSignal(p) = nios_send
    BY <1>5, PathPorts DEF SendSignal
  <2>2. nios_send.data = NoWord \/ (nios_send.addr = 4 /\ nios_send.data = [kind |-> "count_read"])
    BY DEF PathInv, SendsOK, NiosSends, Silent
  <2>3. Ack \in Mixed
    BY <1>2, PathPorts DEF Ack, Mixed, Net!Packet, Words
  <2>4. nios_send.data # NoWord => SendPort[p] = Ack
    BY <1>1, <2>1, <2>2, PathPorts DEF Ack
  <2> QED BY <1>1, <1>5, <2>1, <2>3, <2>4, PathPorts DEF Mixed
<1>6. CASE p \notin {CorPort, PdPort, NiosPort}
  <2>1. SendSignal(p) = Silent
    BY <1>6 DEF SendSignal
  <2> QED BY <1>1, <1>6, <2>1 DEF Silent
<1> QED BY <1>3, <1>4, <1>5, <1>6

LEMMA PathInit == Init => PathInv
<1> SUFFICES ASSUME Init PROVE PathInv
  OBVIOUS
<1> USE DEF Init
<1>1. Net!TypeOK
  BY NetTypeInit
<1>2. NumbersOK
  <2>1. last_slope_pos \in BOOLEAN
    BY Zenon DEF Pd!PdInit
  <2>2. 0 \in 0 .. CountModulus - 1
    BY WordAssumption
  <2> QED BY <2>1, <2>2 DEF NumbersOK, Pd!PdInit, Cpu!NiosInit
<1>3. SendsOK
  BY DEF SendsOK, Pd!PdInit, Cpu!NiosInit, Silent, NiosSends
<1>4. QueuesOK
  BY PathPorts DEF QueuesOK, Net!Init
<1> QED BY <1>1, <1>2, <1>3, <1>4 DEF PathInv

LEMMA PdNumbers ==
  ASSUME PathInv, NEW word, Pd!PdEdge(word)
  PROVE  /\ {counter', counter_prev'} \subseteq 0 .. CountModulus - 1
         /\ last_slope_pos' \in BOOLEAN
         /\ pd_send' = Silent \/ pd_send' \in [addr : {7}, data : Peaks]
<1>1. counter \in 0 .. CountModulus - 1 /\ counter_prev \in 0 .. CountModulus - 1
      /\ last_slope_pos \in BOOLEAN /\ CountModulus \in Nat \ {0}
  BY WordAssumption DEF PathInv, NumbersOK
<1>2. counter' \in 0 .. CountModulus - 1 /\ counter_prev' \in 0 .. CountModulus - 1
      /\ last_slope_pos' \in BOOLEAN
  <2>1. CASE Pd!Continue(word)
    BY <1>1, <2>1 DEF Pd!Continue, Pd!Count
  <2>2. CASE Pd!Peak(word)
    <3>1. last_slope_pos' \in BOOLEAN BY <2>2, Zenon DEF Pd!Peak
    <3> QED BY <1>1, <2>2, <3>1 DEF Pd!Peak, Pd!AfterPeak
  <2>3. CASE Pd!Trough(word)
    <3>1. last_slope_pos' \in BOOLEAN BY <2>3, Zenon DEF Pd!Trough
    <3> QED BY <1>1, <2>3, <3>1 DEF Pd!Trough
  <2>4. CASE Pd!NoResult(word)
    BY <1>1, <2>4 DEF Pd!NoResult
  <2> QED BY <2>1, <2>2, <2>3, <2>4 DEF Pd!PdEdge
<1>3. pd_send' = Silent \/ pd_send' \in [addr : {7}, data : Peaks]
  BY <1>1 DEF Pd!PdEdge, Pd!Transmit, Pd!PeakPacket, Pd!NiosAddr, Silent, Peaks
<1> QED BY <1>2, <1>3

LEMMA NiosNumbers ==
  ASSUME PathInv, Cpu!NiosEdge(recv[NiosPort].data)
  PROVE  /\ maxCorr' \in 0 .. CountModulus - 1
         /\ access' \in {"read", "addr", "data"}
         /\ nios_send' \in NiosSends /\ (access' = "data" => nios_send'.addr = 4)
<1> DEFINE word == recv[NiosPort].data
<1>1. word.kind = "peak" => word.count \in 0 .. CountModulus - 1
  <2>1. word \in Words \cup {NoWord}
    BY PathPorts DEF PathInv, Net!TypeOK, Net!Data
  <2> QED BY <2>1, KindsOfWords
<1>2. /\ maxCorr \in 0 .. CountModulus - 1 /\ access \in {"read", "addr", "data"}
      /\ nios_send \in NiosSends /\ (access = "data" => nios_send.addr = 4)
  BY DEF PathInv, NumbersOK, SendsOK
<1> HIDE DEF word
<1>3. CASE Cpu!NiosRead(word)
  BY <1>1, <1>2, <1>3 DEF Cpu!NiosRead
<1>4. CASE Cpu!NiosWriteAddr
  BY <1>2, <1>4 DEF Cpu!NiosWriteAddr, NiosSends, Silent, Cpu!PdAddr
<1>5. CASE Cpu!NiosWriteData
  BY <1>2, <1>5 DEF Cpu!NiosWriteData, NiosSends, Silent
<1>6. CASE Cpu!NiosReset
  BY <1>2, <1>6, WordAssumption DEF Cpu!NiosReset, NiosSends, Silent
<1>7. CASE Cpu!NoAccess
  BY <1>2, <1>7 DEF Cpu!NoAccess, Cpu!niosVars
<1> QED BY <1>3, <1>4, <1>5, <1>6, <1>7 DEF Cpu!NiosEdge, word

(* Joining numbers of any width, in halves. *)
LEMMA Parts ==
  ASSUME NEW a \in Nat
  PROVE  /\ a % HalfSize \in 0 .. HalfSize - 1 /\ a - (a % HalfSize) \in Nat
         /\ (a - (a % HalfSize)) + (a % HalfSize) = a
         /\ \A r \in 0 .. HalfSize - 1 : ((a - (a % HalfSize)) + r) % HalfSize = r
<1>1. PICK q \in Nat, l \in 0 .. HalfSize - 1 : a = HalfSize * q + l /\ l = a % HalfSize
  <2>1. a \div HalfSize \in Nat /\ a % HalfSize \in 0 .. HalfSize - 1
        /\ a = HalfSize * (a \div HalfSize) + (a % HalfSize)
    BY WordAssumption
  <2> QED BY <2>1
<1>2. HalfSize * q \in Nat
  BY WordAssumption
<1>3. \A r \in 0 .. HalfSize - 1 : (HalfSize * q + r) % HalfSize = r
  BY WordAssumption
<1>4. a - (a % HalfSize) = HalfSize * q
  BY <1>1, <1>2, WordAssumption
<1> QED BY <1>1, <1>2, <1>3, <1>4, WordAssumption

LEMMA Joins ==
  ASSUME NEW a \in Nat, NEW b \in Nat
  PROVE  /\ Pd!Join(a, b) \in Nat
         /\ Pd!Join(a, b) - (Pd!Join(a, b) % HalfSize) = a - (a % HalfSize)
         /\ a - (a % HalfSize) = b - (b % HalfSize) => Pd!Join(a, b) = b
<1>1. /\ a % HalfSize \in Nat /\ b % HalfSize \in 0 .. HalfSize - 1 /\ a - (a % HalfSize) \in Nat
      /\ ((a - (a % HalfSize)) + (b % HalfSize)) % HalfSize = b % HalfSize
      /\ (b - (b % HalfSize)) + (b % HalfSize) = b
  <2>1. /\ a % HalfSize \in 0 .. HalfSize - 1 /\ a - (a % HalfSize) \in Nat
        /\ \A r \in 0 .. HalfSize - 1 : ((a - (a % HalfSize)) + r) % HalfSize = r
    BY Parts
  <2>2. b % HalfSize \in 0 .. HalfSize - 1 /\ (b - (b % HalfSize)) + (b % HalfSize) = b
    BY Parts
  <2> QED BY <2>1, <2>2, WordAssumption
<1> QED BY <1>1, WordAssumption DEF Pd!Join

LEMMA PathStep == PathInv /\ [Edge]_vars => PathInv'
<1> SUFFICES ASSUME PathInv, [Edge]_vars PROVE PathInv'
  OBVIOUS
<1>1. CASE UNCHANGED vars
  BY <1>1 DEF vars, netVars, corVars, Pd!pdVars, Cpu!niosVars, PathInv, NumbersOK, SendsOK,
              QueuesOK, Net!TypeOK
<1>2. CASE Edge
  <2>1. Pd!PdEdge(recv[PdPort].data) /\ Cpu!NiosEdge(recv[NiosPort].data) /\ Net!Edge(SendPort)
    BY <1>2 DEF Edge
  <2>2. Net!TypeOK'
    <3>1. \A p \in Ports : SendPort[p].data # NoWord => SendPort[p] \in Net!Packet
      BY Driven
    <3> QED BY <2>1, <3>1, NetTypeStep DEF PathInv
  <2>3. QueuesOK'
    <3>1. ASSUME NEW p \in Ports \ {CorPort} PROVE fifo'[p] \in Seq(Mixed)
      BY <2>1, Driven, QueueHolds DEF PathInv, QueuesOK
    <3>2. fifo'[NiosPort] \in Seq({Ack})
      BY <2>1, Driven, QueueHolds, PathPorts DEF PathInv, QueuesOK
    <3> QED BY <3>1, <3>2 DEF QueuesOK
  <2>4. /\ {since', rest', correlation'} \subseteq Nat
        /\ rest' # 0 => correlation' \in Results
        /\ cor_send' = Silent \/ \E second \in BOOLEAN, value \in Results : cor_send' = Half(second, value)
    <3>1. since \in Nat /\ rest \in Nat /\ correlation \in Nat
          /\ (rest # 0 => correlation \in Results)
      BY DEF PathInv, NumbersOK, SendsOK
    <3>2. since' \in Nat
      BY <1>2, <3>1 DEF Edge
    <3>3. CASE SendFirstHalf
      <4>1. /\ correlation' \in Results /\ correlation' \in Nat /\ rest' \in Nat
            /\ cor_send' = Half(FALSE, correlation')
        BY <3>3, WordAssumption, GapAssumption DEF SendFirstHalf
      <4> QED BY <3>2, <4>1
    <3>4. CASE SendSecondHalf
      <4>1. rest # 0 /\ rest' \in Nat
        BY <3>1, <3>4, GapAssumption DEF SendSecondHalf
      <4> QED BY <3>1, <3>2, <3>4, <4>1 DEF SendSecondHalf
    <3>5. CASE SendNothing
      BY <3>1, <3>2, <3>5 DEF SendNothing
    <3> QED BY <1>2, <3>3, <3>4, <3>5 DEF Edge
  <2>5. incomplete_correlation_value' \in Nat
    <3> DEFINE word == recv[PdPort].data
    <3>1. incomplete_correlation_value \in Nat
      BY DEF PathInv, NumbersOK
    <3>2. Pd!IsHalf(word) => word.value \in Nat
      <4>1. word \in Words \cup {NoWord}
        BY PathPorts DEF PathInv, Net!TypeOK, Net!Data
      <4>2. word.kind = "correlation" => word \in Halves
        <5>1. \A w \in Words : w.kind = "correlation" => w \in Halves
          BY DEF Words, Peaks
        <5> QED BY <4>1, <5>1, KindsOfWords
      <4> QED BY <4>2, WordAssumption DEF Halves, Pd!IsHalf
    <3> QED BY <2>1, <3>1, <3>2, Joins DEF Pd!PdEdge, Pd!Receive
  <2>6. NumbersOK'
    BY <2>1, <2>4, <2>5, PdNumbers, NiosNumbers DEF NumbersOK
  <2>7. SendsOK'
    BY <2>1, <2>4, PdNumbers, NiosNumbers DEF SendsOK
  <2> QED BY <2>2, <2>3, <2>6, <2>7 DEF PathInv
<1> QED BY <1>1, <1>2

THEOREM PathInvariant == Spec => []PathInv
BY PathInit, PathStep, PTL DEF Spec

(* Every queue and register of the path holds what it is made for.         *)
THEOREM PathTypeCorrect == Spec => []TypeOK
<1>1. PathInv => TypeOK
  BY DEF PathInv, NumbersOK, TypeOK
<1> QED BY <1>1, PathInvariant, PTL

(* The Nios sends nothing but whole acknowledgements to the peak detector, *)
(* although it writes the two send registers at different clocks.          *)
THEOREM NiosOnlyAcknowledges == Spec => []NiosAcknowledges
<1>1. PathInv => NiosAcknowledges
  BY DEF PathInv, QueuesOK, NiosAcknowledges, Ack
<1> QED BY <1>1, PathInvariant, PTL

----------------------------------------------------------------------------
(* The counter and the results since the last peak. *)
Counted ==
  IF last_slope_pos THEN (counter + 1) % CountModulus = since % CountModulus
                    ELSE counter = since % CountModulus

LEMMA NextRemainder ==
  ASSUME NEW m \in Nat \ {0}, NEW n \in Nat
  PROVE  ((n % m) + 1) % m = (n + 1) % m
<1>1. PICK q \in Nat, r \in 0 .. m - 1 : n = m * q + r /\ r = n % m
  <2>1. n \div m \in Nat /\ n % m \in 0 .. m - 1 /\ n = m * (n \div m) + (n % m)
    OBVIOUS
  <2> QED BY <2>1
<1>2. \A p \in Nat, s \in 0 .. m - 1 : (m * p + s) % m = s
  OBVIOUS
<1>3. m * q \in Nat /\ m * (q + 1) = m * q + m
  OBVIOUS
<1>4. CASE r = m - 1
  <2>1. n + 1 = m * (q + 1) + 0 /\ r + 1 = m * 1 + 0
    <3>1. m * 1 = m OBVIOUS
    <3>2. PICK z \in Nat : z = m * q BY <1>3
    <3>3. n = z + r /\ m * (q + 1) = z + m BY <1>1, <1>3, <3>2
    <3> QED BY <1>4, <3>1, <3>2, <3>3
  <2>2. (m * (q + 1) + 0) % m = 0 /\ (m * 1 + 0) % m = 0
    BY <1>2
  <2> QED BY <1>1, <2>1, <2>2
<1>5. CASE r # m - 1
  <2>1. n + 1 = m * q + (r + 1) /\ r + 1 = m * 0 + (r + 1) /\ r + 1 \in 0 .. m - 1
    BY <1>1, <1>3, <1>5
  <2>2. (m * q + (r + 1)) % m = r + 1 /\ (m * 0 + (r + 1)) % m = r + 1
    BY <1>2, <2>1
  <2> QED BY <1>1, <2>1, <2>2
<1> QED BY <1>4, <1>5

LEMMA CountedStep ==
  ASSUME PathInv, Counted, Edge
  PROVE  Counted' /\ (Detects => (counter_prev' + 1) % CountModulus = since % CountModulus)
<1> DEFINE word == recv[PdPort].data
           M == CountModulus
<1>1. since \in Nat /\ counter \in 0 .. M - 1 /\ M \in Nat \ {0} /\ last_slope_pos \in BOOLEAN
  BY WordAssumption DEF PathInv, NumbersOK
<1>2. /\ Pd!Continue(word) \/ Pd!Peak(word) \/ Pd!Trough(word) \/ Pd!NoResult(word)
      /\ since' = IF Detects THEN 0 ELSE IF Pd!Ready(word) THEN since + 1 ELSE since
  BY DEF Edge, Pd!PdEdge
<1>3. (((counter + 1) % M) + 1) % M = ((counter + 1) + 1) % M
  <2>1. counter + 1 \in Nat BY <1>1
  <2> HIDE DEF M
  <2> QED BY <1>1, <2>1, NextRemainder
<1>4. ((since % M) + 1) % M = (since + 1) % M /\ 0 % M = 0
  <2> HIDE DEF M
  <2>1. ((since % M) + 1) % M = (since + 1) % M BY <1>1, NextRemainder
  <2> QED BY <1>1, <2>1
<1>5. CASE Pd!Continue(word)
  <2>1. /\ last_slope_pos' = last_slope_pos /\ counter' = (counter + 1) % M /\ ~ Detects
        /\ since' = since + 1
    BY <1>1, <1>2, <1>5 DEF Pd!Continue, Pd!Count, Detects
  <2> QED BY <1>1, <1>3, <1>4, <2>1 DEF Counted
<1>6. CASE Pd!Peak(word)
  <2>1. /\ Detects /\ last_slope_pos /\ last_slope_pos' = FALSE /\ counter_prev' = counter
        /\ counter' = 0 /\ since' = 0
    BY <1>2, <1>6 DEF Pd!Peak, Pd!AfterPeak, Detects
  <2> QED BY <1>4, <2>1 DEF Counted
<1>7. CASE Pd!Trough(word)
  <2>1. /\ ~ Detects /\ ~ last_slope_pos /\ last_slope_pos' = TRUE /\ counter' = counter
        /\ since' = since + 1
    BY <1>2, <1>7 DEF Pd!Trough, Detects
  <2> QED BY <1>4, <2>1 DEF Counted
<1>8. CASE Pd!NoResult(word)
  <2>1. ~ Detects /\ last_slope_pos' = last_slope_pos /\ counter' = counter /\ since' = since
    BY <1>2, <1>8 DEF Pd!NoResult, Detects
  <2> QED BY <2>1 DEF Counted
<1> QED BY <1>2, <1>5, <1>6, <1>7, <1>8

(* The count that a peak is sent with is that of the results since the     *)
(* peak before, less the two at which the slope changes, for ever and for  *)
(* any width of the counter (PdAsp counter, counter_prev).                 *)
THEOREM CountsAreDistances == Spec => CountIsDistance
<1>1. Init => Counted
  <2>1. Init => counter = 0 /\ since = 0 /\ last_slope_pos = FALSE
    BY DEF Init, Pd!PdInit
  <2>2. 0 % CountModulus = 0
    BY WordAssumption
  <2> QED BY <2>1, <2>2 DEF Counted
<1>2. PathInv /\ Counted /\ [Edge]_vars => Counted'
  <2>1. UNCHANGED vars => (Counted => Counted')
    BY DEF vars, Pd!pdVars, Counted
  <2> QED BY <2>1, CountedStep
<1>3. PathInv /\ Counted /\ [Edge]_vars
        => [Detects => (counter_prev' + 1) % CountModulus = since % CountModulus]_vars
  BY CountedStep
<1> QED BY <1>1, <1>2, <1>3, PathInvariant, PTL DEF Spec, CountIsDistance

----------------------------------------------------------------------------
(* The way of a result, from the edge at which the correlation ASP drives  *)
(* its first half to the one at which the peak detector has both: the slot *)
(* and the edges to the next result, what is driven, queued and arriving.  *)
Queued(second)  == [addr |-> PdPort, data |-> Half(second, correlation).data]
Queue           == fifo[CorPort]
Shown           == ~ wait_state[CorPort]
Arriving        == recv[PdPort].data
NoneArriving    == Arriving.kind # "correlation"
At(slot, edges) == count = Port(slot) /\ rest = MinGap - edges
UpperReceived ==
  incomplete_correlation_value - (incomplete_correlation_value % HalfSize)
    = correlation - (correlation % HalfSize)

Quiet == cor_send = Silent /\ Queue = <<>> /\ NoneArriving /\ rest <= MinGap - 14
FirstDriven ==
  At(4, 1) /\ cor_send = Half(FALSE, correlation) /\ Queue = <<>> /\ NoneArriving
SecondDriven ==
  /\ At(5, 2) /\ cor_send = Half(TRUE, correlation)
  /\ Queue = <<Queued(FALSE)>> /\ NoneArriving
BothQueued ==
  /\ At(6, 3) \/ At(7, 4)
  /\ cor_send = Silent /\ Queue = <<Queued(FALSE), Queued(TRUE)>> /\ NoneArriving
FirstArrives ==
  /\ At(0, 5)
  /\ cor_send = Silent /\ Queue = <<Queued(TRUE)>> /\ Arriving = Half(FALSE, correlation).data
SecondQueued ==
  /\ \E slot \in 1 .. 7 : At(slot, slot + 5)
  /\ cor_send = Silent /\ Queue = <<Queued(TRUE)>> /\ Shown /\ NoneArriving /\ UpperReceived
SecondArrives ==
  /\ At(0, 13)
  /\ cor_send = Silent /\ Queue = <<>> /\ Arriving = Half(TRUE, correlation).data
  /\ UpperReceived

Phase == \/ Quiet \/ FirstDriven \/ SecondDriven \/ BothQueued
         \/ FirstArrives \/ SecondQueued \/ SecondArrives

(* The half that the queue does not show at once has waited for its slot   *)
(* since then.                                                             *)
LEMMA ShownInSlot ==
  ASSUME PathInv, Phase, count = Port(7), Queue # <<>>
  PROVE  Shown
<1>1. wait_state[CorPort] => Len(Queue) = 1
  BY PathPorts DEF PathInv, Net!TypeOK, Queue
<1>2. CASE BothQueued
  <2>1. Len(Queue) = 2
    BY <1>2 DEF BothQueued
  <2> QED BY <1>1, <2>1 DEF Shown
<1>3. \A n \in {0, 4, 5} : count # Port(n)
  <2>1. {0, 4, 5} \subseteq 0 .. 7
    OBVIOUS
  <2> QED BY <2>1, SlotsDiffer
<1> QED BY <1>2, <1>3 DEF Phase, Quiet, FirstDriven, SecondDriven, FirstArrives, SecondQueued,
                          SecondArrives, At

(* What an edge does to the queue of the correlation ASP and to what the   *)
(* peak detector receives.                                                 *)
LEMMA PathEdge ==
  ASSUME PathInv, Phase, Edge,
         Queue # <<>> => Head(Queue).addr = PdPort
  PROVE  LET leaves == count = Port(7) /\ Queue # <<>>
             kept   == IF leaves THEN Tail(Queue) ELSE Queue
             driven == [addr |-> Port(cor_send.addr), data |-> cor_send.data]
         IN  /\ Queue' = IF cor_send.data # NoWord /\ Len(Queue) < Depth
                         THEN Append(kept, driven) ELSE kept
             /\ cor_send.data = NoWord => Shown'
             /\ IF leaves THEN Arriving' = Head(Queue).data ELSE NoneArriving'
<1>1. Net!TypeOK /\ Net!Edge(SendPort)
  BY DEF PathInv, Edge
<1>2. {CorPort, PdPort} \subseteq Ports /\ CorPort # PdPort
  BY PathPorts
<1>3. /\ count \in [0 .. 2 -> BOOLEAN]
      /\ Queue' = Net!ScFifo(Queue, Net!Ready(CorPort), SendPort[CorPort].data # NoWord, SendPort[CorPort])
      /\ Arriving' = IF Net!Partner(PdPort) \in Ports /\ Net!Ready(Net!Partner(PdPort))
                     THEN Head(fifo[Net!Partner(PdPort)]).data ELSE NoWord
  BY <1>1, <1>2, NetEdge DEF Queue, Arriving
<1>4. SendPort[CorPort] = [addr |-> Port(cor_send.addr), data |-> cor_send.data]
  BY <1>2, Driven
<1>5. Net!Ready(CorPort) <=> count = Port(7) /\ Queue # <<>>
  BY <1>3, ResultSlot, ShownInSlot DEF Net!Ready, Net!Empty, Queue, Shown
<1>6. cor_send.data = NoWord => Shown'
  <2>1. wait_state'[CorPort] => SendPort[CorPort].data # NoWord
    BY <1>1, <1>2 DEF Net!Edge, Net!WaitState
  <2>2. Shown' <=> ~ wait_state'[CorPort]
    BY DEF Shown, CorPort, Port
  <2> QED BY <1>4, <2>1, <2>2
<1>7. Net!Partner(PdPort) = CorPort <=> count = Port(7)
  BY <1>3, ResultSlot
<1>8. CASE count = Port(7)
  <2>1. Arriving' = IF Queue # <<>> THEN Head(Queue).data ELSE NoWord
    BY <1>2, <1>3, <1>5, <1>7, <1>8 DEF Queue
  <2> QED BY <1>3, <1>4, <1>5, <1>6, <1>8, <2>1, KindsOfWords DEF Net!ScFifo, NoneArriving
<1>9. CASE count # Port(7)
  <2>1. NoneArriving'
    <3>1. CASE Net!Partner(PdPort) \in Ports /\ Net!Ready(Net!Partner(PdPort))
      <4>1. PICK p \in Ports \ {CorPort} : p = Net!Partner(PdPort)
        BY <1>7, <1>9, <3>1
      <4>2. fifo[p] # <<>> /\ fifo[p] \in Seq(Mixed)
        BY <3>1, <4>1 DEF Net!Ready, Net!Empty, PathInv, QueuesOK
      <4>3. Head(fifo[p]) \in Mixed
        BY <4>2
      <4> QED BY <1>3, <3>1, <4>1, <4>3 DEF Mixed, NoneArriving
    <3>2. CASE ~ (Net!Partner(PdPort) \in Ports /\ Net!Ready(Net!Partner(PdPort)))
      BY <1>3, <3>2, KindsOfWords DEF NoneArriving
    <3> QED BY <3>1, <3>2
  <2> QED BY <1>3, <1>4, <1>5, <1>6, <1>9, <2>1 DEF Net!ScFifo
<1> QED BY <1>8, <1>9

LEMMA HalfDriven ==
  ASSUME NEW second \in BOOLEAN
  PROVE  /\ Half(second, correlation).data # NoWord
         /\ Half(second, correlation).addr = 4
         /\ [addr |-> Port(Half(second, correlation).addr), data |-> Half(second, correlation).data]
              = Queued(second)
         /\ Queued(second).addr = PdPort /\ Queued(second).data = Half(second, correlation).data
         /\ Half(second, correlation).data.kind = "correlation"
         /\ Half(second, correlation).data.second = second
         /\ Half(second, correlation).data.value = correlation
<1>1. Half(second, correlation).data.kind = "correlation"
  BY DEF Half
<1> QED BY <1>1, KindsOfWords, PathPorts DEF Half, Queued

LEMMA QueuedForDetector == Queued(FALSE).addr = PdPort /\ Queued(TRUE).addr = PdPort
BY DEF Queued

(* The queue with one half in it, and with both. *)
LEMMA QueuedHalves ==
  ASSUME NEW first, NEW second
  PROVE  /\ Append(<<>>, first) = <<first>> /\ Append(<<first>>, second) = <<first, second>>
         /\ Head(<<first, second>>) = first /\ Tail(<<first, second>>) = <<second>>
         /\ Head(<<first>>) = first /\ Tail(<<first>>) = <<>>
         /\ <<first, second>> # <<>> /\ <<first>> # <<>>
         /\ Len(<<>>) = 0 /\ Len(<<first>>) = 1
<1>1. Append(<<>>, first) = <<first>>
  OBVIOUS
<1>2. Append(<<first>>, second) = <<first, second>>
  <2> DEFINE elements == {first, second}
  <2>1. <<first>> \in Seq(elements) /\ <<first, second>> \in Seq(elements) /\ second \in elements
    OBVIOUS
  <2>2. /\ Append(<<first>>, second) \in Seq(elements)
        /\ Len(Append(<<first>>, second)) = 2
        /\ Append(<<first>>, second)[1] = first /\ Append(<<first>>, second)[2] = second
    BY <2>1
  <2>3. /\ Len(<<first, second>>) = 2
        /\ <<first, second>>[1] = first /\ <<first, second>>[2] = second
    OBVIOUS
  <2>4. \A i \in 1 .. Len(Append(<<first>>, second)) :
          Append(<<first>>, second)[i] = <<first, second>>[i]
    <3>1. \A i \in 1 .. 2 : i = 1 \/ i = 2
      OBVIOUS
    <3> QED BY <2>2, <2>3, <3>1
  <2>5. Len(Append(<<first>>, second)) = Len(<<first, second>>)
    BY <2>2, <2>3
  <2> HIDE DEF elements
  <2> QED BY <2>1, <2>2, <2>4, <2>5, SeqEqual, Zenon
<1>3. Head(<<first, second>>) = first /\ Head(<<first>>) = first
  OBVIOUS
<1>4. Tail(<<first, second>>) = <<second>>
  OBVIOUS
<1>5. Tail(<<first>>) = <<>>
  OBVIOUS
<1>6. <<first, second>> # <<>> /\ <<first>> # <<>>
  OBVIOUS
<1>7. Len(<<>>) = 0 /\ Len(<<first>>) = 1
  OBVIOUS
<1> QED BY <1>1, <1>2, <1>3, <1>4, <1>5, <1>6, <1>7

LEMMA UpperStays ==
  ASSUME Edge, NoneArriving, UpperReceived, correlation' = correlation
  PROVE  UpperReceived'
BY DEF Edge, Pd!PdEdge, Pd!Receive, Pd!IsHalf, NoneArriving, Arriving, UpperReceived

LEMMA PhaseStep ==
  ASSUME PathInv, Phase, Edge
  PROVE  Phase'
<1>1. /\ count' = Net!Increment(count) /\ rest \in Nat /\ MinGap \in Nat /\ MinGap >= 16
      /\ correlation \in Nat /\ incomplete_correlation_value \in Nat /\ Depth \in Nat /\ Depth >= 2
  BY NetEdge, GapAssumption DEF Edge, PathInv, NumbersOK
<1>2. \A n \in 0 .. 7 : count = Port(n) => count' = Port(After(n))
  BY <1>1, NextSlot
<1>3. Silent.data = NoWord
  BY DEF Silent
(* Between the halves and the next result the send part does nothing.      *)
<1>4. rest # 0 /\ rest # MinGap - 1 => /\ cor_send' = Silent /\ rest' = rest - 1
                                       /\ correlation' = correlation
  BY DEF Edge, SendFirstHalf, SendSecondHalf, SendNothing
<1>5. CASE Quiet
  <2>1. Queue' = <<>> /\ NoneArriving'
    BY <1>3, <1>5, PathEdge DEF Quiet
  <2>2. CASE SendFirstHalf
    <3>1. count = Port(3) /\ rest' = MinGap - 1 /\ cor_send' = Half(FALSE, correlation)'
      BY <2>2 DEF SendFirstHalf, Half
    <3>2. count' = Port(4)
      BY <1>2, <3>1 DEF After
    <3> QED BY <2>1, <3>1, <3>2 DEF Phase, FirstDriven, At
  <2>3. CASE SendNothing
    <3>1. cor_send' = Silent /\ rest' <= MinGap - 14
      BY <1>1, <1>5, <2>3 DEF SendNothing, Quiet
    <3> QED BY <2>1, <3>1 DEF Phase, Quiet, Silent
  <2>4. ~ SendSecondHalf
    <3>1. rest <= MinGap - 14
      BY <1>5 DEF Quiet
    <3>2. rest # MinGap - 1
      BY <1>1, <3>1
    <3> QED BY <3>2 DEF SendSecondHalf
  <2> QED BY <2>2, <2>3, <2>4 DEF Edge
<1>6. CASE FirstDriven
  <2>1. count = Port(4) /\ rest = MinGap - 1 /\ cor_send = Half(FALSE, correlation) /\ Queue = <<>>
    BY <1>6 DEF FirstDriven, At
  <2>2. SendSecondHalf
    <3>1. rest # 0
      BY <1>1, <2>1
    <3> QED BY <2>1, <3>1 DEF Edge, SendFirstHalf, SendNothing
  <2>3. /\ count' = Port(5) /\ rest' = MinGap - 2 /\ correlation' = correlation
        /\ cor_send' = Half(TRUE, correlation)
    BY <1>1, <1>2, <2>1, <2>2 DEF SendSecondHalf, After
  <2>4. Queue' = <<Queued(FALSE)>> /\ NoneArriving'
    <3>1. /\ cor_send.data # NoWord
          /\ [addr |-> Port(cor_send.addr), data |-> cor_send.data] = Queued(FALSE)
      BY <2>1, HalfDriven
    <3>2. Append(<<>>, Queued(FALSE)) = <<Queued(FALSE)>> /\ Len(<<>>) < Depth
      BY <1>1, QueuedHalves
    <3> QED BY <2>1, <3>1, <3>2, PathEdge
  <2> QED BY <2>3, <2>4 DEF Phase, SecondDriven, At, Queued, Half
<1>7. CASE SecondDriven
  <2>1. /\ count = Port(5) /\ rest = MinGap - 2 /\ cor_send = Half(TRUE, correlation)
        /\ Queue = <<Queued(FALSE)>> /\ count # Port(7)
    BY <1>7, SlotsDiffer DEF SecondDriven, At
  <2>2. /\ count' = Port(6) /\ rest' = MinGap - 3 /\ correlation' = correlation
        /\ cor_send' = Silent
    BY <1>1, <1>2, <1>4, <2>1 DEF After
  <2>3. Queue' = <<Queued(FALSE), Queued(TRUE)>> /\ NoneArriving'
    <3>1. /\ cor_send.data # NoWord
          /\ [addr |-> Port(cor_send.addr), data |-> cor_send.data] = Queued(TRUE)
      BY <2>1, HalfDriven
    <3>2. /\ Append(Queue, Queued(TRUE)) = <<Queued(FALSE), Queued(TRUE)>> /\ Len(Queue) < Depth
          /\ Head(Queue).addr = PdPort
      <4>1. Append(Queue, Queued(TRUE)) = <<Queued(FALSE), Queued(TRUE)>>
            /\ Len(Queue) = 1 /\ Head(Queue) = Queued(FALSE)
        BY <2>1, QueuedHalves, Zenon
      <4>2. Len(Queue) < Depth
        BY <1>1, <4>1
      <4> QED BY <4>1, <4>2, QueuedForDetector, Zenon
    <3> QED BY <2>1, <3>1, <3>2, PathEdge
  <2> QED BY <2>2, <2>3 DEF Phase, BothQueued, At, Queued, Half, Silent
<1>8. CASE BothQueued
  <2>1. /\ cor_send = Silent /\ Queue = <<Queued(FALSE), Queued(TRUE)>>
        /\ Head(Queue) = Queued(FALSE) /\ Tail(Queue) = <<Queued(TRUE)>> /\ Queue # <<>>
        /\ Head(Queue).addr = PdPort
    <3>1. cor_send = Silent /\ Queue = <<Queued(FALSE), Queued(TRUE)>>
      BY <1>8 DEF BothQueued
    <3>2. Head(Queue) = Queued(FALSE) /\ Tail(Queue) = <<Queued(TRUE)>> /\ Queue # <<>>
      BY <3>1, QueuedHalves, Zenon
    <3> QED BY <3>1, <3>2, QueuedForDetector
  <2>2. rest # 0 /\ rest # MinGap - 1
    BY <1>1, <1>8 DEF BothQueued, At
  <2>3. cor_send' = Silent /\ rest' = rest - 1 /\ correlation' = correlation
    BY <1>4, <2>2
  <2>4. CASE At(6, 3)
    <3>1. count' = Port(7) /\ rest' = MinGap - 4 /\ count # Port(7)
      BY <1>1, <1>2, <2>3, <2>4, SlotsDiffer DEF At, After
    <3>2. Queue' = Queue /\ NoneArriving'
      BY <1>3, <2>1, <3>1, PathEdge
    <3> QED BY <2>1, <2>3, <3>1, <3>2 DEF Phase, BothQueued, At, Queued, Half, Silent
  <2>5. CASE At(7, 4)
    <3>1. count' = Port(0) /\ rest' = MinGap - 5 /\ count = Port(7)
      BY <1>1, <1>2, <2>3, <2>5 DEF At, After
    <3>2. Queue' = <<Queued(TRUE)>> /\ Arriving' = Half(FALSE, correlation).data
      BY <1>3, <2>1, <3>1, PathEdge, HalfDriven
    <3> QED BY <2>3, <3>1, <3>2 DEF Phase, FirstArrives, At, Queued, Half, Silent
  <2> QED BY <1>8, <2>4, <2>5 DEF BothQueued
<1>9. CASE FirstArrives
  <2>1. /\ cor_send = Silent /\ Queue = <<Queued(TRUE)>> /\ Queue # <<>> /\ count = Port(0)
        /\ rest = MinGap - 5 /\ Head(Queue).addr = PdPort /\ count # Port(7)
    <3>1. cor_send = Silent /\ Queue = <<Queued(TRUE)>> /\ count = Port(0) /\ rest = MinGap - 5
      BY <1>9 DEF FirstArrives, At
    <3>2. Head(Queue) = Queued(TRUE) /\ Queue # <<>>
      BY <3>1, QueuedHalves, Zenon
    <3>3. Head(Queue).addr = PdPort
      BY <3>2, QueuedForDetector, Zenon
    <3>4. count # Port(7)
      BY <3>1, SlotsDiffer
    <3> QED BY <3>1, <3>2, <3>3, <3>4
  <2>2. /\ cor_send' = Silent /\ rest' = MinGap - 6 /\ correlation' = correlation
        /\ count' = Port(1)
    BY <1>1, <1>2, <1>4, <2>1 DEF After
  <2>3. Queue' = Queue /\ Shown' /\ NoneArriving'
    BY <1>3, <2>1, PathEdge
  <2>4. UpperReceived'
    <3>1. /\ Pd!IsHalf(Arriving) /\ ~ Arriving.second /\ Arriving.value = correlation
      BY <1>9, HalfDriven DEF FirstArrives, Pd!IsHalf
    <3>2. incomplete_correlation_value' = Pd!Join(correlation, incomplete_correlation_value)
      BY <3>1 DEF Edge, Pd!PdEdge, Pd!Receive, Arriving
    <3> QED BY <1>1, <2>2, <3>2, Joins DEF UpperReceived
  <2>5. At(1, 1 + 5)'
    BY <1>1, <2>2 DEF At
  <2> QED BY <2>1, <2>2, <2>3, <2>4, <2>5 DEF Phase, SecondQueued, Queued, Half, Silent
<1>10. CASE SecondQueued
  <2>1. /\ cor_send = Silent /\ Queue = <<Queued(TRUE)>> /\ Queue # <<>>
        /\ Head(Queue) = Queued(TRUE) /\ Tail(Queue) = <<>> /\ Head(Queue).addr = PdPort
        /\ NoneArriving /\ UpperReceived
    <3>1. cor_send = Silent /\ Queue = <<Queued(TRUE)>> /\ NoneArriving /\ UpperReceived
      BY <1>10 DEF SecondQueued
    <3>2. Head(Queue) = Queued(TRUE) /\ Tail(Queue) = <<>> /\ Queue # <<>>
      BY <3>1, QueuedHalves, Zenon
    <3> QED BY <3>1, <3>2, QueuedForDetector
  <2>2. PICK slot \in 1 .. 7 : At(slot, slot + 5)
    BY <1>10 DEF SecondQueued
  <2>3. count = Port(slot) /\ rest = MinGap - (slot + 5) /\ rest # 0 /\ rest # MinGap - 1
    BY <1>1, <2>2 DEF At
  <2>4. cor_send' = Silent /\ rest' = rest - 1 /\ correlation' = correlation
    BY <1>4, <2>3
  <2>5. UpperReceived'
    BY <2>1, <2>4, UpperStays
  <2>6. CASE slot # 7
    <3>1. slot + 1 \in 1 .. 7 /\ After(slot) = slot + 1 /\ count # Port(7)
      BY <2>3, <2>6, SlotsDiffer DEF After
    <3>2. At(slot + 1, (slot + 1) + 5)'
      BY <1>1, <1>2, <2>3, <2>4, <3>1 DEF At
    <3>3. Queue' = Queue /\ Shown' /\ NoneArriving'
      BY <1>3, <2>1, <3>1, PathEdge
    <3> QED BY <2>1, <2>4, <2>5, <3>1, <3>2, <3>3 DEF Phase, SecondQueued, Queued, Half, Silent
  <2>7. CASE slot = 7
    <3>1. count' = Port(0) /\ count = Port(7) /\ rest' = MinGap - 13
      BY <1>1, <1>2, <2>3, <2>4, <2>7 DEF After
    <3>2. Queue' = <<>> /\ Arriving' = Half(TRUE, correlation).data
      BY <1>3, <2>1, <3>1, PathEdge, HalfDriven
    <3> QED BY <2>4, <2>5, <3>1, <3>2 DEF Phase, SecondArrives, At, Half, Silent
  <2> QED BY <2>6, <2>7
<1>11. CASE SecondArrives
  <2>1. /\ cor_send = Silent /\ Queue = <<>> /\ rest = MinGap - 13
    BY <1>11 DEF SecondArrives, At
  <2>2. cor_send' = Silent /\ rest' = MinGap - 14
    BY <1>1, <1>4, <2>1
  <2>3. Queue' = <<>> /\ NoneArriving'
    BY <1>3, <2>1, PathEdge
  <2>4. MinGap - 14 <= MinGap - 14
    BY <1>1
  <2> QED BY <2>2, <2>3, <2>4 DEF Phase, Quiet, Silent
<1> QED BY <1>5, <1>6, <1>7, <1>8, <1>9, <1>10, <1>11 DEF Phase

(* The peak detector never joins halves of two results: both halves of one *)
(* reach it, in two rounds of the slot counter, before the next is driven  *)
(* (CorAsp send part, PdAsp incomplete_correlation_value).                 *)
THEOREM ResultsAreWhole == Spec => WholeResults
<1>1. Init => Phase
  <2> SUFFICES ASSUME Init PROVE Quiet
    BY DEF Phase
  <2>1. cor_send = Silent /\ rest = 0 /\ Queue = <<>> /\ Arriving = NoWord
    BY PathPorts DEF Init, Net!Init, Net!Silent, Queue, Arriving
  <2> QED BY <2>1, KindsOfWords, GapAssumption DEF Quiet, NoneArriving
<1>2. PathInv /\ Phase /\ [Edge]_vars => Phase'
  <2>1. UNCHANGED vars => (Phase => Phase')
    BY DEF vars, netVars, corVars, Pd!pdVars, Phase, Quiet, FirstDriven, SecondDriven, BothQueued,
           FirstArrives, SecondQueued, SecondArrives, At, Queue, Shown, Queued, Arriving, NoneArriving,
           UpperReceived, Half
  <2> QED BY <2>1, PhaseStep
<1>3. ASSUME PathInv, Phase, Edge, Pd!Ready(recv[PdPort].data)
      PROVE  current_correlation_value' = correlation
  <2>1. Arriving = Half(TRUE, correlation).data /\ UpperReceived
    BY <1>3, HalfDriven
       DEF Phase, Quiet, FirstDriven, SecondDriven, BothQueued, FirstArrives, SecondQueued,
           SecondArrives, NoneArriving, Arriving, Pd!Ready, Pd!IsHalf
  <2>2. Arriving.value = correlation /\ Arriving.second /\ Pd!IsHalf(Arriving)
    BY <2>1, HalfDriven DEF Pd!IsHalf
  <2>3. current_correlation_value' = Pd!Join(incomplete_correlation_value, correlation)
    BY <1>3, <2>2 DEF Edge, Pd!PdEdge, Pd!Receive, Pd!Ready, Arriving
  <2>4. incomplete_correlation_value \in Nat /\ correlation \in Nat
    BY <1>3 DEF PathInv, NumbersOK
  <2> QED BY <2>1, <2>3, <2>4, Joins DEF UpperReceived
<1>4. PathInv /\ Phase /\ [Edge]_vars
        => [Pd!Ready(recv[PdPort].data) => current_correlation_value' = correlation]_vars
  BY <1>3
<1> QED BY <1>1, <1>2, <1>4, PathInvariant, PTL DEF Spec, WholeResults
=============================================================================
