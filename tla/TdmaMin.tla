------------------------------- MODULE TdmaMin -------------------------------
(***************************************************************************)
(* The TDMA-MIN network-on-chip: a free-running slot counter, the fabric   *)
(* and one interface per port, with a queue of packets waiting for their   *)
(* slot and a register holding what the network delivered last.            *)
(*                                                                         *)
(* The whole network is one clock domain, so a step is one rising edge:    *)
(* every register of the code takes its next value in the same action.     *)
(* The components behind the ports are left open: at each edge they drive  *)
(* any packet, or nothing, on their send port.                             *)
(***************************************************************************)
EXTENDS TdmaMinFabric, Sequences

CONSTANTS
  Words,    \* Data words with bit 31 set: what the interface queues.
  Far,      \* Addresses with a bit set above the low `Stages' ones.
  Depth     \* Words that the queue of an interface holds.

ASSUME DepthAssumption == Depth \in Nat \ {0}
ASSUME WordsAssumption == Idle \notin Words
ASSUME FarAssumption   == Far \cap Terminal = {}

Data    == Words \cup {Idle}
Address == Terminal \cup Far
Packet  == [addr : Address, data : Words]

Zero   == [k \in Bit |-> FALSE]
Silent == [addr |-> Zero, data |-> Idle]   \* a send port that drives zeros
Send   == Packet \cup {Silent}

VARIABLES
  count,        \* The slot counter, a bit vector.
  fifo,         \* Of every port, the packets waiting for their slot.
  wait_state,   \* Of every port, whether its only packet was written at the
                \* last edge: the queue does not show it yet.
  recv          \* Of every port, the word delivered last and the address it is from.
vars == <<count, fifo, wait_state, recv>>

----------------------------------------------------------------------------
(* Mutants of the counter: it stands still; no bit carries into the next. *)
IncrementStuck(c)   == c
IncrementNoCarry(c) == [k \in Bit |-> c[k] # (k = 0)]

(* count + 1 on unsigned(stages-1 downto 0): a bit flips when all the bits *)
(* below it are set; all ones wrap to zero.                                *)
Increment(c) == [k \in Bit |-> c[k] # (\A j \in 0 .. k - 1 : c[j])]

(* The address of interface p's partner in the current slot. *)
Partner(p) == Xor(p, count)

(* The output empty of the scfifo: of a queue that was empty the first     *)
(* packet is in the memory one edge before it is at the output.            *)
Empty(p) == fifo[p] = <<>> \/ wait_state[p]

(* The head of the queue is for the partner. All eight bits of the address *)
(* are compared, and the partner's upper ones are zero, so that a packet   *)
(* with an address in Far is never ready.                                  *)
ReadyLowBits(p) ==   \* mutant: only the low bits are compared
  /\ ~ Empty(p)
  /\ \/ Head(fifo[p]).addr = Partner(p)
     \/ Head(fifo[p]).addr \in Far /\ Partner(p) = Zero
Ready(p) == ~ Empty(p) /\ Head(fifo[p]).addr = Partner(p)

Push == [p \in Ports |-> IF Ready(p) THEN Head(fifo[p]).data ELSE Idle]

(* Mutant: a write into a full queue. *)
ScFifoOverrun(q, rdreq, wrreq, word) ==
  LET kept == IF rdreq THEN Tail(q) ELSE q
  IN  IF wrreq THEN Append(kept, word) ELSE kept

(* An edge of the scfifo with overflow checking: a write is ignored when   *)
(* the queue was full before the edge, also if the same edge reads.        *)
ScFifo(q, rdreq, wrreq, word) ==
  LET kept == IF rdreq THEN Tail(q) ELSE q
  IN  IF wrreq /\ Len(q) < Depth THEN Append(kept, word) ELSE kept

(* After that edge the queue holds the word it has written and no other.   *)
WaitState(q, rdreq, wrreq) ==
  wrreq /\ Len(q) < Depth /\ Len(q) = IF rdreq THEN 1 ELSE 0

Edge(send) ==
  /\ count' = Increment(count)
  /\ fifo' = [p \in Ports |->
                ScFifo(fifo[p], Ready(p), send[p].data # Idle, send[p])]
  /\ wait_state' = [p \in Ports |->
                      WaitState(fifo[p], Ready(p), send[p].data # Idle)]
  /\ LET pull == Pull(count, Push)
     IN  recv' = [p \in Ports |-> [addr |-> Partner(p), data |-> pull[p]]]

Init ==
  /\ count = Zero
  /\ fifo = [p \in Ports |-> <<>>]
  /\ wait_state = [p \in Ports |-> FALSE]
  /\ recv = [p \in Ports |-> Silent]

Next == \E send \in [Ports -> Send] : Edge(send)

Spec == Init /\ [][Next]_vars

(* The clock does not stop. *)
FairSpec == Spec /\ WF_vars(Next)

----------------------------------------------------------------------------
(* Every register holds a value of its width, no queue is longer than its  *)
(* memory, and a packet that a queue does not show yet is its only one.    *)
TypeOK ==
  /\ count \in Terminal
  /\ fifo \in [Ports -> Seq(Packet)]
  /\ \A p \in Ports : Len(fifo[p]) <= Depth
  /\ wait_state \in [Ports -> BOOLEAN]
  /\ \A p \in Ports : wait_state[p] => Len(fifo[p]) = 1
  /\ recv \in [Ports -> [addr : Terminal, data : Data]]

(* The columns of switches together join every terminal q to the terminal  *)
(* q xor slot, also when fewer ports than terminals are populated          *)
(* (TdmaMinFabric staging, TdmaMinStage wiring): the addresses that        *)
(* TdmaMinInterface compares with rest on this.                            *)
FabricIsXorCircuit == Pull(count, Push) = Circuit(count, Push)

(* A packet whose address has a bit above the slot's keeps its place at    *)
(* the head of the queue for good, and everything queued behind it too     *)
(* (TdmaMinInterface addr/ready): ReCOP can send one, since bits 27..24 of *)
(* DPCR address sixteen ports and the network has eight.                   *)
FarHeadBlocks ==
  [][\A p \in Ports :
       fifo[p] # <<>> /\ Head(fifo[p]).addr \in Far
         => fifo'[p] # <<>> /\ \A i \in 1 .. Len(fifo[p]) : fifo'[p][i] = fifo[p][i]]_vars

----------------------------------------------------------------------------
(* The network implements one bounded first-in first-out channel per port: *)
(* whatever the slots and the switches do, a word leaves only the head of  *)
(* its queue, reaches the port it is addressed to in the same edge under   *)
(* its sender's address, and is lost only on its way into a full queue.    *)
(* A receive register that holds zeros has nothing, whatever its address.  *)
Channels ==
  INSTANCE TdmaMinChannels
    WITH queue <- fifo,
         recv  <- [q \in Ports |->
                     IF recv[q].data = Idle THEN [data |-> Idle] ELSE recv[q]]

(* Every step of the network is a step of the channels                     *)
(* (TdmaMinInterface, TdmaMinFabric and the scfifo together).              *)
ImplementsChannels == Channels!Spec

(* While the clock runs no packet with a slot waits at the head of its     *)
(* queue for ever (TdmaMinSlots count, TdmaMinInterface ready).            *)
ImplementsFairChannels == Channels!FairSpec
=============================================================================
