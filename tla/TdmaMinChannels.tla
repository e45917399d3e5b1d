-------------------------- MODULE TdmaMinChannels --------------------------
(***************************************************************************)
(* What the TDMA-MIN network promises, without slots or switches. Every    *)
(* port has a queue of packets. At each clock edge some ports hand over    *)
(* the packet at the head of their queue, no two of them to the same       *)
(* receiver; a receiver gets exactly that word and the sender's name, and  *)
(* a receiver nobody sends to gets nothing. A port may queue a packet at   *)
(* each edge, unless its queue is full.                                    *)
(***************************************************************************)
EXTENDS Naturals, Sequences

CONSTANTS
  Ports,     \* Ports with an interface.
  Terminal,  \* Addresses that have a slot, the ports among them.
  Packet,    \* What can be queued: records with the fields addr and data.
  Idle,      \* The data word that means "no packet".
  Depth      \* Packets that a queue holds.

VARIABLES queue, recv
vars == <<queue, recv>>

Nothing == [data |-> Idle]
Queues  == UNION {[1 .. n -> Packet] : n \in 0 .. Depth}

----------------------------------------------------------------------------
Dest(p) == Head(queue[p]).addr

Routable(p) == queue[p] # <<>> /\ Dest(p) \in Terminal

(* Sets of ports whose heads can travel together. *)
Compatible(leaving) ==
  /\ \A p \in leaving : Routable(p)
  /\ \A p, r \in leaving : Dest(p) = Dest(r) => p = r

Delivered(q, leaving) ==
  IF \E p \in leaving : Dest(p) = q
  THEN LET p == CHOOSE p \in leaving : Dest(p) = q
       IN  [addr |-> p, data |-> Head(queue[p]).data]
  ELSE Nothing

Remaining(p, leaving) == IF p \in leaving THEN Tail(queue[p]) ELSE queue[p]

Transfer(leaving) ==
  /\ Compatible(leaving)
  /\ recv' = [q \in Ports |-> Delivered(q, leaving)]
  /\ queue' \in [Ports -> Queues]
  /\ \A p \in Ports :
       \/ queue'[p] = Remaining(p, leaving)
       \/ /\ Len(queue[p]) < Depth
          /\ \E packet \in Packet : queue'[p] = Append(Remaining(p, leaving), packet)

Init ==
  /\ queue = [p \in Ports |-> <<>>]
  /\ recv = [q \in Ports |-> Nothing]

Next == \E leaving \in SUBSET Ports : Transfer(leaving)

(* Port p hands over the packet at the head of its queue. *)
HandOver(p) == \E leaving \in SUBSET Ports : p \in leaving /\ Transfer(leaving)

Spec == Init /\ [][Next]_vars

(* No port waits for ever with a packet that has a slot: weak fairness of  *)
(* HandOver(p), which is enabled exactly when the head is routable.        *)
FairSpec == Spec /\ \A p \in Ports : []<>~Routable(p) \/ []<><<HandOver(p)>>_vars
============================================================================
