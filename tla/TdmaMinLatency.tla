--------------------------- MODULE TdmaMinLatency ---------------------------
(***************************************************************************)
(* The network with a deadline on every queued packet, a history variable  *)
(* that no edge of the network reads: a packet queued in place k has       *)
(* k rounds of the slot counter to leave, and one edge more if the queue   *)
(* was empty and does not show it at once.                                 *)
(***************************************************************************)
EXTENDS TdmaMin

VARIABLE due   \* Of every queued packet, the edges it may still wait.
latencyVars == <<vars, due>>

(* The values of n bits, 2^n; Frame is the slots of one round.             *)
Slots[n \in 0 .. Stages] == IF n = 0 THEN 1 ELSE 2 * Slots[n - 1]
Frame == Slots[Stages]

CountDown(d) == [i \in DOMAIN d |-> IF d[i] > 0 THEN d[i] - 1 ELSE 0]

LatencyEdge(send) ==
  /\ Edge(send)
  /\ due' = [p \in Ports |->
       LET kept == CountDown(IF Ready(p) THEN Tail(due[p]) ELSE due[p])
       IN  IF send[p].data # Idle /\ Len(fifo[p]) < Depth
           THEN Append(kept, IF kept = <<>> THEN Frame + 1 ELSE (Len(kept) + 1) * Frame)
           ELSE kept]

LatencyInit == Init /\ due = [p \in Ports |-> <<>>]

LatencyNext == \E send \in [Ports -> Send] : LatencyEdge(send)

LatencySpec == LatencyInit /\ [][LatencyNext]_latencyVars

----------------------------------------------------------------------------
(* Bounded latency: a packet with only routable packets ahead of it leaves *)
(* within one round of the slot counter for each place in the queue, or an *)
(* edge later if it comes into an empty queue just before its slot,        *)
(* whatever all the other ports send (TdmaMinSlots count, TdmaMinInterface *)
(* ready/ack/push, a_dpfifo wait_state).                                   *)
BoundedLatency ==
  \A p \in Ports : \A i \in DOMAIN fifo[p] :
    (\A j \in 1 .. i : fifo[p][j].addr \in Terminal) => due[p][i] > 0
=============================================================================
