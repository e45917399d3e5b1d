---------------------------- MODULE TdmaMinProofs ----------------------------
(***************************************************************************)
(* The TDMA-MIN network, for every number of stages, every set of ports,   *)
(* every set of words and every depth of the queues: what its fabric       *)
(* joins, that its registers keep their types, that it implements the      *)
(* channels of TdmaMinChannels, and that no routable packet waits longer   *)
(* than its place in the queue allows.                                     *)
(*                                                                         *)
(* The recursion over the columns of the fabric is solved by following one *)
(* output back through them: Source(slot, n, t) is the terminal entering   *)
(* the fabric that wire t between columns n and n-1 is joined to.          *)
(***************************************************************************)
EXTENDS TdmaMinLatency, TdmaMinTypes, Sums

Source(slot, n, t) ==
  [k \in Bit |-> IF k >= n THEN t[k - n] # slot[k] ELSE t[(k + Stages) - n]]

----------------------------------------------------------------------------
(* A column takes output t from the input that its switch selects. *)
LEMMA StageSelects ==
  ASSUME NEW s \in BOOLEAN, NEW i, NEW t \in Terminal
  PROVE  /\ Input(t, t[0] # s) \in Terminal
         /\ Stage(s, i)[t] = i[Input(t, t[0] # s)]
<1>1. 0 \in Bit /\ t[0] \in BOOLEAN
  BY StagesAssumption DEF Bit, Terminal
<1>2. ASSUME NEW half \in BOOLEAN
      PROVE  Input(t, half) \in Terminal
  <2>1. \A k \in Bit : k # Stages - 1 => k + 1 \in Bit
    BY StagesAssumption DEF Bit
  <2>2. \A k \in Bit : t[k] \in BOOLEAN
    BY DEF Terminal
  <2>3. \A k \in Bit : (IF k = Stages - 1 THEN half ELSE t[k + 1]) \in BOOLEAN
    BY <2>1, <2>2, Zenon
  <2>4. QED
    BY <2>3 DEF Input, Terminal
<1>3. Stage(s, i)[t] = i[Input(t, t[0] # s)]
  <2>1. CASE t[0] = TRUE /\ s = TRUE
    BY <2>1 DEF Stage, SwitchX, SwitchY
  <2>2. CASE t[0] = TRUE /\ s = FALSE
    BY <2>2 DEF Stage, SwitchX, SwitchY
  <2>3. CASE t[0] = FALSE /\ s = TRUE
    BY <2>3 DEF Stage, SwitchX, SwitchY
  <2>4. CASE t[0] = FALSE /\ s = FALSE
    BY <2>4 DEF Stage, SwitchX, SwitchY
  <2>5. QED
    BY <1>1, <2>1, <2>2, <2>3, <2>4
<1>4. (t[0] # s) \in BOOLEAN
  OBVIOUS
<1>5. QED
  BY <1>2, <1>3, <1>4

LEMMA SourceType ==
  ASSUME NEW slot \in Terminal, NEW n \in 0 .. Stages, NEW t \in Terminal
  PROVE  Source(slot, n, t) \in Terminal
<1>1. \A k \in Bit : k >= n => k - n \in Bit
  BY StagesAssumption DEF Bit
<1>2. \A k \in Bit : ~ (k >= n) => (k + Stages) - n \in Bit
  BY StagesAssumption DEF Bit
<1>3. \A k \in Bit : t[k] \in BOOLEAN
  BY DEF Terminal
<1>4. QED
  BY <1>1, <1>2, <1>3 DEF Source, Terminal

(* Nothing has been crossed before the first column. *)
LEMMA SourceFirst ==
  ASSUME NEW slot \in Terminal, NEW t \in Terminal
  PROVE  Source(slot, Stages, t) = t
BY StagesAssumption DEF Source, Terminal, Bit

(* One column further back. *)
LEMMA SourceStep ==
  ASSUME NEW slot \in Terminal, NEW n \in 0 .. Stages - 1, NEW t \in Terminal
  PROVE  Source(slot, n + 1, Input(t, t[0] # slot[n])) = Source(slot, n, t)
<1> DEFINE u == Input(t, t[0] # slot[n])
<1>1. \A k \in Bit : k # Stages - 1 => u[k] = t[k + 1]
  BY DEF Input
<1>2. u[Stages - 1] = (t[0] # slot[n])
  BY StagesAssumption DEF Input, Bit
<1> HIDE DEF u
<1>3. ASSUME NEW k \in Bit
      PROVE  (IF k >= n + 1 THEN u[k - (n + 1)] # slot[k] ELSE u[(k + Stages) - (n + 1)])
               = (IF k >= n THEN t[k - n] # slot[k] ELSE t[(k + Stages) - n])
  <2>1. CASE k > n
    <3>1. k - (n + 1) \in Bit /\ k - (n + 1) # Stages - 1 /\ (k - (n + 1)) + 1 = k - n
      BY <2>1, StagesAssumption DEF Bit
    <3>2. u[k - (n + 1)] = t[k - n]
      BY <3>1, <1>1
    <3>3. QED
      BY <2>1, <3>2 DEF Bit
  <2>2. CASE k = n
    <3>1. (k + Stages) - (n + 1) = Stages - 1 /\ k - n = 0
      BY <2>2, StagesAssumption DEF Bit
    <3>2. QED
      BY <2>2, <3>1, <1>2 DEF Bit
  <2>3. CASE k < n
    <3>1. /\ (k + Stages) - (n + 1) \in Bit
          /\ (k + Stages) - (n + 1) # Stages - 1
          /\ ((k + Stages) - (n + 1)) + 1 = (k + Stages) - n
      BY <2>3, StagesAssumption DEF Bit
    <3>2. u[(k + Stages) - (n + 1)] = t[(k + Stages) - n]
      BY <3>1, <1>1
    <3>3. QED
      BY <2>3, <3>2 DEF Bit
  <2>4. QED
    BY <2>1, <2>2, <2>3, StagesAssumption DEF Bit
<1>4. QED
  BY <1>3 DEF Source, u

----------------------------------------------------------------------------
(* The recursion over the columns has a solution, and only one.            *)
LEMMA LinksSolved ==
  ASSUME NEW slot \in Terminal, NEW push, NEW n \in 0 .. Stages, NEW t \in Terminal
  PROVE  Links(slot, push)[n][t] = Entering(push)[Source(slot, n, t)]
<1> DEFINE Step(f) == [m \in 0 .. Stages |->
                         IF m = Stages THEN Entering(push) ELSE Stage(slot[m], f[m + 1])]
           Solution == [m \in 0 .. Stages |->
                          [u \in Terminal |-> Entering(push)[Source(slot, m, u)]]]
           links == Links(slot, push)
<1>1. Solution = Step(Solution)
  <2>1. Solution[Stages] = Entering(push)
    BY SourceFirst, StagesAssumption DEF Entering
  <2>2. ASSUME NEW m \in 0 .. Stages - 1
        PROVE  Solution[m] = Stage(slot[m], Solution[m + 1])
    <3>1. slot[m] \in BOOLEAN /\ m \in 0 .. Stages /\ m + 1 \in 0 .. Stages
      BY StagesAssumption DEF Terminal, Bit
    <3>2. ASSUME NEW u \in Terminal
          PROVE  Stage(slot[m], Solution[m + 1])[u] = Entering(push)[Source(slot, m, u)]
      <4>1. /\ Input(u, u[0] # slot[m]) \in Terminal
            /\ Stage(slot[m], Solution[m + 1])[u] = Solution[m + 1][Input(u, u[0] # slot[m])]
        BY <3>1, StageSelects
      <4>2. Solution[m + 1][Input(u, u[0] # slot[m])]
              = Entering(push)[Source(slot, m + 1, Input(u, u[0] # slot[m]))]
        BY <3>1, <4>1
      <4>3. QED
        BY <4>1, <4>2, SourceStep
    <3>3. QED
      BY <3>1, <3>2 DEF Stage
  <2>3. Solution = [m \in 0 .. Stages |-> Solution[m]]
    OBVIOUS
  <2> HIDE DEF Solution
  <2>4. ASSUME NEW m \in 0 .. Stages
        PROVE  Solution[m] = IF m = Stages THEN Entering(push)
                                           ELSE Stage(slot[m], Solution[m + 1])
    <3>1. CASE m = Stages
      BY <3>1, <2>1
    <3>2. CASE m \in 0 .. Stages - 1
      BY <3>2, <2>2
    <3>3. QED
      BY <3>1, <3>2, StagesAssumption
  <2>5. QED
    BY <2>3, <2>4
<1>2. links = Step(links)
  <2> DEFINE IsLinks(f) == f = Step(f)
  <2>1. links = CHOOSE f : IsLinks(f)
    BY DEF Links
  <2>2. IsLinks(Solution)
    BY <1>1
  <2> HIDE DEF IsLinks
  <2>3. IsLinks(CHOOSE f : IsLinks(f))
    BY <2>2
  <2>4. QED
    BY <2>1, <2>3 DEF IsLinks
<1> HIDE DEF links, Solution
<1>3. ASSUME NEW m \in 0 .. Stages
      PROVE  links[m] = Solution[m]
  <2> DEFINE Wrong == {d \in 0 .. Stages : links[Stages - d] # Solution[Stages - d]}
  <2>1. \A d \in Wrong : \E e \in Wrong : e < d
    <3> SUFFICES ASSUME NEW d \in Wrong
                 PROVE  d # 0 /\ d - 1 \in Wrong
      BY StagesAssumption
    <3>1. links[Stages] = Solution[Stages]
      BY <1>1, <1>2, StagesAssumption
    <3>2. d # 0
      BY <3>1, StagesAssumption
    <3>3. /\ Stages - d \in 0 .. Stages - 1
          /\ (Stages - d) + 1 = Stages - (d - 1)
          /\ d - 1 \in 0 .. Stages
      BY <3>2, StagesAssumption
    <3>4. /\ links[Stages - d] = Stage(slot[Stages - d], links[(Stages - d) + 1])
          /\ Solution[Stages - d] = Stage(slot[Stages - d], Solution[(Stages - d) + 1])
      BY <1>1, <1>2, <3>3, StagesAssumption
    <3>5. links[Stages - (d - 1)] # Solution[Stages - (d - 1)]
      BY <3>3, <3>4
    <3>6. QED
      BY <3>2, <3>3, <3>5
  <2>2. Wrong = {}
    <3>1. Wrong \subseteq Nat
      BY StagesAssumption
    <3> HIDE DEF Wrong
    <3>2. SUFFICES ASSUME Wrong # {} PROVE FALSE
      OBVIOUS
    <3>3. PICK d \in Wrong : \A e \in Wrong : d <= e
      BY <3>1, <3>2, LeastNumber
    <3>4. PICK e \in Wrong : e < d
      BY <2>1
    <3>5. QED
      BY <3>1, <3>3, <3>4
  <2>3. Stages - m \in 0 .. Stages /\ Stages - (Stages - m) = m
    BY StagesAssumption
  <2>4. QED
    BY <2>2, <2>3
<1>4. links[n] = Solution[n]
  BY <1>3
<1>5. QED
  BY <1>4 DEF links, Solution

(* In every slot the switches of all the columns together join each port q *)
(* to terminal q xor slot and to no other (TdmaMinFabric staging).         *)
THEOREM FabricIsXor ==
  ASSUME NEW slot \in Terminal, NEW push
  PROVE  Pull(slot, push) = Circuit(slot, push)
<1>1. ASSUME NEW q \in Ports
      PROVE  Links(slot, push)[0][q] = Entering(push)[Xor(q, slot)]
  <2>1. q \in Terminal /\ 0 \in 0 .. Stages
    BY PortsAssumption, StagesAssumption
  <2>2. Source(slot, 0, q) = Xor(q, slot)
    BY StagesAssumption DEF Source, Xor, Bit
  <2>3. QED
    BY <2>1, <2>2, LinksSolved
<1>2. ASSUME NEW q \in Ports
      PROVE  Xor(q, slot) \in Terminal
  <2>1. q \in Terminal
    BY PortsAssumption
  <2>2. QED
    BY <2>1 DEF Xor, Terminal
<1>3. QED
  BY <1>1, <1>2 DEF Pull, Circuit, Entering

----------------------------------------------------------------------------
LEMMA XorType ==
  ASSUME NEW a \in Terminal, NEW b \in Terminal
  PROVE  Xor(a, b) \in Terminal
BY DEF Xor, Terminal

(* The partner relation of a slot is symmetric. *)
LEMMA XorCancel ==
  ASSUME NEW a \in Terminal, NEW b \in Terminal
  PROVE  Xor(Xor(a, b), b) = a
<1>1. \A k \in Bit : a[k] \in BOOLEAN /\ b[k] \in BOOLEAN
  BY DEF Terminal
<1>2. \A k \in Bit : ((a[k] # b[k]) # b[k]) = a[k]
  BY <1>1
<1>3. QED
  BY <1>2 DEF Xor, Terminal

LEMMA XorSwaps ==
  ASSUME NEW a \in Terminal, NEW b \in Terminal
  PROVE  Xor(a, b) = Xor(b, a)
BY DEF Xor, Terminal

LEMMA IncrementType ==
  ASSUME NEW c \in Terminal
  PROVE  Increment(c) \in Terminal
BY DEF Increment, Terminal

(* A queue keeps its type and its bound over an edge. *)
LEMMA ScFifoType ==
  ASSUME NEW q \in Seq(Packet), Len(q) <= Depth,
         NEW rdreq \in BOOLEAN, rdreq => q # <<>>,
         NEW wrreq \in BOOLEAN, NEW word, wrreq => word \in Packet
  PROVE  /\ ScFifo(q, rdreq, wrreq, word) \in Seq(Packet)
         /\ Len(ScFifo(q, rdreq, wrreq, word)) <= Depth
<1> DEFINE kept == IF rdreq THEN Tail(q) ELSE q
<1>1. kept \in Seq(Packet) /\ Len(kept) <= Len(q)
  OBVIOUS
<1> HIDE DEF kept
<1>2. CASE wrreq /\ Len(q) < Depth
  <2>1. ScFifo(q, rdreq, wrreq, word) = Append(kept, word)
    BY <1>2 DEF ScFifo, kept
  <2>2. word \in Packet
    BY <1>2
  <2>3. Append(kept, word) \in Seq(Packet) /\ Len(Append(kept, word)) = Len(kept) + 1
    BY <1>1, <2>2
  <2>4. Len(kept) + 1 <= Depth
    BY <1>1, <1>2, DepthAssumption
  <2>5. QED
    BY <2>1, <2>3, <2>4
<1>3. CASE ~ (wrreq /\ Len(q) < Depth)
  BY <1>1, <1>3, DepthAssumption DEF ScFifo, kept
<1>4. QED
  BY <1>2, <1>3

----------------------------------------------------------------------------
LEMMA InitTypeOK == Init => TypeOK
<1> SUFFICES ASSUME Init PROVE TypeOK
  OBVIOUS
<1>1. Zero \in Terminal
  BY DEF Zero, Terminal
<1>2. QED
  BY <1>1, DepthAssumption DEF Init, TypeOK, Silent, Data

(* What the fabric hands to port q, given what the ports push. *)
LEMMA PullFromPartner ==
  ASSUME TypeOK, NEW q \in Ports
  PROVE  Pull(count, Push)[q] =
           IF Partner(q) \in Ports /\ Ready(Partner(q))
           THEN Head(fifo[Partner(q)]).data
           ELSE Idle
<1>1. count \in Terminal
  BY DEF TypeOK
<1>2. Pull(count, Push) = Circuit(count, Push)
  BY <1>1, FabricIsXor
<1>3. QED
  BY <1>2 DEF Circuit, Push, Partner

LEMMA ReadyHead ==
  ASSUME TypeOK, NEW p \in Ports, Ready(p)
  PROVE  /\ fifo[p] # <<>>
         /\ Head(fifo[p]) \in Packet
         /\ Head(fifo[p]).addr = Partner(p)
         /\ Head(fifo[p]).data \in Words
<1>1. fifo[p] \in Seq(Packet) /\ fifo[p] # <<>>
  BY DEF TypeOK, Ready, Empty
<1>2. Head(fifo[p]) \in Packet
  BY <1>1
<1>3. QED
  BY <1>1, <1>2 DEF Ready, Packet

(* An edge that is offered nothing but packets keeps the types. *)
LEMMA EdgeTypeOK ==
  ASSUME TypeOK, NEW send, \A p \in Ports : send[p].data # Idle => send[p] \in Packet,
         Edge(send)
  PROVE  TypeOK'
<1>1. count' \in Terminal
  BY IncrementType DEF Edge, TypeOK
<1>2. ASSUME NEW p \in Ports
      PROVE  fifo'[p] \in Seq(Packet) /\ Len(fifo'[p]) <= Depth
  <2>1. fifo'[p] = ScFifo(fifo[p], Ready(p), send[p].data # Idle, send[p])
    BY DEF Edge
  <2>2. fifo[p] \in Seq(Packet) /\ Len(fifo[p]) <= Depth
    BY DEF TypeOK
  <2>3. Ready(p) \in BOOLEAN /\ (Ready(p) => fifo[p] # <<>>)
    BY DEF Ready, Empty
  <2>4. QED
    BY <2>1, <2>2, <2>3, ScFifoType
<1>3. fifo' \in [Ports -> Seq(Packet)]
  BY <1>2 DEF Edge
<1>4. ASSUME NEW q \in Ports
      PROVE  recv'[q] \in [addr : Terminal, data : Data]
  <2>1. Partner(q) \in Terminal
    BY PortsAssumption, XorType DEF Partner, TypeOK
  <2>2. Pull(count, Push)[q] \in Data
    BY PullFromPartner, ReadyHead DEF Data
  <2>3. QED
    BY <2>1, <2>2 DEF Edge
<1>5. recv' \in [Ports -> [addr : Terminal, data : Data]]
  BY <1>4 DEF Edge
<1>6. ASSUME NEW p \in Ports
      PROVE  wait_state'[p] \in BOOLEAN /\ (wait_state'[p] => Len(fifo'[p]) = 1)
  <2>1. /\ fifo'[p] = ScFifo(fifo[p], Ready(p), send[p].data # Idle, send[p])
        /\ wait_state'[p] = WaitState(fifo[p], Ready(p), send[p].data # Idle)
    BY DEF Edge
  <2>2. fifo[p] \in Seq(Packet)
    BY DEF TypeOK
  <2>3. wait_state'[p] => Len(fifo[p]) = IF Ready(p) THEN 1 ELSE 0
    BY <2>1 DEF WaitState
  <2>4. wait_state'[p] =>
          fifo'[p] = Append(IF Ready(p) THEN Tail(fifo[p]) ELSE fifo[p], send[p])
    BY <2>1 DEF ScFifo, WaitState
  <2>5. ASSUME wait_state'[p] PROVE Len(fifo'[p]) = 1
    <3>1. CASE Ready(p)
      <4>1. Len(fifo[p]) = 1 /\ fifo'[p] = Append(Tail(fifo[p]), send[p])
        BY <2>3, <2>4, <2>5, <3>1
      <4>2. Tail(fifo[p]) \in Seq(Packet) /\ Len(Tail(fifo[p])) = 0
        BY <2>2, <4>1
      <4> QED BY <4>1, <4>2
    <3>2. CASE ~ Ready(p)
      <4>1. Len(fifo[p]) = 0 /\ fifo'[p] = Append(fifo[p], send[p])
        BY <2>3, <2>4, <2>5, <3>2
      <4> QED BY <2>2, <4>1
    <3> QED BY <3>1, <3>2
  <2>6. QED
    BY <2>1, <2>5 DEF WaitState
<1>7. wait_state' \in [Ports -> BOOLEAN]
  BY <1>6 DEF Edge
<1>8. QED
  BY <1>1, <1>2, <1>3, <1>5, <1>6, <1>7 DEF TypeOK

LEMMA NextTypeOK == TypeOK /\ [Next]_vars => TypeOK'
<1> SUFFICES ASSUME TypeOK, [Next]_vars PROVE TypeOK'
  OBVIOUS
<1>1. CASE UNCHANGED vars
  BY <1>1 DEF vars, TypeOK
<1>2. ASSUME NEW send \in [Ports -> Send], Edge(send)
      PROVE  TypeOK'
  <2>1. \A p \in Ports : send[p].data # Idle => send[p] \in Packet
    BY DEF Send, Silent
  <2>2. QED
    BY <1>2, <2>1, EdgeTypeOK
<1>3. QED
  BY <1>1, <1>2 DEF Next

(* Every register of the network keeps a value of its width, and no queue  *)
(* grows beyond its memory (TdmaMinSlots, TdmaMinInterface).               *)
THEOREM TypeCorrect == Spec => []TypeOK
BY InitTypeOK, NextTypeOK, PTL DEF Spec

(* What the ports push in any slot reaches exactly the partners of that    *)
(* slot (TdmaMinFabric staging, TdmaMinSlots count).                       *)
THEOREM FabricIsCircuit == Spec => []FabricIsXorCircuit
<1>1. TypeOK => FabricIsXorCircuit
  BY FabricIsXor DEF TypeOK, FabricIsXorCircuit
<1>2. QED
  BY <1>1, TypeCorrect, PTL

----------------------------------------------------------------------------
(* The heads that leave in a step of the network are those that are ready. *)
Leaving == {p \in Ports : Ready(p)}

(* What the channels see of the receive registers. *)
Received == [q \in Ports |->
               IF recv[q].data = Idle THEN [data |-> Idle] ELSE recv[q]]

(* Two ports are never ready for the same receiver: in every slot the      *)
(* partners of different ports are different.                              *)
LEMMA LeavingCompatible ==
  ASSUME TypeOK
  PROVE  Channels!Compatible(Leaving)
<1>1. ASSUME NEW p \in Leaving
      PROVE  Channels!Routable(p) /\ Head(fifo[p]).addr = Xor(p, count)
  <2>1. p \in Ports /\ Ready(p) /\ p \in Terminal /\ count \in Terminal
    BY PortsAssumption DEF Leaving, TypeOK
  <2>2. fifo[p] # <<>> /\ Head(fifo[p]).addr = Xor(p, count)
    BY <2>1 DEF Ready, Empty, Partner
  <2>3. QED
    BY <2>1, <2>2, XorType DEF Channels!Routable, Channels!Dest
<1>2. ASSUME NEW p \in Leaving, NEW r \in Leaving,
             Head(fifo[p]).addr = Head(fifo[r]).addr
      PROVE  p = r
  <2>1. p \in Terminal /\ r \in Terminal /\ count \in Terminal
    BY PortsAssumption DEF Leaving, TypeOK
  <2>2. Xor(p, count) = Xor(r, count)
    BY <1>1, <1>2
  <2>3. QED
    BY <2>1, <2>2, XorCancel
<1>3. QED
  BY <1>1, <1>2 DEF Channels!Compatible, Channels!Dest

(* A receiver gets the head of its partner's queue when the partner is     *)
(* ready, under the partner's address, and nothing otherwise.              *)
LEMMA EdgeDelivers ==
  ASSUME TypeOK, NEW send \in [Ports -> Send], Edge(send), NEW q \in Ports
  PROVE  Received'[q] = Channels!Delivered(q, Leaving)
<1> DEFINE p == Partner(q)
<1>1. recv'[q] = [addr |-> p, data |-> Pull(count, Push)[q]]
  BY DEF Edge
<1>2. q \in Terminal /\ count \in Terminal /\ p \in Terminal /\ Xor(p, count) = q
  BY PortsAssumption, XorType, XorCancel DEF TypeOK, Partner
<1>3. \A r \in Leaving : Channels!Dest(r) = q => r = p
  <2> SUFFICES ASSUME NEW r \in Leaving, Channels!Dest(r) = q
               PROVE  r = p
    OBVIOUS
  <2>1. r \in Terminal /\ Xor(r, count) = q
    BY PortsAssumption DEF Leaving, Ready, Partner, Channels!Dest
  <2>2. QED
    BY <1>2, <2>1, XorCancel DEF Partner
<1>4. CASE p \in Ports /\ Ready(p)
  <2>1. p \in Leaving /\ Channels!Dest(p) = q
    BY <1>2, <1>4, ReadyHead DEF Leaving, Channels!Dest, Partner
  <2>2. Channels!Delivered(q, Leaving) = [addr |-> p, data |-> Head(fifo[p]).data]
    BY <1>3, <2>1 DEF Channels!Delivered
  <2>3. Pull(count, Push)[q] = Head(fifo[p]).data
    BY <1>4, PullFromPartner
  <2>4. Head(fifo[p]).data # Idle
    BY <1>4, ReadyHead, WordsAssumption
  <2>5. QED
    BY <1>1, <2>2, <2>3, <2>4 DEF Received
<1>5. CASE ~ (p \in Ports /\ Ready(p))
  <2>1. Pull(count, Push)[q] = Idle
    BY <1>5, PullFromPartner
  <2>2. ~ \E r \in Leaving : Channels!Dest(r) = q
    BY <1>3, <1>5 DEF Leaving
  <2>3. Channels!Delivered(q, Leaving) = [data |-> Idle]
    BY <2>2 DEF Channels!Delivered, Channels!Nothing
  <2>4. QED
    BY <1>1, <2>1, <2>3 DEF Received
<1>6. QED
  BY <1>4, <1>5

(* A bounded sequence of packets is a queue of the channels. *)
LEMMA FifoIsQueue ==
  ASSUME NEW s \in Seq(Packet), Len(s) <= Depth
  PROVE  s \in Channels!Queues
<1>1. Len(s) \in 0 .. Depth /\ s \in [1 .. Len(s) -> Packet]
  BY DepthAssumption
<1>2. QED
  BY <1>1 DEF Channels!Queues

LEMMA InitRefines == Init => Channels!Init
<1> SUFFICES ASSUME Init PROVE Channels!Init
  OBVIOUS
<1>1. Received = [q \in Ports |-> [data |-> Idle]]
  BY DEF Init, Received, Silent
<1>2. QED
  BY <1>1 DEF Init, Received, Channels!Init, Channels!Nothing

LEMMA NextRefines ==
  TypeOK /\ TypeOK' /\ [Next]_vars => [Channels!Next]_(Channels!vars)
<1> SUFFICES ASSUME TypeOK, TypeOK', [Next]_vars
             PROVE  [Channels!Next]_(Channels!vars)
  OBVIOUS
<1>1. CASE UNCHANGED vars
  BY <1>1 DEF vars, Channels!vars
<1>2. ASSUME NEW send \in [Ports -> Send], Edge(send),
             NEW leaving, leaving = Leaving
      PROVE  Channels!Transfer(leaving)
  <2>1. Channels!Compatible(leaving)
    BY <1>2, LeavingCompatible
  <2>2. Received' = [q \in Ports |-> Channels!Delivered(q, leaving)]
    <3>1. Received' = [q \in Ports |-> Received'[q]]
      BY DEF Received
    <3>2. QED
      BY <1>2, <3>1, EdgeDelivers
  <2>3. fifo' \in [Ports -> Channels!Queues]
    BY FifoIsQueue DEF TypeOK
  <2>4. ASSUME NEW p \in Ports
        PROVE  \/ fifo'[p] = Channels!Remaining(p, leaving)
               \/ /\ Len(fifo[p]) < Depth
                  /\ \E packet \in Packet :
                       fifo'[p] = Append(Channels!Remaining(p, leaving), packet)
    <3>1. fifo'[p] = ScFifo(fifo[p], Ready(p), send[p].data # Idle, send[p])
      BY <1>2 DEF Edge
    <3>2. send[p].data # Idle => send[p] \in Packet
      BY DEF Send, Silent
    <3>3. Channels!Remaining(p, leaving) = IF Ready(p) THEN Tail(fifo[p]) ELSE fifo[p]
      BY <1>2 DEF Channels!Remaining, Leaving
    <3>4. QED
      BY <3>1, <3>2, <3>3 DEF ScFifo
  <2>5. QED
    BY <2>1, <2>2, <2>3, <2>4 DEF Channels!Transfer, Received
<1>3. PICK leaving \in SUBSET Ports : leaving = Leaving
  BY DEF Leaving
<1>4. CASE Next
  <2>1. PICK send \in [Ports -> Send] : Edge(send)
    BY <1>4 DEF Next
  <2>2. Channels!Next
    BY <1>2, <1>3, <2>1 DEF Channels!Next
  <2>3. QED
    BY <2>2
<1>5. QED
  BY <1>1, <1>4

(* Whatever the ports send, the network behaves as one bounded first-in    *)
(* first-out channel per port that neither loses, duplicates, misdelivers  *)
(* nor reorders what it has queued (TdmaMinInterface with TdmaMinFabric).  *)
THEOREM NetworkImplementsChannels == Spec => ImplementsChannels
<1>1. Init => Channels!Init
  BY InitRefines
<1>2. TypeOK /\ TypeOK' /\ [Next]_vars => [Channels!Next]_(Channels!vars)
  BY NextRefines
<1>3. Spec => []TypeOK
  BY TypeCorrect
<1>4. QED
  BY <1>1, <1>2, <1>3, PTL DEF Spec, ImplementsChannels, Channels!Spec

----------------------------------------------------------------------------
(* A queue whose head has an address outside the network keeps all its     *)
(* packets over an edge, since no partner has that address.                *)
LEMMA FarHeadStays ==
  ASSUME TypeOK, [Next]_vars,
         NEW p \in Ports, fifo[p] # <<>>, Head(fifo[p]).addr \in Far
  PROVE  /\ fifo'[p] # <<>>
         /\ \A i \in 1 .. Len(fifo[p]) : fifo'[p][i] = fifo[p][i]
<1>1. fifo[p] \in Seq(Packet) /\ fifo[p] # <<>>
  BY DEF TypeOK
<1>2. CASE UNCHANGED vars
  BY <1>1, <1>2 DEF vars
<1>3. ASSUME NEW send \in [Ports -> Send], Edge(send)
      PROVE  \/ fifo'[p] = fifo[p]
             \/ \E packet \in Packet : fifo'[p] = Append(fifo[p], packet)
  <2>1. Partner(p) \in Terminal
    BY PortsAssumption, XorType DEF Partner, TypeOK
  <2>2. ~ Ready(p)
    BY <2>1, FarAssumption DEF Ready
  <2>3. send[p].data # Idle => send[p] \in Packet
    BY DEF Send, Silent
  <2>4. fifo'[p] = ScFifo(fifo[p], Ready(p), send[p].data # Idle, send[p])
    BY <1>3 DEF Edge
  <2>5. QED
    BY <2>2, <2>3, <2>4 DEF ScFifo
<1>4. CASE fifo'[p] = fifo[p]
  BY <1>1, <1>4
<1>5. ASSUME NEW packet \in Packet, fifo'[p] = Append(fifo[p], packet)
      PROVE  /\ fifo'[p] # <<>>
             /\ \A i \in 1 .. Len(fifo[p]) : fifo'[p][i] = fifo[p][i]
  BY <1>1, <1>5
<1>6. QED
  BY <1>2, <1>3, <1>4, <1>5 DEF Next

(* No traffic frees a port whose oldest packet names no port of the        *)
(* network (TdmaMinInterface addr, ready).                                 *)
THEOREM FarHeadsBlock == Spec => FarHeadBlocks
<1>1. TypeOK /\ [Next]_vars =>
        \A p \in Ports :
          fifo[p] # <<>> /\ Head(fifo[p]).addr \in Far
            => fifo'[p] # <<>> /\ \A i \in 1 .. Len(fifo[p]) : fifo'[p][i] = fifo[p][i]
  BY FarHeadStays
<1>2. Spec => []TypeOK
  BY TypeCorrect
<1>3. QED
  BY <1>1, <1>2, PTL DEF Spec, FarHeadBlocks

----------------------------------------------------------------------------
(* The counter counts: a vector of n bits stands for one of Slots[n]       *)
(* numbers, and Increment goes to the next one.                            *)

LEMMA SlotsDouble ==
  /\ \A n \in 0 .. Stages : Slots[n] \in Nat \ {0}
  /\ Slots[0] = 1
  /\ \A n \in 0 .. Stages - 1 : Slots[n + 1] = 2 * Slots[n]
<1> DEFINE Doubles(f, n) == f = [m \in 0 .. n |-> IF m = 0 THEN 1 ELSE 2 * f[m - 1]]
           T == {n \in Nat : \E f \in [0 .. n -> Nat \ {0}] : Doubles(f, n)}
<1>1. 0 \in T
  <2> DEFINE f == [m \in 0 .. 0 |-> 1]
  <2>1. f \in [0 .. 0 -> Nat \ {0}] /\ Doubles(f, 0)
    OBVIOUS
  <2> QED BY <2>1
<1>2. ASSUME NEW n \in Nat, n \in T PROVE n + 1 \in T
  <2>1. PICK f \in [0 .. n -> Nat \ {0}] : Doubles(f, n)
    BY <1>2
  <2> DEFINE g == [m \in 0 .. n + 1 |-> IF m = n + 1 THEN 2 * f[n] ELSE f[m]]
  <2>2. g \in [0 .. n + 1 -> Nat \ {0}]
    <3>1. f[n] \in Nat \ {0} /\ 2 * f[n] \in Nat \ {0}
      BY <2>1
    <3>2. \A m \in 0 .. n + 1 : m # n + 1 => m \in 0 .. n
      OBVIOUS
    <3> QED BY <2>1, <3>1, <3>2
  <2>3. ASSUME NEW m \in 0 .. n + 1
        PROVE  g[m] = IF m = 0 THEN 1 ELSE 2 * g[m - 1]
    <3>1. CASE m = n + 1
      BY <3>1
    <3>2. CASE m # n + 1
      <4>1. m \in 0 .. n /\ g[m] = f[m] /\ (m # 0 => g[m - 1] = f[m - 1])
        BY <3>2
      <4>2. f[m] = IF m = 0 THEN 1 ELSE 2 * f[m - 1]
        BY <2>1, <4>1
      <4> QED BY <4>1, <4>2
    <3> QED BY <3>1, <3>2
  <2>4. Doubles(g, n + 1)
    BY <2>3
  <2> HIDE DEF g, Doubles
  <2> QED BY <2>2, <2>4
<1>3. Stages \in T
  <2>1. \A n \in Nat : n \in T => n + 1 \in T BY <1>2
  <2> HIDE DEF T
  <2> QED BY <1>1, <2>1, SetInduction, StagesAssumption
<1> DEFINE Good(f) == f \in [0 .. Stages -> Nat \ {0}] /\ Doubles(f, Stages)
           D(f) == Doubles(f, Stages)
<1>4. PICK f : Doubles(f, Stages)
  BY <1>3
<1>5. Doubles(Slots, Stages)
  <2>1. Slots = CHOOSE g : D(g)
    BY DEF Slots
  <2>2. D(f)
    BY <1>4
  <2> HIDE DEF D
  <2>3. D(CHOOSE g : D(g))
    BY <2>2
  <2>4. D(Slots)
    BY <2>1, <2>3
  <2> QED BY <2>4 DEF D
<1>6. Slots[0] = 1 /\ \A n \in 0 .. Stages - 1 : Slots[n + 1] = 2 * Slots[n]
  <2>1. \A m \in 0 .. Stages : Slots[m] = IF m = 0 THEN 1 ELSE 2 * Slots[m - 1]
    BY <1>5
  <2>2. \A n \in 0 .. Stages - 1 : n + 1 \in 0 .. Stages /\ n + 1 # 0 /\ (n + 1) - 1 = n
    BY StagesAssumption
  <2> QED BY <2>1, <2>2, StagesAssumption
<1> DEFINE P == {n \in Nat : n <= Stages => Slots[n] \in Nat \ {0}}
<1>7. \A n \in Nat : n \in P => n + 1 \in P
  BY <1>6, StagesAssumption
<1>8. \A n \in Nat : n \in P
  <2>1. 0 \in P BY <1>6
  <2> HIDE DEF P
  <2> QED BY <2>1, <1>7, SetInduction
<1> QED BY <1>6, <1>8, StagesAssumption

(* A numbering of the low n bits: Increment adds one, wrapping to zero from *)
(* the last number, which is that of the vectors with all n bits set; and  *)
(* vectors with the same number have the same low n bits.                  *)
Numbers(n, v) ==
  /\ v \in [Terminal -> 0 .. Slots[n] - 1]
  /\ \A c \in Terminal :
       /\ v[Increment(c)] = IF v[c] = Slots[n] - 1 THEN 0 ELSE v[c] + 1
       /\ v[c] = Slots[n] - 1 <=> \A k \in 0 .. n - 1 : c[k]
       /\ \A d \in Terminal : v[c] = v[d] => \A k \in 0 .. n - 1 : c[k] = d[k]

LEMMA MoreNumbers ==
  ASSUME NEW n \in 0 .. Stages - 1, NEW v, Numbers(n, v)
  PROVE  Numbers(n + 1, [c \in Terminal |-> v[c] + (IF c[n] THEN Slots[n] ELSE 0)])
<1> DEFINE u == [c \in Terminal |-> v[c] + (IF c[n] THEN Slots[n] ELSE 0)]
<1>1. /\ Slots[n] \in Nat \ {0} /\ Slots[n + 1] = Slots[n] + Slots[n]
      /\ n \in Nat /\ n \in Bit /\ (n + 1) - 1 = n
  <2>1. n \in 0 .. Stages BY StagesAssumption
  <2>2. Slots[n] \in Nat \ {0} /\ Slots[n + 1] = 2 * Slots[n]
    BY <2>1, SlotsDouble
  <2> QED BY <2>2, StagesAssumption DEF Bit
<1>2. ASSUME NEW c \in Terminal
      PROVE  /\ c[n] \in BOOLEAN /\ v[c] \in 0 .. Slots[n] - 1
             /\ Increment(c) \in Terminal
             /\ u[c] = IF c[n] THEN v[c] + Slots[n] ELSE v[c]
  <2>1. c[n] \in BOOLEAN
    BY <1>1 DEF Terminal
  <2>2. v[c] \in 0 .. Slots[n] - 1
    BY DEF Numbers
  <2> QED BY <1>1, <2>1, <2>2, IncrementType
<1>3. ASSUME NEW c \in Terminal
      PROVE  /\ Increment(c)[n] = (c[n] # (v[c] = Slots[n] - 1))
             /\ v[Increment(c)] = IF v[c] = Slots[n] - 1 THEN 0 ELSE v[c] + 1
  BY <1>1 DEF Numbers, Increment
<1>4. u \in [Terminal -> 0 .. Slots[n + 1] - 1]
  <2>1. \A c \in Terminal : u[c] \in 0 .. Slots[n + 1] - 1
    BY <1>1, <1>2
  <2> QED BY <2>1
<1>5. ASSUME NEW c \in Terminal
      PROVE  u[Increment(c)] = IF u[c] = Slots[n + 1] - 1 THEN 0 ELSE u[c] + 1
  <2>1. u[Increment(c)] = IF Increment(c)[n] THEN v[Increment(c)] + Slots[n] ELSE v[Increment(c)]
    BY <1>2
  <2>2. CASE c[n] /\ v[c] = Slots[n] - 1
    <3>1. ~ Increment(c)[n] BY <1>3, <2>2
    <3> QED BY <1>1, <1>2, <1>3, <2>1, <2>2, <3>1
  <2>3. CASE c[n] /\ v[c] # Slots[n] - 1
    <3>1. Increment(c)[n] BY <1>3, <2>3
    <3> QED BY <1>1, <1>2, <1>3, <2>1, <2>3, <3>1
  <2>4. CASE ~ c[n] /\ v[c] = Slots[n] - 1
    <3>1. Increment(c)[n] BY <1>3, <2>4
    <3> QED BY <1>1, <1>2, <1>3, <2>1, <2>4, <3>1
  <2>5. CASE ~ c[n] /\ v[c] # Slots[n] - 1
    <3>1. ~ Increment(c)[n] BY <1>2, <1>3, <2>5
    <3> QED BY <1>1, <1>2, <1>3, <2>1, <2>5, <3>1
  <2> QED BY <1>2, <2>2, <2>3, <2>4, <2>5
<1>6. \A k : k \in 0 .. (n + 1) - 1 <=> k \in 0 .. n - 1 \/ k = n
  BY <1>1
<1>7. ASSUME NEW c \in Terminal
      PROVE  u[c] = Slots[n + 1] - 1 <=> \A k \in 0 .. (n + 1) - 1 : c[k]
  <2>1. u[c] = Slots[n + 1] - 1 <=> c[n] /\ v[c] = Slots[n] - 1
    BY <1>1, <1>2
  <2>2. v[c] = Slots[n] - 1 <=> \A k \in 0 .. n - 1 : c[k]
    BY DEF Numbers
  <2> QED BY <1>6, <2>1, <2>2
<1>8. ASSUME NEW c \in Terminal, NEW d \in Terminal, u[c] = u[d]
      PROVE  \A k \in 0 .. (n + 1) - 1 : c[k] = d[k]
  <2>1. c[n] = d[n] /\ v[c] = v[d]
    BY <1>1, <1>2, <1>8
  <2>2. \A k \in 0 .. n - 1 : c[k] = d[k]
    BY <2>1 DEF Numbers
  <2> QED BY <1>6, <2>1, <2>2
<1> HIDE DEF u
<1>9. Numbers(n + 1, u)
  BY <1>4, <1>5, <1>7, <1>8 DEF Numbers
<1> QED BY <1>9 DEF u

LEMMA NumbersExist == \E v : Numbers(Stages, v)
<1> DEFINE T == {n \in Nat : n <= Stages => \E v : Numbers(n, v)}
<1>1. 0 \in T
  <2> DEFINE v == [c \in Terminal |-> 0]
  <2>1. \A c \in Terminal : Increment(c) \in Terminal
    BY IncrementType
  <2>2. Numbers(0, v)
    BY <2>1, SlotsDouble DEF Numbers
  <2> QED BY <2>2
<1>2. ASSUME NEW n \in Nat, n \in T PROVE n + 1 \in T
  <2> SUFFICES ASSUME n + 1 <= Stages PROVE \E v : Numbers(n + 1, v)
    OBVIOUS
  <2>1. n \in 0 .. Stages - 1
    BY StagesAssumption
  <2>2. PICK v : Numbers(n, v)
    BY <1>2, <2>1, StagesAssumption
  <2> QED BY <2>1, <2>2, MoreNumbers
<1>3. \A n \in Nat : n \in T
  <2>1. \A n \in Nat : n \in T => n + 1 \in T BY <1>2
  <2> HIDE DEF T
  <2> QED BY <1>1, <2>1, SetInduction
<1> QED BY <1>3, StagesAssumption

Number == CHOOSE v : Numbers(Stages, v)

LEMMA NumberCounts ==
  /\ Frame \in Nat \ {0}
  /\ \A c \in Terminal :
       /\ Number[c] \in 0 .. Frame - 1
       /\ Number[Increment(c)] = IF Number[c] = Frame - 1 THEN 0 ELSE Number[c] + 1
       /\ \A d \in Terminal : Number[c] = Number[d] => c = d
<1>1. Numbers(Stages, Number)
  BY NumbersExist DEF Number
<1>2. ASSUME NEW c \in Terminal, NEW d \in Terminal, \A k \in 0 .. Stages - 1 : c[k] = d[k]
      PROVE  c = d
  <2>1. c = [k \in Bit |-> c[k]] /\ d = [k \in Bit |-> d[k]]
    BY DEF Terminal
  <2> QED BY <1>2, <2>1 DEF Bit
<1>3. Frame \in Nat \ {0}
  BY SlotsDouble, StagesAssumption DEF Frame
<1> QED BY <1>1, <1>2, <1>3 DEF Numbers, Frame

(* The edges until the counter shows c. *)
Until(c) == IF Number[c] >= Number[count] THEN Number[c] - Number[count]
                                         ELSE (Number[c] + Frame) - Number[count]

LEMMA UntilCountsDown ==
  ASSUME count \in Terminal, count' = Increment(count), NEW c \in Terminal
  PROVE  /\ Until(c) \in 0 .. Frame - 1 /\ Until(c)' \in 0 .. Frame - 1
         /\ Until(c) = 0 <=> c = count
         /\ c # count => Until(c)' = Until(c) - 1
<1>1. Number[c] = Number[count] <=> c = count
  BY NumberCounts
<1>2. /\ Frame \in Nat \ {0}
      /\ Number[c] \in 0 .. Frame - 1 /\ Number[count] \in 0 .. Frame - 1
      /\ Number[count'] = IF Number[count] = Frame - 1 THEN 0 ELSE Number[count] + 1
  BY NumberCounts
<1>3. Until(c)' = IF Number[c] >= Number[count'] THEN Number[c] - Number[count']
                                           ELSE (Number[c] + Frame) - Number[count']
  BY DEF Until
<1> QED BY <1>1, <1>2, <1>3 DEF Until

----------------------------------------------------------------------------
(* A packet in place i of a queue f still has the edges until its turn     *)
(* comes, one round for each packet ahead of it.                           *)
InTime(p, f, d) ==
  /\ f \in Seq(Packet) /\ d \in Seq(Nat) /\ Len(d) = Len(f)
  /\ \A i \in 1 .. Len(f) :
       (\A j \in 1 .. i : f[j].addr \in Terminal)
         => d[i] > Until(Xor(p, f[1].addr)) + (i - 1) * Frame

LatencyInv ==
  /\ TypeOK
  /\ DOMAIN due = Ports
  /\ \A p \in Ports : IF wait_state[p] THEN due[p] = <<Frame + 1>>
                                      ELSE InTime(p, fifo[p], due[p])

LEMMA CountDownType ==
  ASSUME NEW d \in Seq(Nat)
  PROVE  /\ CountDown(d) \in Seq(Nat) /\ Len(CountDown(d)) = Len(d)
         /\ \A i \in 1 .. Len(d) : CountDown(d)[i] = IF d[i] > 0 THEN d[i] - 1 ELSE 0
BY DEF CountDown

(* What stays in the queue of port p over an edge is still in time. *)
LEMMA KeptInTime ==
  ASSUME TypeOK, count' = Increment(count), NEW p \in Ports, ~ wait_state[p],
         NEW f, f = fifo[p], NEW d, InTime(p, f, d),
         NEW kept, kept = IF Ready(p) THEN Tail(f) ELSE f,
         NEW rest, rest = CountDown(IF Ready(p) THEN Tail(d) ELSE d)
  PROVE  InTime(p, kept, rest)'
<1>1. f \in Seq(Packet) /\ d \in Seq(Nat) /\ Len(d) = Len(f) /\ (Ready(p) => f # <<>>)
  BY DEF InTime, Ready, Empty
<1>2. p \in Terminal /\ count \in Terminal /\ Frame \in Nat \ {0}
  BY PortsAssumption, NumberCounts DEF TypeOK
<1>3. \A a \in Terminal : /\ Until(a) \in 0 .. Frame - 1 /\ Until(a)' \in 0 .. Frame - 1
                          /\ a # count => Until(a) # 0 /\ Until(a)' = Until(a) - 1
  BY <1>2, UntilCountsDown
<1>4. CASE ~ Ready(p)
  <2>1. kept = f /\ rest = CountDown(d) /\ rest \in Seq(Nat) /\ Len(rest) = Len(d)
    BY <1>1, <1>4, CountDownType
  <2>2. ASSUME NEW i \in 1 .. Len(f), \A j \in 1 .. i : f[j].addr \in Terminal
        PROVE  rest[i] > Until(Xor(p, f[1].addr))' + (i - 1) * Frame
    <3>1. i \in Nat /\ 1 \in 1 .. i /\ f # <<>> /\ f[1] = Head(f)
      BY <1>1
    <3>2. f[1].addr \in Terminal
      BY <2>2, <3>1
    <3>3. Head(f).addr # Xor(p, count)
      BY <1>4, <3>1 DEF Ready, Empty, Partner
    <3> DEFINE a == Xor(p, f[1].addr)
    <3>4. a \in Terminal /\ a # count
      <4>1. a \in Terminal BY <1>2, <3>2, XorType
      <4>2. Xor(p, Xor(p, f[1].addr)) = f[1].addr
        BY <1>2, <3>2, XorCancel, XorSwaps, XorType
      <4> QED BY <3>1, <3>3, <4>1, <4>2
    <3>5. d[i] > Until(a) + (i - 1) * Frame
      BY <2>2 DEF InTime
    <3>6. (i - 1) * Frame \in Nat
      BY <1>2, <3>1
    <3>7. Until(a) \in Nat /\ Until(a)' = Until(a) - 1 /\ d[i] \in Nat
      <4>1. Until(a) \in 0 .. Frame - 1 /\ Until(a)' = Until(a) - 1
        BY <1>3, <3>4
      <4>2. d[i] \in Nat
        BY <1>1, <2>2
      <4> HIDE DEF a
      <4> QED BY <1>2, <4>1, <4>2
    <3>8. rest[i] = d[i] - 1
      <4>1. d[i] > 0 BY <3>5, <3>6, <3>7
      <4> QED BY <1>1, <2>1, <4>1, CountDownType
    <3> HIDE DEF a
    <3>9. rest[i] > Until(a)' + (i - 1) * Frame
      BY <3>5, <3>6, <3>7, <3>8
    <3> QED BY <3>9 DEF a
  <2> QED BY <1>1, <2>1, <2>2 DEF InTime
<1>5. CASE Ready(p)
  <2>1. /\ f # <<>> /\ d # <<>> /\ Tail(f) \in Seq(Packet) /\ Tail(d) \in Seq(Nat)
        /\ Len(Tail(f)) = Len(f) - 1 /\ Len(Tail(d)) = Len(d) - 1
        /\ \A i \in 1 .. Len(f) - 1 : Tail(f)[i] = f[i + 1] /\ Tail(d)[i] = d[i + 1]
    BY <1>1, <1>5
  <2>2. /\ kept = Tail(f) /\ rest = CountDown(Tail(d))
        /\ rest \in Seq(Nat) /\ Len(rest) = Len(Tail(d))
        /\ \A i \in 1 .. Len(Tail(d)) : rest[i] = IF Tail(d)[i] > 0 THEN Tail(d)[i] - 1 ELSE 0
    BY <1>5, <2>1, CountDownType
  <2>3. Head(f).addr = Xor(p, count) /\ f[1] = Head(f) /\ f[1].addr \in Terminal
    BY <1>1, <1>2, <1>5, XorType DEF Ready, Partner
  <2>4. ASSUME NEW i \in 1 .. Len(Tail(f)), \A j \in 1 .. i : Tail(f)[j].addr \in Terminal
        PROVE  rest[i] > Until(Xor(p, Tail(f)[1].addr))' + (i - 1) * Frame
    <3>1. i \in Nat /\ i + 1 \in 1 .. Len(f) /\ 1 \in 1 .. i /\ i \in 1 .. Len(Tail(d))
          /\ i \in 1 .. Len(f) - 1
      BY <1>1, <2>1
    <3>2. \A j \in 1 .. i + 1 : f[j].addr \in Terminal
      <4> SUFFICES ASSUME NEW j \in 1 .. i + 1, j # 1 PROVE f[j].addr \in Terminal
        BY <2>3
      <4>1. j - 1 \in 1 .. i /\ j - 1 \in 1 .. Len(f) - 1 /\ (j - 1) + 1 = j
        BY <3>1, <1>1
      <4> QED BY <2>1, <2>4, <4>1
    <3>3. d[i + 1] > Until(Xor(p, f[1].addr)) + ((i + 1) - 1) * Frame
      BY <3>1, <3>2 DEF InTime
    <3>4. Xor(p, f[1].addr) \in Terminal /\ Xor(p, Tail(f)[1].addr) \in Terminal
      BY <1>2, <2>3, <2>4, <3>1, XorType
    <3>5. ((i + 1) - 1) * Frame = (i - 1) * Frame + Frame /\ (i - 1) * Frame \in Nat
      BY <1>2, <3>1
    <3>6. Until(Xor(p, f[1].addr)) \in Nat /\ d[i + 1] \in Nat /\ Tail(d)[i] = d[i + 1]
      <4>1. i + 1 \in 1 .. Len(d) BY <1>1, <3>1
      <4>2. d[i + 1] \in Nat /\ Tail(d)[i] = d[i + 1] BY <1>1, <2>1, <3>1, <4>1
      <4>3. Until(Xor(p, f[1].addr)) \in 0 .. Frame - 1 BY <1>3, <3>4
      <4>4. \A u \in 0 .. Frame - 1 : u \in Nat BY <1>2
      <4> QED BY <4>2, <4>3, <4>4
    <3>7. d[i + 1] > (i - 1) * Frame + Frame
      BY <1>2, <3>3, <3>5, <3>6
    <3>8. rest[i] = d[i + 1] - 1
      <4>1. d[i + 1] > 0 BY <1>2, <3>5, <3>6, <3>7
      <4> QED BY <2>2, <3>1, <3>6, <4>1
    <3>9. PICK u \in 0 .. Frame - 1 : u = Until(Xor(p, Tail(f)[1].addr))'
      BY <1>3, <3>4
    <3> QED BY <1>2, <3>5, <3>6, <3>7, <3>8, <3>9
  <2> QED BY <2>1, <2>2, <2>4, <1>1 DEF InTime
<1> QED BY <1>4, <1>5

(* A packet that the queue does not show yet has a round left after that.  *)
LEMMA WaitedInTime ==
  ASSUME TypeOK, count' = Increment(count), NEW p \in Ports, wait_state[p],
         NEW f, f = fifo[p], NEW rest, rest = CountDown(<<Frame + 1>>)
  PROVE  InTime(p, f, rest)'
<1>1. f \in Seq(Packet) /\ Len(f) = 1 /\ Frame \in Nat \ {0}
  BY NumberCounts DEF TypeOK
<1>2. rest \in Seq(Nat) /\ Len(rest) = 1 /\ rest[1] = Frame
  <2>1. <<Frame + 1>> \in Seq(Nat) /\ Len(<<Frame + 1>>) = 1 /\ <<Frame + 1>>[1] = Frame + 1
    BY <1>1
  <2> DEFINE d == <<Frame + 1>>
  <2> HIDE DEF d
  <2>2. /\ CountDown(d) \in Seq(Nat) /\ Len(CountDown(d)) = 1
        /\ CountDown(d)[1] = IF d[1] > 0 THEN d[1] - 1 ELSE 0
    <3>1. d \in Seq(Nat) /\ Len(d) = 1
      BY <2>1 DEF d
    <3> QED BY <3>1, CountDownType
  <2>3. d[1] = Frame + 1 /\ rest = CountDown(d)
    BY <2>1 DEF d
  <2> QED BY <1>1, <2>2, <2>3
<1>3. ASSUME NEW i \in 1 .. Len(f), \A j \in 1 .. i : f[j].addr \in Terminal
      PROVE  rest[i] > Until(Xor(p, f[1].addr))' + (i - 1) * Frame
  <2>1. i = 1 /\ f[1].addr \in Terminal /\ p \in Terminal /\ count \in Terminal
    BY <1>1, <1>3, PortsAssumption DEF TypeOK
  <2>2. PICK u \in 0 .. Frame - 1 : u = Until(Xor(p, f[1].addr))'
    BY <2>1, XorType, UntilCountsDown
  <2>3. (i - 1) * Frame = 0
    BY <1>1, <2>1
  <2> QED BY <1>1, <1>2, <2>1, <2>2, <2>3
<1> QED BY <1>1, <1>2, <1>3 DEF InTime

LEMMA LatencyStep == LatencyInv /\ [LatencyNext]_latencyVars => LatencyInv'
<1> SUFFICES ASSUME LatencyInv, [LatencyNext]_latencyVars PROVE LatencyInv'
  OBVIOUS
<1>1. TypeOK'
  BY NextTypeOK DEF LatencyInv, LatencyNext, LatencyEdge, Next, latencyVars, vars
<1>2. CASE UNCHANGED latencyVars
  <2>1. count' = count /\ fifo' = fifo /\ wait_state' = wait_state /\ due' = due
    BY <1>2 DEF latencyVars, vars
  <2> QED BY <1>1, <2>1 DEF LatencyInv, InTime, Until
<1>3. ASSUME NEW send \in [Ports -> Send], LatencyEdge(send), NEW p \in Ports
      PROVE  IF wait_state'[p] THEN due'[p] = <<Frame + 1>>
                               ELSE InTime(p, fifo[p], due[p])'
  <2>1. PICK kept : kept = IF Ready(p) THEN Tail(fifo[p]) ELSE fifo[p]
    OBVIOUS
  <2>2. PICK rest : rest = CountDown(IF Ready(p) THEN Tail(due[p]) ELSE due[p])
    OBVIOUS
  <2>3. TypeOK /\ count' = Increment(count)
    BY <1>3 DEF LatencyInv, LatencyEdge, Edge
  <2>4. InTime(p, kept, rest)'
    <3>1. CASE wait_state[p]
      <4>1. due[p] = <<Frame + 1>>
        BY <3>1 DEF LatencyInv
      <4>2. ~ Ready(p)
        BY <3>1 DEF Ready, Empty
      <4>3. kept = fifo[p] /\ rest = CountDown(<<Frame + 1>>)
        BY <2>1, <2>2, <4>1, <4>2
      <4> QED BY <2>3, <3>1, <4>3, WaitedInTime, Zenon
    <3>2. CASE ~ wait_state[p]
      <4>1. PICK f : f = fifo[p] OBVIOUS
      <4>2. PICK d : d = due[p] OBVIOUS
      <4>3. InTime(p, f, d) BY <3>2, <4>1, <4>2 DEF LatencyInv
      <4>4. /\ kept = IF Ready(p) THEN Tail(f) ELSE f
            /\ rest = CountDown(IF Ready(p) THEN Tail(d) ELSE d)
        BY <2>1, <2>2, <4>1, <4>2
      <4> QED BY <2>3, <3>2, <4>1, <4>3, <4>4, KeptInTime, Zenon
    <3> QED BY <3>1, <3>2
  <2>5. /\ kept \in Seq(Packet) /\ rest \in Seq(Nat) /\ Len(rest) = Len(kept)
        /\ \A i \in 1 .. Len(kept) :
             (\A j \in 1 .. i : kept[j].addr \in Terminal)
               => rest[i] > Until(Xor(p, kept[1].addr))' + (i - 1) * Frame
    BY <2>4 DEF InTime
  <2>6. \/ fifo'[p] = kept /\ due'[p] = rest /\ ~ wait_state'[p]
        \/ \E packet \in Packet :
             /\ fifo'[p] = Append(kept, packet)
             /\ wait_state'[p] = (Len(kept) = 0)
             /\ due'[p] = Append(rest, IF rest = <<>> THEN Frame + 1
                                                    ELSE (Len(rest) + 1) * Frame)
    <3>1. send[p].data # Idle => send[p] \in Packet
      BY DEF Send, Silent
    <3>2. /\ fifo'[p] = ScFifo(fifo[p], Ready(p), send[p].data # Idle, send[p])
          /\ wait_state'[p] = WaitState(fifo[p], Ready(p), send[p].data # Idle)
      BY <1>3 DEF LatencyEdge, Edge
    <3>3. due'[p] = IF send[p].data # Idle /\ Len(fifo[p]) < Depth
                    THEN Append(rest, IF rest = <<>> THEN Frame + 1
                                                    ELSE (Len(rest) + 1) * Frame)
                    ELSE rest
      BY <1>3, <2>2 DEF LatencyEdge
    <3>4. Len(fifo[p]) = (IF Ready(p) THEN 1 ELSE 0) <=> Len(kept) = 0
      BY <2>1, <2>3 DEF TypeOK, Ready, Empty
    <3> QED BY <2>1, <3>1, <3>2, <3>3, <3>4 DEF ScFifo, WaitState
  <2>7. CASE fifo'[p] = kept /\ due'[p] = rest /\ ~ wait_state'[p]
    BY <2>5, <2>7 DEF InTime
  <2>8. CASE Len(kept) = 0 /\ wait_state'[p] /\ due'[p] = Append(rest, Frame + 1)
    <3>1. rest = <<>>
      BY <2>5, <2>8
    <3> QED BY <2>8, <3>1
  <2>9. ASSUME NEW packet \in Packet, fifo'[p] = Append(kept, packet),
               due'[p] = Append(rest, (Len(rest) + 1) * Frame), Len(kept) # 0
        PROVE  InTime(p, fifo[p], due[p])'
    <3> DEFINE n == Len(kept)
               f == Append(kept, packet)
               d == Append(rest, (n + 1) * Frame)
    <3>0. Frame \in Nat \ {0} /\ n \in Nat /\ (n + 1) * Frame \in Nat /\ n * Frame \in Nat
          /\ (n + 1) * Frame = n * Frame + Frame
      <4>1. Frame \in Nat \ {0} /\ n \in Nat
        BY <2>5, NumberCounts
      <4> HIDE DEF n
      <4> QED BY <4>1
    <3>1. /\ f \in Seq(Packet) /\ d \in Seq(Nat) /\ Len(f) = n + 1 /\ Len(d) = n + 1
          /\ f[n + 1] = packet /\ d[n + 1] = (n + 1) * Frame
          /\ \A i \in 1 .. n : f[i] = kept[i] /\ d[i] = rest[i]
      BY <2>5, <3>0
    <3>2. fifo'[p] = f /\ due'[p] = d
      BY <2>5, <2>9
    <3> HIDE DEF f, d
    <3>3. ASSUME NEW i \in 1 .. n + 1, \A j \in 1 .. i : f[j].addr \in Terminal
          PROVE  d[i] > Until(Xor(p, f[1].addr))' + (i - 1) * Frame
      <4>1. CASE i \in 1 .. n
        <5>1. 1 \in 1 .. n /\ \A j \in 1 .. i : j \in 1 .. n
          BY <3>0, <4>1
        <5>2. \A j \in 1 .. i : kept[j].addr \in Terminal
          BY <3>1, <3>3, <5>1
        <5>3. rest[i] > Until(Xor(p, kept[1].addr))' + (i - 1) * Frame
          BY <2>5, <4>1, <5>2
        <5> QED BY <3>1, <4>1, <5>1, <5>3
      <4>2. CASE i = n + 1
        <5>1. f[1].addr \in Terminal /\ p \in Terminal /\ count \in Terminal
          BY <3>0, <3>3, <4>2, PortsAssumption, <2>3 DEF TypeOK
        <5>2. Xor(p, f[1].addr) \in Terminal
          BY <5>1, XorType
        <5>3. PICK u \in 0 .. Frame - 1 : u = Until(Xor(p, f[1].addr))'
          BY <2>3, <5>1, <5>2, UntilCountsDown
        <5>4. (i - 1) * Frame = n * Frame /\ d[i] = n * Frame + Frame
          BY <3>0, <3>1, <4>2
        <5> QED BY <3>0, <5>3, <5>4
      <4> QED BY <3>0, <4>1, <4>2
    <3> QED BY <3>1, <3>2, <3>3 DEF InTime
  <2>10. rest = <<>> <=> Len(kept) = 0
    BY <2>5
  <2> QED BY <2>6, <2>7, <2>8, <2>9, <2>10
<1>4. CASE LatencyNext
  <2>1. DOMAIN due' = Ports
    BY <1>4 DEF LatencyNext, LatencyEdge
  <2> QED BY <1>1, <1>3, <1>4, <2>1 DEF LatencyInv, LatencyNext
<1> QED BY <1>2, <1>4

(* No packet with only routable packets ahead of it waits longer than one  *)
(* round of the slot counter for each place in its queue, or one edge more *)
(* if it came into an empty queue, which shows it an edge late, whatever   *)
(* the other ports send (TdmaMinSlots count, TdmaMinInterface ready/ack,   *)
(* a_dpfifo wait_state).                                                   *)
THEOREM LatencyIsBounded == LatencySpec => []BoundedLatency
<1>1. LatencyInit => LatencyInv
  <2> SUFFICES ASSUME LatencyInit PROVE LatencyInv
    OBVIOUS
  <2>1. TypeOK
    BY InitTypeOK DEF LatencyInit
  <2> QED BY <2>1 DEF LatencyInit, Init, LatencyInv, InTime
<1>2. LatencyInv => BoundedLatency
  <2> SUFFICES ASSUME LatencyInv, NEW p \in Ports, NEW i \in DOMAIN fifo[p],
                      \A j \in 1 .. i : fifo[p][j].addr \in Terminal
               PROVE  due[p][i] > 0
    BY DEF BoundedLatency
  <2>0. CASE wait_state[p]
    <3>1. Len(fifo[p]) = 1 /\ due[p] = <<Frame + 1>> /\ Frame \in Nat \ {0}
      BY <2>0, NumberCounts DEF LatencyInv, TypeOK
    <3>2. i = 1
      BY <3>1 DEF LatencyInv, TypeOK
    <3> QED BY <3>1, <3>2
  <2> SUFFICES ASSUME ~ wait_state[p] PROVE due[p][i] > 0
    BY <2>0
  <2>1. fifo[p] \in Seq(Packet) /\ i \in 1 .. Len(fifo[p]) /\ due[p] \in Seq(Nat)
        /\ Len(due[p]) = Len(fifo[p])
    BY DEF LatencyInv, InTime
  <2>2. due[p][i] > Until(Xor(p, fifo[p][1].addr)) + (i - 1) * Frame
    BY <2>1 DEF LatencyInv, InTime
  <2>3. i \in Nat \ {0} /\ (i - 1) * Frame \in Nat /\ due[p][i] \in Nat
    BY <2>1, NumberCounts
  <2>4. Until(Xor(p, fifo[p][1].addr)) \in Nat
    <3>1. p \in Terminal /\ fifo[p][1].addr \in Terminal /\ count \in Terminal
      BY <2>3, PortsAssumption DEF LatencyInv, TypeOK
    <3>2. Xor(p, fifo[p][1].addr) \in Terminal
      BY <3>1, XorType
    <3> QED BY <3>1, <3>2, NumberCounts DEF Until
  <2> QED BY <2>2, <2>3, <2>4
<1> QED BY <1>1, <1>2, LatencyStep, PTL DEF LatencySpec
----------------------------------------------------------------------------
(* Eight terminals, named by their numbers as the generics name them.      *)
LEMMA TerminalBits ==
  ASSUME Stages = 3, NEW n \in 0 .. 7
  PROVE  /\ ToUnsigned(n, 3) \in Terminal
         /\ ToUnsigned(n, 3)[0] = (n % 2 = 1)
         /\ ToUnsigned(n, 3)[1] = ((n \div 2) % 2 = 1)
         /\ ToUnsigned(n, 3)[2] = ((n \div 4) % 2 = 1)
<1>1. ToUnsigned(n, 3) = [k \in 0 .. 2 |-> (n \div 2^k) % 2 = 1] /\ Bit = 0 .. 2
  BY DEF ToUnsigned, Bit
<1>2. 2^0 = 1 /\ 2^1 = 2 /\ 2^2 = 4 /\ n \div 1 = n
  OBVIOUS
<1>3. \A k \in 0 .. 2 : ((n \div 2^k) % 2 = 1) \in BOOLEAN
  OBVIOUS
<1>4. ToUnsigned(n, 3) \in Terminal
  BY <1>1, <1>3 DEF Terminal
<1>5. /\ ToUnsigned(n, 3)[0] = ((n \div 2^0) % 2 = 1)
      /\ ToUnsigned(n, 3)[1] = ((n \div 2^1) % 2 = 1)
      /\ ToUnsigned(n, 3)[2] = ((n \div 2^2) % 2 = 1)
  BY <1>1
<1> QED BY <1>2, <1>4, <1>5

LEMMA SameBits ==
  ASSUME Stages = 3, NEW a \in Terminal, NEW b \in Terminal,
         a[0] = b[0], a[1] = b[1], a[2] = b[2]
  PROVE  a = b
<1>1. Bit = 0 .. 2 /\ \A k \in 0 .. 2 : k = 0 \/ k = 1 \/ k = 2
  BY DEF Bit
<1> QED BY <1>1 DEF Terminal

LEMMA TerminalsDiffer ==
  ASSUME Stages = 3, NEW m \in 0 .. 7, NEW n \in 0 .. 7, ToUnsigned(m, 3) = ToUnsigned(n, 3)
  PROVE  m = n
<1>1. /\ (m % 2 = 1) = (n % 2 = 1)
      /\ ((m \div 2) % 2 = 1) = ((n \div 2) % 2 = 1)
      /\ ((m \div 4) % 2 = 1) = ((n \div 4) % 2 = 1)
  BY TerminalBits, Zenon
<1> QED BY <1>1

(* The slot after slot n. *)
LEMMA NextTerminal ==
  ASSUME Stages = 3, NEW n \in 0 .. 7, NEW m \in 0 .. 7, m = IF n = 7 THEN 0 ELSE n + 1
  PROVE  Increment(ToUnsigned(n, 3)) = ToUnsigned(m, 3)
<1> DEFINE c == ToUnsigned(n, 3)
           d == Increment(c)
           e == ToUnsigned(m, 3)
<1>1. /\ c \in Terminal
      /\ c[0] = (n % 2 = 1) /\ c[1] = ((n \div 2) % 2 = 1) /\ c[2] = ((n \div 4) % 2 = 1)
  BY TerminalBits
<1>2. /\ e \in Terminal
      /\ e[0] = (m % 2 = 1) /\ e[1] = ((m \div 2) % 2 = 1) /\ e[2] = ((m \div 4) % 2 = 1)
  BY TerminalBits
<1> HIDE DEF c, e
<1>3. d \in Terminal
  BY <1>1, IncrementType
<1>4. d = [k \in 0 .. 2 |-> c[k] # (\A j \in 0 .. k - 1 : c[j])]
  BY DEF Increment, Bit
<1> HIDE DEF d
<1>5. /\ 0 \in 0 .. 2 /\ 1 \in 0 .. 2 /\ 2 \in 0 .. 2
      /\ \A j : ~ (j \in 0 .. 0 - 1)
      /\ \A j : j \in 0 .. 1 - 1 <=> j = 0
      /\ \A j : j \in 0 .. 2 - 1 <=> j = 0 \/ j = 1
  OBVIOUS
<1>6. c[0] \in BOOLEAN /\ c[1] \in BOOLEAN /\ c[2] \in BOOLEAN
  BY <1>1 DEF Terminal, Bit
<1>7. d[0] = (c[0] # TRUE)
  BY <1>4, <1>5
<1>8. d[1] = (c[1] # c[0])
  BY <1>4, <1>5, <1>6
<1>9. d[2] = (c[2] # (c[0] /\ c[1]))
  <2>1. d[2] = (c[2] # (\A j \in 0 .. 2 - 1 : c[j]))
    BY <1>4, <1>5
  <2>2. (\A j \in 0 .. 2 - 1 : c[j]) <=> c[0] /\ c[1]
    BY <1>5
  <2> QED BY <1>6, <2>1, <2>2
<1>10. d[0] = e[0] /\ d[1] = e[1] /\ d[2] = e[2]
  <2>1. n = 0 \/ n = 1 \/ n = 2 \/ n = 3 \/ n = 4 \/ n = 5 \/ n = 6 \/ n = 7
    OBVIOUS
  <2>2. /\ (m % 2 = 1) = ~ (n % 2 = 1)
        /\ ((m \div 2) % 2 = 1) = (((n \div 2) % 2 = 1) # (n % 2 = 1))
        /\ ((m \div 4) % 2 = 1)
             = (((n \div 4) % 2 = 1) # (n % 2 = 1 /\ (n \div 2) % 2 = 1))
    BY <2>1
  <2> QED BY <2>2, <1>1, <1>2, <1>6, <1>7, <1>8, <1>9
<1>11. d = e
  BY <1>2, <1>3, <1>10, SameBits
<1> QED BY <1>11 DEF c, d, e

(* Terminals a and b are joined in slot a xor b, and in no other. *)
LEMMA JoinedInSlot ==
  ASSUME Stages = 3, NEW slot \in Terminal, NEW a \in 0 .. 7, NEW b \in 0 .. 7, NEW c \in 0 .. 7,
         (a + b + c) % 2 = 0, ((a \div 2) + (b \div 2) + (c \div 2)) % 2 = 0,
         ((a \div 4) + (b \div 4) + (c \div 4)) % 2 = 0
  PROVE  Xor(ToUnsigned(a, 3), slot) = ToUnsigned(b, 3) <=> slot = ToUnsigned(c, 3)
<1> DEFINE x == ToUnsigned(a, 3)
           y == ToUnsigned(b, 3)
           z == ToUnsigned(c, 3)
<1>1. /\ x \in Terminal /\ y \in Terminal /\ z \in Terminal
      /\ x[0] = (a % 2 = 1) /\ x[1] = ((a \div 2) % 2 = 1) /\ x[2] = ((a \div 4) % 2 = 1)
      /\ y[0] = (b % 2 = 1) /\ y[1] = ((b \div 2) % 2 = 1) /\ y[2] = ((b \div 4) % 2 = 1)
      /\ z[0] = (c % 2 = 1) /\ z[1] = ((c \div 2) % 2 = 1) /\ z[2] = ((c \div 4) % 2 = 1)
  BY TerminalBits
<1> HIDE DEF x, y, z
<1>2. z[0] = (x[0] # y[0])
  BY <1>1
<1>3. z[1] = (x[1] # y[1])
  <2>1. PICK i \in Nat, j \in Nat, k \in Nat : i = a \div 2 /\ j = b \div 2 /\ k = c \div 2
    OBVIOUS
  <2> QED BY <1>1, <2>1
<1>4. z[2] = (x[2] # y[2])
  <2>1. PICK i \in Nat, j \in Nat, k \in Nat : i = a \div 4 /\ j = b \div 4 /\ k = c \div 4
    OBVIOUS
  <2> QED BY <1>1, <2>1
<1>5. Bit = 0 .. 2
  BY DEF Bit
<1>6. \A k \in {0, 1, 2} : slot[k] \in BOOLEAN /\ x[k] \in BOOLEAN /\ y[k] \in BOOLEAN
                           /\ Xor(x, slot)[k] = (x[k] # slot[k])
  BY <1>1, <1>5 DEF Terminal, Xor
<1>7. Xor(x, slot) \in Terminal
  BY <1>1, XorType
<1>8. Xor(x, slot) = y <=> \A k \in {0, 1, 2} : Xor(x, slot)[k] = y[k]
  BY <1>1, <1>7, SameBits
<1>9. slot = z <=> \A k \in {0, 1, 2} : slot[k] = z[k]
  BY <1>1, SameBits
<1>10. \A k \in {0, 1, 2} : z[k] = (x[k] # y[k])
  BY <1>2, <1>3, <1>4
<1>11. ASSUME NEW k \in {0, 1, 2} PROVE Xor(x, slot)[k] = y[k] <=> slot[k] = z[k]
  BY <1>6, <1>10
<1> QED BY <1>8, <1>9, <1>11 DEF x, y, z
=============================================================================
