-------------------------------- MODULE Nios --------------------------------
(***************************************************************************)
(* The program of the Nios: it polls the receive register of its port,     *)
(* shows the largest count so far, and acknowledges by writing the address *)
(* and then the data register of its send port, which keep their values.   *)
(*                                                                         *)
(* The registers are read and written over a bus, so that any number of    *)
(* clocks may pass between two accesses. Key 0 resets it at any time.      *)
(***************************************************************************)
EXTENDS Naturals

CONSTANT NoWord   \* The data word of a send port that drives zeros.

VARIABLES
  access,      \* the next access of the loop: "read", "addr" or "data"
  maxCorr,     \* the count that is shown
  sendSignal   \* the two send registers
niosVars == <<access, maxCorr, sendSignal>>

PdAddr == 4

----------------------------------------------------------------------------
NiosInit ==
  /\ access = "read"
  /\ maxCorr = 0
  /\ sendSignal = [addr |-> 0, data |-> NoWord]

(* A read that finds no peak leaves everything as it was. *)
NiosRead(word) ==
  /\ access = "read" /\ word.kind = "peak"
  /\ maxCorr' = IF word.count > maxCorr THEN word.count ELSE maxCorr
  /\ access' = "addr"
  /\ UNCHANGED sendSignal

NiosWriteAddrLast ==   \* mutant: the data register first
  /\ access = "addr"
  /\ sendSignal' = [sendSignal EXCEPT !.data = [kind |-> "count_read"]]
  /\ access' = "data"
  /\ UNCHANGED maxCorr
NiosWriteAddr ==
  /\ access = "addr"
  /\ sendSignal' = [sendSignal EXCEPT !.addr = PdAddr]
  /\ access' = "data"
  /\ UNCHANGED maxCorr

NiosWriteData ==
  /\ access = "data"
  /\ sendSignal' = [sendSignal EXCEPT !.data = [kind |-> "count_read"]]
  /\ access' = "read"
  /\ UNCHANGED maxCorr

NiosReset ==
  /\ access' = "read"
  /\ maxCorr' = 0
  /\ sendSignal' = [addr |-> 0, data |-> NoWord]

NoAccess == UNCHANGED niosVars

NiosEdge(word) ==
  NiosRead(word) \/ NiosWriteAddr \/ NiosWriteData \/ NiosReset \/ NoAccess
=============================================================================
