--------------------------- MODULE TdmaMinFabric ---------------------------
(***************************************************************************)
(* The switching fabric of the TDMA-MIN network-on-chip: a multistage      *)
(* interconnection network of `Stages' columns of two-by-two switches.     *)
(* Every switch of a column is set by the same bit of the time slot.       *)
(*                                                                         *)
(* A terminal, a slot and the part of an address that the network looks at *)
(* are std_logic_vectors of `Stages' bits in the code, and functions from  *)
(* bit positions to BOOLEAN here, so that what is said of the fabric can   *)
(* be proved for every number of stages.                                   *)
(***************************************************************************)
EXTENDS Naturals

CONSTANTS
  Stages,   \* Columns of switches, the generic `stages'.
  Ports,    \* Terminals that an interface is connected to, 0 .. ports-1.
  Idle      \* The data word "00...0": nothing is being pushed.

Bit == 0 .. Stages - 1

Terminal == [Bit -> BOOLEAN]

ASSUME StagesAssumption == Stages \in Nat \ {0}
ASSUME PortsAssumption  == Ports \subseteq Terminal

Xor(a, b) == [k \in Bit |-> a[k] # b[k]]

----------------------------------------------------------------------------
(* The two outputs of a switch with setting s and inputs a and b. *)
SwitchX(s, a, b) == IF ~s THEN a ELSE b
SwitchYStuck(s, a, b) == b   \* mutant: the second output is not switched
SwitchY(s, a, b) == IF ~s THEN b ELSE a

(* The input terminals of the switch that drives terminal t. Switch number *)
(* `index' drives 2*index and 2*index+1, so that its number is t without   *)
(* its lowest bit; it is fed by `index' and by index + terminals/2.        *)
Input(t, half) == [k \in Bit |-> IF k = Stages - 1 THEN half ELSE t[k + 1]]

Stage(s, i) ==
  [t \in Terminal |->
     IF ~t[0] THEN SwitchX(s, i[Input(t, FALSE)], i[Input(t, TRUE)])
              ELSE SwitchY(s, i[Input(t, FALSE)], i[Input(t, TRUE)])]

(* What enters the first column: terminals with no interface push zeros. *)
Entering(push) == [t \in Terminal |-> IF t \in Ports THEN push[t] ELSE Idle]

(* links[n] are the wires between the columns; links[Stages] enters the    *)
(* fabric and links[0] leaves it.                                          *)
Links(slot, push) ==
  LET links[n \in 0 .. Stages] ==
        IF n = Stages THEN Entering(push) ELSE Stage(slot[n], links[n + 1])
  IN  links

Pull(slot, push) == [q \in Ports |-> Links(slot, push)[0][q]]

----------------------------------------------------------------------------
(* What the fabric is for: in each slot it is the permutation that joins   *)
(* every terminal q to the terminal q xor slot.                            *)
Circuit(slot, push) ==
  [q \in Ports |-> IF Xor(q, slot) \in Ports THEN push[Xor(q, slot)] ELSE Idle]
============================================================================
