------------------------------- MODULE ReCOP -------------------------------
(***************************************************************************)
(* ReCOP as the top level sees it: the processor, the process that resets  *)
(* it and drives its send port with DPCR or with what the keys ask for.    *)
(* One step is one clock edge.                                             *)
(***************************************************************************)
EXTENDS ReCOPDatapath

CONSTANTS
  PowerUpClocks,   \* Edges in reset after power-up, 100 in the code.
  Switches         \* Settings of the ten switches.

VARIABLES
  reset_counter,   \* Edges since power-up.
  reset,           \* The reset of the processor.
  sendSignal       \* The send port.
top  == <<reset_counter, reset, sendSignal>>
vars == <<cu, prog, path, top>>

(* A word on the send port: bits 31..28, 23..16 and 15..0 of the data. *)
Silent == [addr |-> 0, type |-> 0, high |-> 0, low |-> 0]

PacketSwapped(word) ==   \* mutant: type and address change places
  [addr |-> word[1] \div 2^12, type |-> (word[1] \div 256) % 16,
   high |-> word[1] % 256, low |-> word[2]]
Packet(word) ==
  [addr |-> (word[1] \div 256) % 16, type |-> word[1] \div 2^12,
   high |-> word[1] % 256, low |-> word[2]]

Empty(word) == word[1] \div 2^12 = 0

(* What the lowest of the pressed keys 1 to 3 asks for. *)
KeyPacket(pressed, sw) ==
  IF 1 \in pressed
  THEN [addr |-> 1, type |-> 9, high |-> 0, low |-> sw % 16]
  ELSE IF 2 \in pressed
  THEN [addr |-> 2, type |-> 9, high |-> 128, low |-> sw % 1024]
  ELSE IF 3 \in pressed
  THEN [addr |-> 3, type |-> 10, high |-> 0, low |-> sw % 8]
  ELSE Silent

(* Mutant: keys come before DPCR. *)
SendKeysFirst(pressed, sw) ==
  IF pressed # {} THEN KeyPacket(pressed, sw)
  ELSE IF Empty(dpcr) THEN Silent ELSE Packet(dpcr)
Send(pressed, sw) ==
  IF Empty(dpcr) THEN KeyPacket(pressed, sw) ELSE Packet(dpcr)

(* The edges after power-up and those with key 0 pressed end in reset; the *)
(* first of the two leave the send port alone. At an edge that begins a    *)
(* reset the memories still see what the registers held.                   *)
Supervise(pressed, sw) ==
  IF reset_counter < PowerUpClocks
  THEN /\ reset' = TRUE
       /\ reset_counter' = reset_counter + 1
       /\ UNCHANGED sendSignal
  ELSE /\ UNCHANGED reset_counter
       /\ reset' = (0 \in pressed)
       /\ sendSignal' = IF 0 \in pressed THEN Silent ELSE Send(pressed, sw)

Init ==
  /\ cu = ControlReset /\ fetch = FetchReset /\ ir = Decode(0, 0)
  /\ pm = [port |-> 0, inside |-> 0]
  /\ pc = [out |-> 0, prev_write |-> FALSE]
  /\ regs = [r \in 0 .. 15 |-> 0]
  /\ alu = [result |-> 0, z_flag |-> FALSE]
  /\ dm = [cell |-> [a \in 0 .. DmSize - 1 |-> 0], q |-> 0]
  /\ dpcr = <<0, 0>>
  /\ reset_counter = 0 /\ reset = FALSE /\ sendSignal = Silent

Running(pressed, sw) ==
  /\ Supervise(pressed, sw) /\ ~reset' /\ ~reset /\ Step /\ UNCHANGED prog

Resetting(pressed, sw) ==
  /\ Supervise(pressed, sw) /\ (reset' \/ reset) /\ Reset /\ UNCHANGED prog

Clock(pressed, sw) == Running(pressed, sw) \/ Resetting(pressed, sw)
============================================================================
