---------------------------- MODULE ReCOPControl ----------------------------
(***************************************************************************)
(* The control unit of ReCOP: a state machine of four states, whose state, *)
(* next state and outputs are all registers. The output that acknowledges  *)
(* a data call and the one that writes SOP go to registers nothing reads.  *)
(***************************************************************************)
EXTENDS ReCOPInstructions

VARIABLE cu   \* The registers of the control unit.

ControlReset ==
  [state |-> "T0", next_state |-> "T1", pc_write |-> FALSE, pc_mode |-> "incr_1",
   dm_sel_addr |-> "value", dm_sel_in |-> "value", dm_write |-> FALSE,
   ir_fetch_start |-> FALSE, rf_sel_in |-> "value", rf_write |-> FALSE,
   alu_operation |-> "idle", alu_op1 |-> "value", alu_op2 |-> "rz",
   dpcr_sel |-> "value", dpcr_write |-> FALSE, alu_clr_z |-> FALSE]

(* What every edge does before the case on the state: the state follows,   *)
(* and the flags that no state sets below fall.                            *)
Defaults ==
  [cu EXCEPT !.state = cu.next_state, !.pc_write = FALSE, !.dpcr_write = FALSE,
             !.alu_clr_z = FALSE, !.ir_fetch_start = FALSE]

(* Mutant: the register write that T3 starts lasts until the next T3. *)
T0StillWrites ==
  /\ cu.state = "T0"
  /\ cu' = [Defaults EXCEPT !.next_state = "T1", !.ir_fetch_start = TRUE,
                            !.dm_write = FALSE, !.alu_operation = "idle"]
T0 ==
  /\ cu.state = "T0"
  /\ cu' = [Defaults EXCEPT !.next_state = "T1", !.ir_fetch_start = TRUE,
                            !.dm_write = FALSE, !.alu_operation = "idle",
                            !.rf_write = FALSE]

(* An instruction that does not jump steps over its words. A jump in a     *)
(* mode other than immediate and register leaves the mode as it is.        *)
PcMode(ir, mode) ==
  IF ir.opcode = jmp
  THEN IF ir.am = am_immediate THEN "value"
       ELSE IF ir.am = am_register THEN "rx" ELSE mode
  ELSE IF ir.opcode \in {present, sz} THEN "value"
  ELSE IF Fat(ir.am) THEN "incr_2" ELSE "incr_1"

T1Hasty(ir, fetched) ==   \* mutant: T1 does not wait for the second word
  /\ cu.state = "T1"
  /\ cu' = [Defaults EXCEPT !.pc_mode = PcMode(ir, @),
              !.next_state = IF fetched \/ cu.next_state = "T1" THEN "T2" ELSE @]
T1(ir, fetched) ==
  /\ cu.state = "T1"
  /\ cu' = IF fetched
           THEN [Defaults EXCEPT !.next_state = "T2",
                                 !.pc_mode = PcMode(ir, cu.pc_mode)]
           ELSE Defaults

AluOperation(opcode) ==
  IF opcode \in {subr, subvr} THEN "sub"
  ELSE IF opcode = andr THEN "and"
  ELSE IF opcode = orr THEN "or"
  ELSE IF opcode = addr THEN "add" ELSE "idle"

(* The first operand is set in the same way for instructions that leave    *)
(* the ALU idle; it has no effect then.                                    *)
T2(ir) ==
  LET value  == ir.am = am_immediate
      reg    == ir.am = am_register
      direct == ir.am = am_direct
      Of(opcodes) == ir.opcode \in opcodes
  IN
  /\ cu.state = "T2"
  /\ cu' = [Defaults EXCEPT
       !.next_state    = "T3",
       !.alu_operation = AluOperation(ir.opcode),
       !.alu_op1       = IF Of({subr, subvr}) \/ value THEN "value" ELSE "rx",
       !.alu_op2       = IF Of({subvr}) \/ (Of({andr, orr, addr}) /\ value)
                         THEN "rx"
                         ELSE IF Of({subr, andr, orr, addr}) THEN "rz" ELSE @,
       !.rf_sel_in     = IF Of({andr, orr, addr, subr, subvr}) THEN "alu"
                         ELSE IF Of({ldr}) /\ value THEN "value"
                         ELSE IF Of({ldr}) /\ (reg \/ direct) THEN "dm" ELSE @,
       !.dm_sel_addr   = IF Of({ldr}) /\ reg THEN "rx"
                         ELSE IF Of({str}) /\ (value \/ reg) THEN "rz"
                         ELSE IF Of({strpc}) \/ (Of({ldr, str}) /\ direct)
                         THEN "value" ELSE @,
       !.dm_sel_in     = IF Of({strpc}) THEN "pc"
                         ELSE IF Of({str}) /\ value THEN "value"
                         ELSE IF Of({str}) /\ (reg \/ direct) THEN "rx" ELSE @,
       !.pc_mode       = IF Of({jmp, present, sz}) THEN PcMode(ir, @) ELSE @,
       !.dpcr_sel      = IF Of({datacall}) THEN "r7"
                         ELSE IF Of({datacall2}) THEN "value" ELSE @]

(* PRESENT jumps if Rz is zero and SZ if the last result was. *)
T3(ir, rz_empty, z_flag) ==
  LET Of(opcodes) == ir.opcode \in opcodes
  IN
  /\ cu.state = "T3"
  /\ cu' = [Defaults EXCEPT
       !.next_state    = "T0",
       !.pc_write      = TRUE,
       !.alu_operation = "hold",
       !.rf_write      = IF Of({andr, orr, addr, subr, subvr, ldr, lsip})
                         THEN TRUE ELSE @,
       !.rf_sel_in     = IF Of({lsip}) THEN "sip" ELSE @,
       !.dm_write      = IF Of({str, strpc}) THEN TRUE ELSE @,
       !.dpcr_write    = Of({datacall, datacall2}),
       !.alu_clr_z     = Of({clfz}),
       !.pc_mode       = IF (Of({present}) /\ ~rz_empty) \/ (Of({sz}) /\ ~z_flag)
                         THEN "incr_2" ELSE @]

Control(ir, fetched, rz_empty, z_flag) ==
  T0 \/ T1(ir, fetched) \/ T2(ir) \/ T3(ir, rz_empty, z_flag)
=============================================================================
