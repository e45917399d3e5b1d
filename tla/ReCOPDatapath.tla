--------------------------- MODULE ReCOPDatapath ---------------------------
(***************************************************************************)
(* The data path of ReCOP: fetch machine, instruction register, program    *)
(* counter, register file, ALU, data memory and DPCR. Both memories        *)
(* register their address: what they put out is the cell addressed at the  *)
(* edge before. The ALU holds its result in a latch.                       *)
(***************************************************************************)
EXTENDS ReCOPControl

CONSTANTS
  PcSize,   \* Values of the program counter, 2^15 in the code.
  DmSize    \* Cells of the data memory, 2^12 in the code.

(* The program counter is stored and loaded as a word. *)
ASSUME SizeAssumption == PcSize \in 1 .. 2^16 /\ DmSize \in Nat \ {0}

VARIABLES
  prog,    \* The program memory; never written.
  pm,      \* Address registers of the program memory: the port and inside.
  fetch,   \* The fetch machine.
  ir,      \* The instruction register.
  pc,      \* The program counter, and the write flag at the last edge.
  regs,    \* The registers.
  alu,     \* The latched result and the zero flag.
  dm,      \* The data memory: its cells and what it puts out.
  dpcr     \* DPCR, a pair of words.
path == <<pm, fetch, ir, pc, regs, alu, dm, dpcr>>

FetchReset == [state |-> "IDLE", next_state |-> "IDLE", inst_1 |-> 0,
               inst_2 |-> 0, fetched |-> FALSE]

----------------------------------------------------------------------------
rx == regs[ir.rx]
rz == regs[ir.rz]

(* Mutants of the program counter: without its width; it stops at its end. *)
PlusUnbounded(address, n) == address + n
PlusStops(address, n) == IF address + n < PcSize THEN address + n ELSE address

Plus(address, n) == (address + n) % PcSize

(* The machine follows its next state one edge later: each of its states   *)
(* lasts two edges, in which the memory has the time to answer.            *)
FetchNext ==
  LET q    == prog[pm.inside]
      base == [fetch EXCEPT !.state = fetch.next_state, !.fetched = FALSE]
  IN
  \/ /\ fetch.state = "IDLE"
     /\ fetch' = IF cu.ir_fetch_start THEN [base EXCEPT !.next_state = "FETCH_1"]
                                      ELSE base
     /\ pm' = [pm EXCEPT !.inside = pm.port]
  \/ /\ fetch.state = "FETCH_1"
     /\ fetch' = [base EXCEPT !.next_state = "FETCH_2"]
     /\ pm' = [port |-> pc.out, inside |-> pm.port]
  \/ /\ fetch.state = "FETCH_2" /\ Fat(Decode(q, 0).am)
     /\ fetch' = [base EXCEPT !.inst_1 = q, !.next_state = "FETCH_3"]
     /\ pm' = [port |-> Plus(pc.out, 1), inside |-> pm.port]
  \/ /\ fetch.state = "FETCH_2" /\ ~Fat(Decode(q, 0).am)
     /\ fetch' = [base EXCEPT !.inst_1 = q, !.inst_2 = 0, !.fetched = TRUE,
                              !.next_state = "IDLE"]
     /\ pm' = [pm EXCEPT !.inside = pm.port]
  \/ /\ fetch.state = "FETCH_3"
     /\ fetch' = [base EXCEPT !.inst_2 = q, !.fetched = TRUE,
                              !.next_state = "IDLE"]
     /\ pm' = [pm EXCEPT !.inside = pm.port]

(* The counter moves only at the edge that sees the write flag rise. *)
PcNext ==
  LET target ==
        IF cu.pc_mode = "rx" THEN rx % PcSize
        ELSE IF cu.pc_mode = "value" THEN ir.operand % PcSize
        ELSE IF cu.pc_mode = "incr_1" THEN Plus(pc.out, 1)
        ELSE Plus(pc.out, 2)
  IN  pc' = [out |-> IF cu.pc_write /\ ~pc.prev_write THEN target ELSE pc.out,
             prev_write |-> cu.pc_write]

(* The result of the ALU; while it holds, the one of the edge before. *)
Result ==
  LET op1 == IF cu.alu_op1 = "rx" THEN rx ELSE ir.operand
      op2 == IF cu.alu_op2 = "rx" THEN rx ELSE rz
  IN  CASE cu.alu_operation = "add"  -> (op2 + op1) % 2^16
        [] cu.alu_operation = "sub"  -> (op2 - op1) % 2^16
        [] cu.alu_operation = "and"  -> And(op2, op1)
        [] cu.alu_operation = "or"   -> Or(op2, op1)
        [] cu.alu_operation = "hold" -> alu.result
        [] cu.alu_operation = "idle" -> 0

AluNext ==
  alu' = [result |-> Result,
          z_flag |-> IF cu.alu_clr_z THEN FALSE
                     ELSE IF cu.alu_operation \in {"add", "sub", "and", "or"}
                     THEN Result = 0 ELSE alu.z_flag]

(* The input of SIP_HOLD is not connected. *)
RegsNext ==
  LET data_input_z == CASE cu.rf_sel_in = "value" -> ir.operand
                        [] cu.rf_sel_in = "alu"   -> Result
                        [] cu.rf_sel_in = "sip"   -> 0
                        [] cu.rf_sel_in = "dm"    -> dm.q
  IN  regs' = IF cu.rf_write THEN [regs EXCEPT ![ir.rz] = data_input_z] ELSE regs

DmNext ==
  LET address == (CASE cu.dm_sel_addr = "value" -> ir.operand
                    [] cu.dm_sel_addr = "rx"    -> rx
                    [] cu.dm_sel_addr = "rz"    -> rz) % DmSize
      data == CASE cu.dm_sel_in = "value" -> ir.operand
                [] cu.dm_sel_in = "pc"    -> pc.out
                [] cu.dm_sel_in = "rx"    -> rx
      cell == IF cu.dm_write THEN [dm.cell EXCEPT ![address] = data] ELSE dm.cell
  IN  dm' = [cell |-> cell, q |-> cell[address]]

DpcrNextKeeps ==   \* mutant: a call of zeros does not empty DPCR
  dpcr' = IF cu.dpcr_write /\ rx # 0
          THEN <<rx, IF cu.dpcr_sel = "r7" THEN regs[7] ELSE ir.operand>>
          ELSE dpcr
DpcrNext ==
  dpcr' = IF cu.dpcr_write
          THEN <<rx, IF cu.dpcr_sel = "r7" THEN regs[7] ELSE ir.operand>>
          ELSE dpcr

(* A clock edge of control unit and data path out of reset. *)
Step ==
  /\ Control(ir, fetch.fetched, rz = 0, alu.z_flag)
  /\ FetchNext /\ PcNext /\ AluNext /\ RegsNext /\ DmNext /\ DpcrNext
  /\ ir' = Decode(fetch.inst_1, fetch.inst_2)

(* A clock edge that begins or ends in reset. The data memory and the      *)
(* address register inside the program memory have no reset.               *)
Reset ==
  /\ DmNext
  /\ cu' = ControlReset /\ fetch' = FetchReset /\ ir' = Decode(0, 0)
  /\ pm' = [port |-> 0, inside |-> pm.port]
  /\ pc' = [out |-> 0, prev_write |-> FALSE]
  /\ regs' = [r \in 0 .. 15 |-> 0]
  /\ alu' = [result |-> 0, z_flag |-> FALSE]
  /\ dpcr' = <<0, 0>>
============================================================================
