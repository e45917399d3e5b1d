------------------------------ MODULE ReCOPISA ------------------------------
(***************************************************************************)
(* ReCOP as a programmer sees it: one step is one whole instruction. The   *)
(* instructions and their modes are those of opcodes.vhd; what they do is  *)
(* what the control unit makes the data path do. ReCOP implements this     *)
(* specification, see ReCOPRefinement.                                     *)
(***************************************************************************)
EXTENDS ReCOPInstructions, Sequences

CONSTANTS PcSize, DmSize

VARIABLES
  prog,   \* The program memory.
  arch    \* Program counter, registers, zero flag, DPCR and data memory.

ir == LET word1 == prog[arch.pc]
      IN  Decode(word1, IF Fat(Decode(word1, 0).am)
                        THEN prog[(arch.pc + 1) % PcSize] ELSE 0)
rx == arch.regs[ir.rx]
rz == arch.regs[ir.rz]

(* The modes of an instruction that opcodes.vhd or the control unit know.  *)
(* STR and JMP in other modes use what an earlier instruction left in the  *)
(* control unit.                                                           *)
Known == /\ ir.opcode = str => ir.am # am_inherent
         /\ ir.opcode = jmp => ir.am \in {am_immediate, am_register}

Calculates == ir.opcode \in {andr, orr, addr, subr, subvr}

Calculated ==
  LET op1 == IF ir.am = am_immediate \/ ir.opcode \in {subr, subvr}
             THEN ir.operand ELSE rx
      op2 == IF ir.opcode = subvr
                \/ (ir.opcode # subr /\ ir.am = am_immediate) THEN rx ELSE rz
  IN  CASE ir.opcode = andr -> And(op2, op1)
        [] ir.opcode = orr  -> Or(op2, op1)
        [] ir.opcode = addr -> (op2 + op1) % 2^16
        [] OTHER            -> (op2 - op1) % 2^16

Next_pc ==
  LET jumps == \/ ir.opcode = jmp
               \/ ir.opcode = present /\ rz = 0
               \/ ir.opcode = sz /\ arch.z
      two   == ir.opcode \in {present, sz} \/ Fat(ir.am)
  IN  (IF jumps THEN IF ir.opcode = jmp /\ ir.am = am_register THEN rx ELSE ir.operand
       ELSE arch.pc + (IF two THEN 2 ELSE 1)) % PcSize

(* What LDR may load. In inherent mode, which is what a word of zeros is,  *)
(* an earlier instruction has selected it: a cell of the memory or nothing.*)
Loadable ==
  IF ir.am = am_immediate THEN {ir.operand}
  ELSE IF ir.am = am_inherent THEN {0} \cup {arch.cell[a] : a \in 0 .. DmSize - 1}
  ELSE {arch.cell[(IF ir.am = am_register THEN rx ELSE ir.operand) % DmSize]}

Registers(loaded) ==
  IF Calculates THEN [arch.regs EXCEPT ![ir.rz] = Calculated]
  ELSE IF ir.opcode = ldr THEN [arch.regs EXCEPT ![ir.rz] = loaded]
  ELSE IF ir.opcode = lsip THEN [arch.regs EXCEPT ![ir.rz] = 0]
  ELSE arch.regs

(* The cell that the instruction stores in, and the values it stores one   *)
(* after the other: STRPC ends with the address of the next instruction.   *)
Address == (IF ir.opcode = str /\ ir.am # am_direct THEN rz ELSE ir.operand) % DmSize
Stores  == IF ir.opcode = strpc THEN <<arch.pc, Next_pc>>
           ELSE IF ir.opcode = str
           THEN <<IF ir.am = am_immediate THEN ir.operand ELSE rx>>
           ELSE <<>>

Execute ==
  /\ Known
  /\ \E loaded \in Loadable :
       arch' = [pc   |-> Next_pc,
                regs |-> Registers(loaded),
                z    |-> IF Calculates THEN Calculated = 0
                         ELSE arch.z /\ ir.opcode # clfz,
                dpcr |-> IF ir.opcode = datacall THEN <<rx, arch.regs[7]>>
                         ELSE IF ir.opcode = datacall2 THEN <<rx, ir.operand>>
                         ELSE arch.dpcr,
                cell |-> IF Stores = <<>> THEN arch.cell
                         ELSE [arch.cell EXCEPT ![Address] = Stores[Len(Stores)]]]
  /\ UNCHANGED prog

(* A reset between two instructions or within one: the data memory is not  *)
(* reset, and the store of the interrupted instruction may have happened,  *)
(* that of STRPC in part.                                                  *)
Reset ==
  /\ \E k \in 0 .. Len(Stores) :
       arch' = [pc |-> 0, regs |-> [r \in 0 .. 15 |-> 0], z |-> FALSE,
                dpcr |-> <<0, 0>>,
                cell |-> IF k = 0 THEN arch.cell
                         ELSE [arch.cell EXCEPT ![Address] = Stores[k]]]
  /\ UNCHANGED prog

Undocumented == ~Known /\ UNCHANGED prog   \* any effect

Init == arch = [pc |-> 0, regs |-> [r \in 0 .. 15 |-> 0], z |-> FALSE,
                dpcr |-> <<0, 0>>, cell |-> [a \in 0 .. DmSize - 1 |-> 0]]

Next == Execute \/ Reset \/ Undocumented

Spec == Init /\ [][Next]_<<prog, arch>>
=============================================================================
