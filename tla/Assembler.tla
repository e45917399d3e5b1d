----------------------------- MODULE Assembler -----------------------------
(***************************************************************************)
(* asm_to_mif.py: from the lines of a program to the words of the program  *)
(* memory. A line has a label ("" if none), a mnemonic ("" if none) and    *)
(* operands. An operand is a register Rn, an immediate #n, an address $n   *)
(* or $label, or a word without any of these signs.                        *)
(***************************************************************************)
EXTENDS ReCOPInstructions, Sequences, SequencesExt, FiniteSets

Reg(n)   == [kind |-> "register", n |-> n, label |-> ""]
Imm(n)   == [kind |-> "immediate", n |-> n, label |-> ""]
Addr(n)  == [kind |-> "direct", n |-> n, label |-> ""]
Lab(l)   == [kind |-> "direct", n |-> 0, label |-> l]
Bare(l)  == [kind |-> "bare", n |-> 0, label |-> l]
Line(l, mnemonic, ops) == [label |-> l, mnemonic |-> mnemonic, ops |-> ops]
I(mnemonic, ops)       == Line("", mnemonic, ops)

opcodes ==
  [LDR |-> 0, STR |-> 2, JMP |-> 24, PRESENT |-> 28, AND |-> 8, OR |-> 12,
   ADD |-> 56, SUB |-> 4, SUBV |-> 3, CLFZ |-> 16, CER |-> 60, CEOT |-> 62,
   SEOT |-> 63, NOOP |-> 52, SZ |-> 20, LER |-> 54, SSVOP |-> 59, SSOP |-> 58,
   LSIP |-> 55, DATACALL |-> 40, DATACALL2 |-> 41, MAX |-> 30, STRPC |-> 29,
   SRES |-> 42]

address_modes == [inherent |-> 0, immediate |-> 1, direct |-> 2, register |-> 3]

IsInstruction(line) == line.mnemonic \notin {"", "END", "ENDPROG"}

detect_addr_mode(op) == IF op.kind = "bare" THEN "direct" ELSE op.kind

parse_register(op) == IF op.kind = "register" THEN op.n ELSE 0

(* The number of instructions of the lines before line i, not of words. *)
LabelAt(lines, i) == Cardinality({j \in 1 .. i - 1 : IsInstruction(lines[j])})

(* Of every label, the place of the last line that bears it. An unknown    *)
(* label is 0, and so is a word without a sign, which loses its first      *)
(* letter before it is looked up.                                          *)
Lookup(lines, op) ==
  LET at == {i \in DOMAIN lines : lines[i].label = op.label}
  IN  IF op.label = "" THEN op.n
      ELSE IF op.kind = "bare" \/ at = {} THEN 0
      ELSE LabelAt(lines, CHOOSE i \in at : \A j \in at : j <= i)

Value(lines, op) ==
  CASE detect_addr_mode(op) = "immediate" -> op.n
    [] detect_addr_mode(op) = "direct"    -> Lookup(lines, op)
    [] detect_addr_mode(op) = "register"  -> 0

(* The lines that end the assembler with a message: a jump to anything but *)
(* a register, for which it reads a variable it has not set, and three     *)
(* operands of an instruction that has two.                                *)
Rejected(line) ==
  \/ IsInstruction(line) /\ line.mnemonic \notin DOMAIN opcodes
  \/ line.mnemonic = "JMP" /\ Len(line.ops) = 1 /\ line.ops[1].kind # "register"
  \/ Len(line.ops) = 3 /\ line.mnemonic \notin {"ADD", "SUB", "SUBV", "AND", "OR"}

(* Addressing mode, Rz, Rx and operand of a line. A single register is Rz  *)
(* but in a jump, of three operands the second is not looked at, and of    *)
(* more than three none.                                                   *)
Fields(lines, line) ==
  LET ops == line.ops
      n   == Len(ops)
      am  == IF n \notin 1 .. 3 \/ line.mnemonic = "NOOP" THEN "inherent"
             ELSE detect_addr_mode(ops[n])
      moved == \/ line.mnemonic = "JMP" /\ n = 1
               \/ line.mnemonic = "STR" /\ n = 2 /\ am = "direct"
  IN  [am |-> address_modes[am],
       rz |-> IF am = "inherent" \/ moved THEN 0 ELSE parse_register(ops[1]),
       rx |-> IF moved THEN parse_register(ops[1])
              ELSE IF n \in {2, 3} /\ am = "register" THEN parse_register(ops[n])
              ELSE 0,
       operand |-> IF am = "inherent" THEN 0 ELSE Value(lines, ops[n])]

word1Swapped(f, opcode) ==   \* mutant: the registers change places
  (f.am * 64 + opcode) * 256 + f.rx * 16 + f.rz
word1(f, opcode) == (f.am * 64 + opcode) * 256 + f.rz * 16 + f.rx

assemble_instruction(lines, line) ==
  LET f == Fields(lines, line)
      first == word1(f, opcodes[line.mnemonic])
  IN  IF Fat(f.am) THEN <<first, f.operand>> ELSE <<first>>

WordsOf(lines, line) ==
  IF IsInstruction(line) THEN assemble_instruction(lines, line) ELSE <<>>

(* No words for a program with a line that ends the assembler. *)
assemble(lines) ==
  IF \E i \in DOMAIN lines : Rejected(lines[i]) THEN <<>>
  ELSE FlattenSeq([i \in DOMAIN lines |-> WordsOf(lines, lines[i])])

(* What a memory of size words holds, loaded with the file of depth words: *)
(* ones behind the program, and zeros behind the file.                     *)
write_mif(words, depth, size) ==
  [a \in 0 .. size - 1 |-> IF a < Len(words) THEN words[a + 1]
                           ELSE IF a < depth THEN 2^16 - 1 ELSE 0]
============================================================================
