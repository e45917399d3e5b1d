-------------------------- MODULE ReCOPRefinement --------------------------
(***************************************************************************)
(* ReCOP running an assembled program, with a history variable: what the   *)
(* registers that a programmer sees held when the last instruction ended,  *)
(* which is when the control unit is in T0. It is the state of the         *)
(* specification by instructions that ReCOP implements.                    *)
(***************************************************************************)
EXTENDS ReCOP, Assembler

CONSTANTS
  Sources,   \* Programs, as sequences of lines.
  MifDepth,  \* Words of the assembler's file, 2^12 in the code.
  Presses    \* Sets of keys that are pressed at an edge.

ASSUME MifAssumption == MifDepth \in Nat

(* What the assembler writes fits the memory's words of sixteen bits. *)
ASSUME SourcesAssumption == \A s \in Sources : assemble(s) \in Seq(Word)

VARIABLES
  source,   \* The program that runs.
  arch,     \* What a programmer sees.
  copies    \* Words sent for DPCR since the program began.
allVars == <<vars, source, arch, copies>>

Visible == [pc |-> pc.out, regs |-> regs, z |-> alu.z_flag, dpcr |-> dpcr,
            cell |-> dm.cell]

StartOf(s) ==
  /\ source = s
  /\ prog = write_mif(assemble(s), MifDepth, PcSize)
  /\ Init
  /\ arch = Visible
  /\ copies = 0

Observe ==
  /\ arch' = IF reset' \/ reset \/ cu.state = "T0" THEN Visible' ELSE arch
  /\ copies' = IF reset' \/ (pc.out # 0 /\ pc'.out = 0) THEN 0
               ELSE IF Empty(dpcr) THEN copies ELSE copies + 1
  /\ UNCHANGED source

Next == \E pressed \in Presses, sw \in Switches : Clock(pressed, sw) /\ Observe

RInit == \E s \in Sources : StartOf(s)
RSpec == RInit /\ [][Next]_allVars
FairSpec == RSpec /\ WF_allVars(Next)

----------------------------------------------------------------------------
ISA == INSTANCE ReCOPISA

(* ReCOP implements its specification by instructions: every instruction   *)
(* has its effect once, whatever ran before it and although its writes     *)
(* last two edges, and a reset loses at most the instruction it interrupts.*)
Instructions == ISA!Spec

(* Every value has the range of its width.                                 *)
TypeOK ==
  /\ cu.state \in {"T0", "T1", "T2", "T3"} /\ pc.out \in 0 .. PcSize - 1
  /\ \A r \in 0 .. 15 : regs[r] \in Word
  /\ \A a \in 0 .. DmSize - 1 : dm.cell[a] \in Word
  /\ alu.result \in Word /\ dpcr \in Word \X Word

(* From T2 on the control unit works on the instruction at the program     *)
(* counter: the two edges of every fetch state are enough for the memory,  *)
(* the instruction register and T1, which at its first edge decodes the    *)
(* instruction before.                                                     *)
DecodedInTime ==
  cu.state \in {"T2", "T3"} =>
    LET first == prog[pc.out]
    IN  ir = Decode(first, IF Fat(Decode(first, 0).am)
                           THEN prog[Plus(pc.out, 1)] ELSE 0)

(* A data call is sent before the next one replaces it: the send process   *)
(* samples DPCR at every edge, and keys wait for DPCR to be empty.         *)
EveryCallSent ==
  [][dpcr' # dpcr /\ ~Empty(dpcr) /\ ~reset' => sendSignal = Packet(dpcr)]_allVars

(* DPCR is sent at every edge while it holds a call. All that a program    *)
(* sends fits into an empty queue of `room' words, even if the network     *)
(* takes none of it.                                                       *)
Fits(room) == copies <= room

(* asm_init.asm, the program that ReCOP runs from power-up.                *)
AsmInit ==
  <<I("NOOP", <<>>),
    I("LDR", <<Reg(0), Imm(37120)>>), I("DATACALL2", <<Reg(0), Imm(4)>>),
    I("LDR", <<Reg(0), Imm(37504)>>), I("DATACALL2", <<Reg(0), Imm(36)>>),
    I("LDR", <<Reg(0), Imm(41728)>>), I("DATACALL2", <<Reg(0), Imm(2)>>),
    I("LDR", <<Reg(0), Imm(0)>>), I("DATACALL2", <<Reg(0), Imm(0)>>),
    I("NOOP", <<>>), I("ENDPROG", <<>>), I("END", <<>>)>>

(* What the start-up program sends from its beginning to its end fits into *)
(* the queue of ReCOP's interface, although every call is sent for as long *)
(* as it stays in DPCR, and even if the network takes none of it.          *)
StartUpFits == source = AsmInit => Fits(256)

(* What ReCOP sends while it runs the start-up program, for DPCR or for a  *)
(* key, is a configuration that the ASP at that address knows as its own:  *)
(* bit 23 tells those of the sampling and the averaging ASP apart. No word *)
(* of ReCOP is taken for a sample, an average or a peak.                   *)
Configures(packet) ==
  \/ packet.addr = 1 /\ packet.type = 9 /\ packet.high < 128
  \/ packet.addr = 2 /\ packet.type = 9 /\ packet.high >= 128
  \/ packet.addr = 3 /\ packet.type = 10
OnlyConfigures == source = AsmInit => sendSignal = Silent \/ Configures(sendSignal)

(* The words of the lines before one of the program that runs. *)
Widths         == [j \in DOMAIN source |-> Len(WordsOf(source, source[j]))]
WordsBefore(i) == SumFunctionOnSet(Widths, 1 .. i - 1)

(* The fields that the hardware needs to do what a line says: JMP, SSOP    *)
(* and the data calls read the register Rx, and an operation on three      *)
(* operands reads Rx and the third one.                                    *)
Intended(line) ==
  LET ops    == line.ops
      n      == Len(ops)
      single == n > 0 /\ line.mnemonic \in {"JMP", "SSOP", "DATACALL", "DATACALL2"}
      to_dm  == n = 2 /\ line.mnemonic = "STR" /\ ops[2].kind = "direct"
  IN  [rz |-> IF n = 0 \/ single \/ to_dm THEN 0 ELSE parse_register(ops[1]),
       rx |-> IF single \/ to_dm THEN parse_register(ops[1])
              ELSE IF n = 2 THEN parse_register(ops[2])
              ELSE IF n = 3 /\ ops[3].kind = "immediate"
              THEN parse_register(ops[2])
              ELSE IF n = 3 THEN parse_register(ops[3]) ELSE 0,
       operand |-> IF n = 0 THEN 0 ELSE Value(source, ops[n])]

(* What ReCOP executes at the start of an instruction is what the line of  *)
(* the program says: assembler and decoder agree on the length of every    *)
(* instruction and on the place of its operands.                           *)
ExecutesTheSource ==
  cu.state = "T3" =>
    \A i \in DOMAIN source :
      IsInstruction(source[i]) /\ WordsBefore(i) = pc.out =>
        LET meant == Intended(source[i])
        IN  /\ ir.opcode = opcodes[source[i].mnemonic]
            /\ <<ir.rz, ir.rx, ir.operand>> = <<meant.rz, meant.rx, meant.operand>>

(* The programs that the assembler puts into words as they are meant, and  *)
(* that fit the memory. In others it loses a register: the one of a data   *)
(* call or of SSOP, unless it is R0, as which a lost register is read; and *)
(* the second one of an operation with an immediate. A bare word is no     *)
(* label, NOOP takes no operand, JMP one, and nothing more than three.      *)
Operand == [kind : {"register"}, n : 0 .. 15, label : STRING]
              \cup [kind : {"immediate", "direct"}, n : Nat, label : STRING]
Lines == [label : STRING, mnemonic : STRING, ops : Seq(Operand)]
KeepsItsRegisters(line) ==
  LET ops == line.ops
      n   == Len(ops)
  IN  /\ line.mnemonic \in {"SSOP", "DATACALL", "DATACALL2"}
           => \A k \in 1 .. n : parse_register(ops[k]) = 0
      /\ n = 3 /\ ops[3].kind = "immediate" => parse_register(ops[2]) = 0
      /\ line.mnemonic = "NOOP" => n = 0
      /\ line.mnemonic = "JMP" => n <= 1
      /\ n <= 3
Plain(s) == /\ s \in Seq(Lines)
            /\ \A i \in DOMAIN s : ~ Rejected(s[i]) /\ KeepsItsRegisters(s[i])
            /\ Len(assemble(s)) <= PcSize
============================================================================
