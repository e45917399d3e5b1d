------------------------------ MODULE MCReCOP ------------------------------
(***************************************************************************)
(* TLC instance of ReCOP.                                                  *)
(***************************************************************************)
EXTENDS ReCOPRefinement

(* A countdown, with loads, stores and a jump back, in 31 words. *)
Loop ==
  <<I("LDR", <<Reg(1), Imm(2)>>), I("LDR", <<Reg(2), Imm(6)>>),
    I("STR", <<Reg(1), Addr(3)>>),
    I("SUB", <<Reg(1), Imm(1)>>), I("SZ", <<Addr(11)>>), I("JMP", <<Reg(2)>>),
    I("LDR", <<Reg(3), Addr(3)>>), I("LDR", <<Reg(4), Reg(3)>>),
    I("LDR", <<Reg(3), Reg(3)>>),
    I("STR", <<Reg(1), Imm(7)>>), I("STR", <<Reg(2), Reg(3)>>),
    I("CLFZ", <<>>), I("PRESENT", <<Reg(1), Addr(22)>>), I("NOOP", <<>>),
    I("STRPC", <<Addr(5)>>),
    I("ADD", <<Reg(3), Reg(3), Reg(2)>>), I("AND", <<Reg(3), Reg(1)>>),
    I("OR", <<Reg(4), Reg(2)>>), I("LSIP", <<Reg(5)>>),
    I("DATACALL", <<Reg(0)>>)>>

(* A loop to a label behind instructions of one word, and a branch to one  *)
(* behind an instruction of two.                                           *)
Labels ==
  <<I("NOOP", <<>>), Line("again", "NOOP", <<>>), Line("first", "SUB", <<Reg(1), Imm(32768)>>),
    I("SZ", <<Lab("second")>>), I("PRESENT", <<Reg(2), Lab("first")>>),
    Line("second", "LDR", <<Reg(2), Imm(52224)>>), I("PRESENT", <<Reg(3), Lab("again")>>)>>

(* All pairs of these instructions, before a jump to itself. *)
Few == {I("LDR", <<Reg(1), Imm(9)>>), I("LDR", <<Reg(1), Reg(1)>>),
        I("STR", <<Reg(1), Addr(1)>>), I("STR", <<Reg(0), Reg(1)>>),
        I("SUB", <<Reg(1), Imm(32768)>>), I("SUBV", <<Reg(2), Imm(1)>>),
        I("ADD", <<Reg(1), Reg(1)>>),
        I("SZ", <<Addr(0)>>), I("PRESENT", <<Reg(1), Addr(1)>>),
        I("JMP", <<Reg(1)>>), I("STRPC", <<Addr(2)>>), I("CLFZ", <<>>),
        I("DATACALL", <<Reg(0)>>), I("MAX", <<Reg(1), Imm(3)>>)}
Pairs == {<<a, b, I("PRESENT", <<Reg(9), Addr(Len(assemble(<<a, b>>)))>>)>> :
            a \in Few, b \in Few}

MCSources == {AsmInit, Loop, Labels} \cup Pairs

(* The theorem about ExecutesTheSource is about these programs too. *)
ASSUME PlainAssumption == \A s \in MCSources : Plain(s)

(* The packets of asm_init.asm. *)
StartUpPackets ==
  {Packet(<<37120, 4>>), Packet(<<37504, 36>>), Packet(<<41728, 2>>)}

(* The start-up program has no end: the program counter wraps, and each of *)
(* its configurations is sent again and again, whatever keys are held.     *)
StartUpIsRepeated ==
  source = AsmInit /\ <>[]~reset =>
    \A p \in StartUpPackets : []<>(sendSignal = p)
============================================================================
