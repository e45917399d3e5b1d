---------------------------- MODULE ReCOPProofs ----------------------------
(***************************************************************************)
(* ReCOP at its clock edges, for every program, size of the memories, keys *)
(* and switches: the widths of its registers, the instruction that its     *)
(* control unit works on, and the data calls that its send port sees.      *)
(*                                                                         *)
(* Control unit and fetch machine run side by side and agree only by the   *)
(* number of edges each takes. `Phase' lists, from the end of a reset or   *)
(* of an instruction to the end of the next one, where both of them are.   *)
(* `Seen' says what of the instruction has happened in each phase; with it *)
(* ReCOP implements its specification by instructions.                     *)
(***************************************************************************)
EXTENDS ReCOPRefinement, Sums

----------------------------------------------------------------------------
(* Words. *)
LEMMA Powers ==
  ASSUME NEW n \in 0 .. 15
  PROVE  2^n \in Nat /\ 2^(n + 1) = 2 * 2^n
<1>0. CASE n = 0
  BY <1>0
<1>1. CASE n = 1
  BY <1>1
<1>2. CASE n = 2
  BY <1>2
<1>3. CASE n = 3
  BY <1>3
<1>4. CASE n = 4
  BY <1>4
<1>5. CASE n = 5
  BY <1>5
<1>6. CASE n = 6
  BY <1>6
<1>7. CASE n = 7
  BY <1>7
<1>8. CASE n = 8
  BY <1>8
<1>9. CASE n = 9
  BY <1>9
<1>10. CASE n = 10
  BY <1>10
<1>11. CASE n = 11
  BY <1>11
<1>12. CASE n = 12
  BY <1>12
<1>13. CASE n = 13
  BY <1>13
<1>14. CASE n = 14
  BY <1>14
<1>15. CASE n = 15
  BY <1>15
<1> QED BY <1>0, <1>1, <1>2, <1>3, <1>4, <1>5, <1>6, <1>7, <1>8, <1>9, <1>10, <1>11,
           <1>12, <1>13, <1>14, <1>15

(* The word of a set of bits has the width of the highest of them. *)
Power    == [k \in 0 .. 15 |-> 2^k]
InWidth(n) == \A s \in SUBSET (0 .. n - 1) : SumFunctionOnSet(Power, s) \in 0 .. 2^n - 1

LEMMA PowerIs == \A k \in 0 .. 15 : Power[k] = 2^k /\ Power[k] \in Int
<1> SUFFICES ASSUME NEW k \in 0 .. 15 PROVE Power[k] = 2^k /\ Power[k] \in Int
  OBVIOUS
<1>1. Power[k] = 2^k
  BY DEF Power
<1>2. 2^k \in Nat
  BY Powers
<1> QED BY <1>1, <1>2

LEMMA WidthGrows ==
  ASSUME NEW n \in 0 .. 15, InWidth(n)
  PROVE  InWidth(n + 1)
<1> SUFFICES ASSUME NEW s \in SUBSET (0 .. n)
             PROVE  SumFunctionOnSet(Power, s) \in 0 .. 2^(n + 1) - 1
  <2>1. (n + 1) - 1 = n
    OBVIOUS
  <2> QED BY <2>1 DEF InWidth
<1>1. 2^n \in Nat /\ 2^(n + 1) = 2 * 2^n
  BY Powers
<1>2. s \ {n} \in SUBSET (0 .. n - 1)
  OBVIOUS
<1>3. SumFunctionOnSet(Power, s \ {n}) \in 0 .. 2^n - 1
  BY <1>2 DEF InWidth
<1>4. CASE n \in s
  <2>1. \A k \in s : Power[k] \in Int
    <3>1. \A k \in s : k \in 0 .. 15
      OBVIOUS
    <3> QED BY <3>1, PowerIs
  <2>2. IsFiniteSet(s)
    <3>1. IsFiniteSet(0 .. n)
      BY FS_Interval
    <3> QED BY <3>1, FS_Subset
  <2>3. SumFunctionOnSet(Power, s) = Power[n] + SumFunctionOnSet(Power, s \ {n})
    BY <1>4, <2>1, <2>2, SumTakesOut
  <2>4. Power[n] = 2^n
    BY PowerIs
  <2> QED BY <1>1, <1>3, <2>3, <2>4
<1>5. CASE n \notin s
  <2>1. s \ {n} = s
    BY <1>5
  <2> QED BY <1>1, <1>3, <2>1
<1> QED BY <1>4, <1>5

LEMMA WordOfBits ==
  ASSUME NEW bits \in SUBSET (0 .. 15)
  PROVE  WordOf(bits) \in Word
<1> DEFINE T == {n \in Nat : n <= 16 => InWidth(n)}
<1>1. InWidth(0)
  <2> SUFFICES ASSUME NEW s \in SUBSET (0 .. 0 - 1)
               PROVE  SumFunctionOnSet(Power, s) \in 0 .. 2^0 - 1
    BY DEF InWidth
  <2>1. s = {}
    OBVIOUS
  <2>2. SumFunctionOnSet(Power, s) = 0
    BY <2>1, SumEmpty
  <2>3. 2^0 - 1 = 0
    OBVIOUS
  <2> QED BY <2>2, <2>3
<1>2. ASSUME NEW n \in Nat, n \in T PROVE n + 1 \in T
  <2>1. CASE n \in 0 .. 15
    <3>1. InWidth(n)
      BY <1>2, <2>1
    <3> QED BY <2>1, <3>1, WidthGrows
  <2>2. CASE n \notin 0 .. 15
    BY <2>2
  <2> QED BY <2>1, <2>2
<1>3. 16 \in T
  <2>1. 0 \in T /\ \A n \in Nat : n \in T => n + 1 \in T
    BY <1>1, <1>2
  <2> HIDE DEF T
  <2> QED BY <2>1, SetInduction
<1>4. bits \in SUBSET (0 .. 16 - 1)
  OBVIOUS
<1>5. SumFunctionOnSet(Power, bits) \in 0 .. 2^16 - 1
  BY <1>3, <1>4 DEF InWidth
<1>6. SumFunctionOnSet(Power, bits) = WordOf(bits)
  BY DEF WordOf, Power
<1> QED BY <1>5, <1>6 DEF Word

LEMMA BitwiseWords ==
  ASSUME NEW a, NEW b
  PROVE  And(a, b) \in Word /\ Or(a, b) \in Word
<1>1. Ones(a) \cap Ones(b) \in SUBSET (0 .. 15) /\ Ones(a) \cup Ones(b) \in SUBSET (0 .. 15)
  BY DEF Ones
<1> QED BY <1>1, WordOfBits DEF And, Or

Instruction == [am : 0 .. 3, opcode : 0 .. 63, rz : 0 .. 15, rx : 0 .. 15, operand : Word]

LEMMA Decoded ==
  ASSUME NEW first \in Word, NEW second \in Word
  PROVE  Decode(first, second) \in Instruction
<1>1. first \in 0 .. 2^16 - 1
  BY DEF Word
<1>2. first \div 2^14 \in 0 .. 3
  <2>1. 2^16 = 4 * 2^14 /\ 2^14 \in Nat \ {0}
    OBVIOUS
  <2> QED BY <1>1, <2>1
<1>3. (first \div 256) % 64 \in 0 .. 63
  BY <1>1
<1>4. (first \div 16) % 16 \in 0 .. 15 /\ first % 16 \in 0 .. 15
  BY <1>1
<1> QED BY <1>2, <1>3, <1>4 DEF Decode, Instruction

----------------------------------------------------------------------------
(* The registers hold what their widths allow. *)
Pcs == 0 .. PcSize - 1

ControlOK ==
  /\ DOMAIN cu = DOMAIN ControlReset
  /\ cu.state \in {"T0", "T1", "T2", "T3"} /\ cu.next_state \in {"T0", "T1", "T2", "T3"}
  /\ cu.alu_operation \in {"add", "sub", "and", "or", "hold", "idle"}
  /\ cu.rf_sel_in \in {"value", "alu", "sip", "dm"}
  /\ cu.dm_sel_addr \in {"value", "rx", "rz"}
  /\ cu.dm_sel_in \in {"value", "pc", "rx"}

FetchOK ==
  /\ DOMAIN fetch = DOMAIN FetchReset
  /\ fetch.inst_1 \in Word /\ fetch.inst_2 \in Word
  /\ DOMAIN pm = {"port", "inside"} /\ pm.port \in Pcs /\ pm.inside \in Pcs

PathOK ==
  /\ prog \in [Pcs -> Word] /\ pc.out \in Pcs
  /\ ir \in Instruction
  /\ regs \in [0 .. 15 -> Word]
  /\ alu.result \in Word
  /\ dm.cell \in [0 .. DmSize - 1 -> Word] /\ dm.q \in Word
  /\ dpcr \in Word \X Word

WidthsOK == ControlOK /\ FetchOK /\ PathOK

LEMMA Sizes ==
  /\ PcSize \in Nat \ {0} /\ DmSize \in Nat \ {0}
  /\ Pcs \subseteq Word /\ 0 \in Pcs /\ 0 \in Word
  /\ \A n \in Nat : n % PcSize \in Pcs /\ n % DmSize \in 0 .. DmSize - 1
  /\ \A n \in Int : n % 2^16 \in Word
<1>1. PcSize \in Nat \ {0} /\ DmSize \in Nat \ {0} /\ PcSize <= 2^16 /\ 2^16 \in Nat \ {0}
  <2>1. 2^16 \in Nat \ {0}
    OBVIOUS
  <2> QED BY <2>1, SizeAssumption
<1>2. \A n \in Nat : n % PcSize \in Pcs /\ n % DmSize \in 0 .. DmSize - 1
  BY <1>1 DEF Pcs
<1>3. \A n \in Int : n % 2^16 \in Word
  BY <1>1 DEF Word
<1>4. Pcs \subseteq Word /\ 0 \in Pcs /\ 0 \in Word
  <2>1. PICK w \in Nat : w = 2^16 /\ PcSize <= w
    BY <1>1
  <2>2. Word = 0 .. w - 1
    BY <2>1 DEF Word
  <2>3. Pcs \subseteq 0 .. w - 1
    <3> SUFFICES ASSUME NEW n \in Pcs PROVE n \in 0 .. w - 1
      OBVIOUS
    <3>1. n \in Nat /\ n <= PcSize - 1
      BY <1>1 DEF Pcs
    <3> QED BY <1>1, <2>1, <3>1
  <2>4. 0 \in Pcs
    BY <1>1 DEF Pcs
  <2> QED BY <2>2, <2>3, <2>4
<1> QED BY <1>1, <1>2, <1>3, <1>4

LEMMA WordsAreNaturals == Word \subseteq Nat
BY DEF Word

LEMMA DefaultsIs ==
  ASSUME ControlOK
  PROVE  /\ DOMAIN Defaults = DOMAIN ControlReset
         /\ Defaults.state = cu.next_state /\ Defaults.next_state = cu.next_state
         /\ Defaults.alu_operation = cu.alu_operation /\ Defaults.rf_sel_in = cu.rf_sel_in
         /\ Defaults.dm_sel_addr = cu.dm_sel_addr /\ Defaults.dm_sel_in = cu.dm_sel_in
         /\ Defaults.rf_write = cu.rf_write /\ Defaults.dpcr_sel = cu.dpcr_sel
         /\ Defaults.pc_write = FALSE /\ Defaults.dpcr_write = FALSE
         /\ Defaults.ir_fetch_start = FALSE
BY DEF ControlOK, ControlReset, Defaults

(* What the four states of the control unit do to its registers. *)
LEMMA InT0 ==
  ASSUME ControlOK, T0
  PROVE  /\ ControlOK'
         /\ cu'.state = cu.next_state /\ cu'.next_state = "T1"
         /\ cu'.ir_fetch_start = TRUE /\ cu'.pc_write = FALSE
         /\ cu'.rf_write = FALSE /\ cu'.dpcr_write = FALSE
BY DefaultsIs DEF ControlOK, ControlReset, T0

LEMMA InT1 ==
  ASSUME ControlOK, T1(ir, fetch.fetched)
  PROVE  /\ ControlOK'
         /\ cu'.state = cu.next_state
         /\ cu'.next_state = IF fetch.fetched THEN "T2" ELSE cu.next_state
         /\ cu'.ir_fetch_start = FALSE /\ cu'.pc_write = FALSE
         /\ cu'.rf_write = cu.rf_write /\ cu'.dpcr_write = FALSE
BY DefaultsIs DEF ControlOK, ControlReset, T1

LEMMA InT2 ==
  ASSUME ControlOK, T2(ir)
  PROVE  /\ ControlOK'
         /\ cu'.state = cu.next_state /\ cu'.next_state = "T3"
         /\ cu'.ir_fetch_start = FALSE /\ cu'.pc_write = FALSE
         /\ cu'.rf_write = cu.rf_write /\ cu'.dpcr_write = FALSE
<1>1. /\ DOMAIN cu' = DOMAIN ControlReset
      /\ cu'.state = cu.next_state /\ cu'.next_state = "T3"
      /\ cu'.ir_fetch_start = FALSE /\ cu'.pc_write = FALSE
      /\ cu'.rf_write = cu.rf_write /\ cu'.dpcr_write = FALSE
  BY DefaultsIs DEF ControlReset, T2
<1>2. cu'.alu_operation = AluOperation(ir.opcode)
  BY DefaultsIs DEF ControlReset, T2
<1>3. cu'.rf_sel_in \in {"alu", "value", "dm", cu.rf_sel_in}
  BY DefaultsIs DEF ControlReset, T2
<1>4. cu'.dm_sel_addr \in {"rx", "rz", "value", cu.dm_sel_addr}
  BY DefaultsIs DEF ControlReset, T2
<1>5. cu'.dm_sel_in \in {"pc", "value", "rx", cu.dm_sel_in}
  BY DefaultsIs DEF ControlReset, T2
<1> QED BY <1>1, <1>2, <1>3, <1>4, <1>5 DEF ControlOK, AluOperation

LEMMA InT3 ==
  ASSUME ControlOK, T3(ir, rz = 0, alu.z_flag)
  PROVE  /\ ControlOK'
         /\ cu'.state = cu.next_state /\ cu'.next_state = "T0"
         /\ cu'.ir_fetch_start = FALSE /\ cu'.pc_write = TRUE
         /\ cu'.dpcr_sel = cu.dpcr_sel
         /\ cu'.dpcr_write = (ir.opcode \in {datacall, datacall2})
         /\ ir.opcode \in {datacall, datacall2} => cu'.rf_write = cu.rf_write
<1>1. /\ DOMAIN cu' = DOMAIN ControlReset
      /\ cu'.state = cu.next_state /\ cu'.next_state = "T0"
      /\ cu'.ir_fetch_start = FALSE /\ cu'.pc_write = TRUE
      /\ cu'.dpcr_sel = cu.dpcr_sel
      /\ cu'.alu_operation = "hold"
      /\ cu'.dm_sel_addr = cu.dm_sel_addr /\ cu'.dm_sel_in = cu.dm_sel_in
  BY DefaultsIs DEF ControlReset, T3
<1>2. cu'.rf_sel_in \in {"sip", cu.rf_sel_in}
  BY DefaultsIs DEF ControlReset, T3
<1>3. cu'.dpcr_write = (ir.opcode \in {datacall, datacall2})
  BY DefaultsIs DEF ControlReset, T3
<1>4. ir.opcode \notin {andr, orr, addr, subr, subvr, ldr, lsip} => cu'.rf_write = cu.rf_write
  BY DefaultsIs DEF ControlReset, T3
<1>5. {datacall, datacall2} \cap {andr, orr, addr, subr, subvr, ldr, lsip} = {}
  BY DEF andr, orr, addr, subr, subvr, ldr, lsip, datacall, datacall2
<1> QED BY <1>1, <1>2, <1>3, <1>4, <1>5 DEF ControlOK

LEMMA ControlDoes ==
  ASSUME ControlOK, Step
  PROVE  \/ cu.state = "T0" /\ T0
         \/ cu.state = "T1" /\ T1(ir, fetch.fetched)
         \/ cu.state = "T2" /\ T2(ir)
         \/ cu.state = "T3" /\ T3(ir, rz = 0, alu.z_flag)
BY DEF Step, Control, T0, T1, T2, T3

(* What the four states of the fetch machine do. *)
LEMMA BaseIs ==
  ASSUME FetchOK,
         NEW base, base = [fetch EXCEPT !.state = fetch.next_state, !.fetched = FALSE]
  PROVE  /\ DOMAIN base = DOMAIN FetchReset
         /\ base.state = fetch.next_state /\ base.next_state = fetch.next_state
         /\ base.fetched = FALSE /\ base.inst_1 = fetch.inst_1 /\ base.inst_2 = fetch.inst_2
BY DEF FetchOK, FetchReset

FirstOf(word) == Fat(Decode(word, 0).am)

LEMMA FetchDoes ==
  ASSUME FetchOK, FetchNext
  PROVE  /\ DOMAIN fetch' = DOMAIN FetchReset /\ DOMAIN pm' = {"port", "inside"}
         /\ fetch'.state = fetch.next_state /\ pm'.inside = pm.port
         /\ fetch.state \in {"IDLE", "FETCH_1", "FETCH_2", "FETCH_3"}
         /\ fetch.state = "IDLE" =>
              /\ fetch'.next_state = IF cu.ir_fetch_start THEN "FETCH_1" ELSE fetch.next_state
              /\ fetch'.inst_1 = fetch.inst_1 /\ fetch'.inst_2 = fetch.inst_2
              /\ fetch'.fetched = FALSE /\ pm'.port = pm.port
         /\ fetch.state = "FETCH_1" =>
              /\ fetch'.next_state = "FETCH_2"
              /\ fetch'.inst_1 = fetch.inst_1 /\ fetch'.inst_2 = fetch.inst_2
              /\ fetch'.fetched = FALSE /\ pm'.port = pc.out
         /\ fetch.state = "FETCH_2" =>
              /\ fetch'.inst_1 = prog[pm.inside]
              /\ FirstOf(prog[pm.inside]) =>
                   /\ fetch'.next_state = "FETCH_3" /\ fetch'.inst_2 = fetch.inst_2
                   /\ fetch'.fetched = FALSE /\ pm'.port = Plus(pc.out, 1)
              /\ ~ FirstOf(prog[pm.inside]) =>
                   /\ fetch'.next_state = "IDLE" /\ fetch'.inst_2 = 0
                   /\ fetch'.fetched = TRUE /\ pm'.port = pm.port
         /\ fetch.state = "FETCH_3" =>
              /\ fetch'.next_state = "IDLE"
              /\ fetch'.inst_1 = fetch.inst_1 /\ fetch'.inst_2 = prog[pm.inside]
              /\ fetch'.fetched = TRUE /\ pm'.port = pm.port
<1> DEFINE q == prog[pm.inside]
           base == [fetch EXCEPT !.state = fetch.next_state, !.fetched = FALSE]
<1>1. /\ DOMAIN base = DOMAIN FetchReset
      /\ base.state = fetch.next_state /\ base.next_state = fetch.next_state
      /\ base.fetched = FALSE /\ base.inst_1 = fetch.inst_1 /\ base.inst_2 = fetch.inst_2
  BY BaseIs
<1>2. DOMAIN pm = {"port", "inside"}
  BY DEF FetchOK
<1>3. \/ /\ fetch.state = "IDLE"
         /\ fetch' = IF cu.ir_fetch_start THEN [base EXCEPT !.next_state = "FETCH_1"] ELSE base
         /\ pm' = [pm EXCEPT !.inside = pm.port]
      \/ /\ fetch.state = "FETCH_1"
         /\ fetch' = [base EXCEPT !.next_state = "FETCH_2"]
         /\ pm' = [port |-> pc.out, inside |-> pm.port]
      \/ /\ fetch.state = "FETCH_2" /\ FirstOf(q)
         /\ fetch' = [base EXCEPT !.inst_1 = q, !.next_state = "FETCH_3"]
         /\ pm' = [port |-> Plus(pc.out, 1), inside |-> pm.port]
      \/ /\ fetch.state = "FETCH_2" /\ ~ FirstOf(q)
         /\ fetch' = [base EXCEPT !.inst_1 = q, !.inst_2 = 0, !.fetched = TRUE,
                                  !.next_state = "IDLE"]
         /\ pm' = [pm EXCEPT !.inside = pm.port]
      \/ /\ fetch.state = "FETCH_3"
         /\ fetch' = [base EXCEPT !.inst_2 = q, !.fetched = TRUE, !.next_state = "IDLE"]
         /\ pm' = [pm EXCEPT !.inside = pm.port]
  BY Zenon DEF FetchNext, FirstOf
<1> HIDE DEF base, q
<1>4. DOMAIN base = {"state", "next_state", "inst_1", "inst_2", "fetched"}
  BY <1>1 DEF FetchReset
<1>5. CASE fetch.state = "IDLE"
  BY <1>1, <1>2, <1>3, <1>4, <1>5
<1>6. CASE fetch.state = "FETCH_1"
  BY <1>1, <1>2, <1>3, <1>4, <1>6
<1>7. CASE fetch.state = "FETCH_2"
  <2>1. CASE FirstOf(q)
    <3>1. /\ fetch' = [base EXCEPT !.inst_1 = q, !.next_state = "FETCH_3"]
          /\ pm' = [port |-> Plus(pc.out, 1), inside |-> pm.port]
      BY <1>3, <1>7, <2>1
    <3> QED BY <1>1, <1>4, <1>7, <2>1, <3>1 DEF q
  <2>2. CASE ~ FirstOf(q)
    <3>1. /\ fetch' = [base EXCEPT !.inst_1 = q, !.inst_2 = 0, !.fetched = TRUE,
                                   !.next_state = "IDLE"]
          /\ pm' = [pm EXCEPT !.inside = pm.port]
      BY <1>3, <1>7, <2>2
    <3> QED BY <1>1, <1>2, <1>4, <1>7, <2>2, <3>1 DEF q
  <2> QED BY <2>1, <2>2
<1>8. CASE fetch.state = "FETCH_3"
  <2>1. /\ fetch' = [base EXCEPT !.inst_2 = q, !.fetched = TRUE, !.next_state = "IDLE"]
        /\ pm' = [pm EXCEPT !.inside = pm.port]
    BY <1>3, <1>8
  <2> QED BY <1>1, <1>2, <1>4, <1>8, <2>1 DEF q
<1> QED BY <1>3, <1>5, <1>6, <1>7, <1>8

LEMMA FetchWidths ==
  ASSUME FetchOK, PathOK, FetchNext
  PROVE  FetchOK'
<1>1. prog[pm.inside] \in Word /\ pc.out \in Pcs /\ Plus(pc.out, 1) \in Pcs /\ 0 \in Word
  <2>1. pc.out \in Nat /\ pc.out + 1 \in Nat
    <3>1. pc.out \in Nat
      BY Sizes, WordsAreNaturals DEF PathOK
    <3> QED BY <3>1
  <2> QED BY <2>1, Sizes DEF PathOK, FetchOK, Plus
<1>2. fetch'.inst_1 \in Word /\ fetch'.inst_2 \in Word
  BY <1>1, FetchDoes DEF FetchOK
<1>3. pm'.port \in Pcs /\ pm'.inside \in Pcs
  BY <1>1, FetchDoes DEF FetchOK
<1> QED BY <1>2, <1>3, FetchDoes DEF FetchOK, FetchReset

(* The data path. *)
LEMMA Operands ==
  ASSUME PathOK
  PROVE  rx \in Word /\ rz \in Word /\ ir.operand \in Word /\ regs[7] \in Word
         /\ ir.rz \in 0 .. 15
BY DEF PathOK, Instruction, rx, rz

LEMMA ResultIsWord ==
  ASSUME ControlOK, PathOK
  PROVE  Result \in Word
<1> DEFINE op1 == IF cu.alu_op1 = "rx" THEN rx ELSE ir.operand
           op2 == IF cu.alu_op2 = "rx" THEN rx ELSE rz
<1>1. op1 \in Word /\ op2 \in Word /\ alu.result \in Word
  BY Operands DEF PathOK
<1>2. op1 \in Int /\ op2 \in Int /\ op2 + op1 \in Int /\ op2 - op1 \in Int
  <2>1. op1 \in Nat /\ op2 \in Nat
    BY <1>1, WordsAreNaturals
  <2> QED BY <2>1
<1>3. /\ (op2 + op1) % 2^16 \in Word /\ (op2 - op1) % 2^16 \in Word /\ 0 \in Word
      /\ And(op2, op1) \in Word /\ Or(op2, op1) \in Word
  BY <1>2, Sizes, BitwiseWords
<1>4. Result = CASE cu.alu_operation = "add"  -> (op2 + op1) % 2^16
                 [] cu.alu_operation = "sub"  -> (op2 - op1) % 2^16
                 [] cu.alu_operation = "and"  -> And(op2, op1)
                 [] cu.alu_operation = "or"   -> Or(op2, op1)
                 [] cu.alu_operation = "hold" -> alu.result
                 [] cu.alu_operation = "idle" -> 0
  BY DEF Result
<1> HIDE DEF op1, op2
<1>5. cu.alu_operation \in {"add", "sub", "and", "or", "hold", "idle"}
  BY DEF ControlOK
<1> QED BY <1>1, <1>3, <1>4, <1>5

LEMMA CountersMove ==
  ASSUME PathOK, PcNext
  PROVE  pc'.out \in Pcs /\ (cu.pc_write = FALSE => pc'.out = pc.out)
<1>1. {rx, ir.operand, pc.out, pc.out + 1, pc.out + 2} \subseteq Nat
  <2>1. rx \in Nat /\ ir.operand \in Nat /\ pc.out \in Nat
    BY Operands, Sizes, WordsAreNaturals DEF PathOK
  <2> QED BY <2>1
<1>2. {rx % PcSize, ir.operand % PcSize, Plus(pc.out, 1), Plus(pc.out, 2)} \subseteq Pcs
  BY <1>1, Sizes DEF Plus
<1> QED BY <1>2 DEF PcNext, PathOK

LEMMA RegistersChange ==
  ASSUME ControlOK, PathOK, RegsNext
  PROVE  regs' \in [0 .. 15 -> Word] /\ (cu.rf_write = FALSE => regs' = regs)
<1> DEFINE data == CASE cu.rf_sel_in = "value" -> ir.operand
                     [] cu.rf_sel_in = "alu"   -> Result
                     [] cu.rf_sel_in = "sip"   -> 0
                     [] cu.rf_sel_in = "dm"    -> dm.q
<1>1. data \in Word
  <2>1. ir.operand \in Word /\ Result \in Word /\ 0 \in Word /\ dm.q \in Word
    BY Operands, ResultIsWord, Sizes DEF PathOK
  <2> QED BY <2>1 DEF ControlOK
<1>2. regs' = IF cu.rf_write THEN [regs EXCEPT ![ir.rz] = data] ELSE regs
  BY DEF RegsNext
<1> HIDE DEF data
<1> QED BY <1>1, <1>2, Operands DEF PathOK

LEMMA MemoryChanges ==
  ASSUME ControlOK, PathOK, DmNext
  PROVE  dm'.cell \in [0 .. DmSize - 1 -> Word] /\ dm'.q \in Word
<1> DEFINE address == (CASE cu.dm_sel_addr = "value" -> ir.operand
                         [] cu.dm_sel_addr = "rx"    -> rx
                         [] cu.dm_sel_addr = "rz"    -> rz) % DmSize
           data == CASE cu.dm_sel_in = "value" -> ir.operand
                     [] cu.dm_sel_in = "pc"    -> pc.out
                     [] cu.dm_sel_in = "rx"    -> rx
           cell == IF cu.dm_write THEN [dm.cell EXCEPT ![address] = data] ELSE dm.cell
<1>1. address \in 0 .. DmSize - 1
  <2>1. ir.operand \in Nat /\ rx \in Nat /\ rz \in Nat
    BY Operands, WordsAreNaturals
  <2>2. ir.operand % DmSize \in 0 .. DmSize - 1 /\ rx % DmSize \in 0 .. DmSize - 1
        /\ rz % DmSize \in 0 .. DmSize - 1
    BY <2>1, Sizes
  <2> QED BY <2>2 DEF ControlOK
<1>2. data \in Word
  BY Operands, Sizes DEF PathOK, ControlOK
<1>3. dm' = [cell |-> cell, q |-> cell[address]]
  BY DEF DmNext
<1>4. cell \in [0 .. DmSize - 1 -> Word]
  <2> HIDE DEF address, data
  <2> QED BY <1>1, <1>2 DEF PathOK
<1> HIDE DEF address, data, cell
<1> QED BY <1>1, <1>3, <1>4

LEMMA CallRegisterChanges ==
  ASSUME PathOK, DpcrNext
  PROVE  dpcr' \in Word \X Word /\ (cu.dpcr_write = FALSE => dpcr' = dpcr)
BY Operands DEF PathOK, DpcrNext

LEMMA StepWidths ==
  ASSUME WidthsOK, Step, UNCHANGED prog
  PROVE  WidthsOK'
<1>1. ControlOK /\ FetchOK /\ PathOK
  BY DEF WidthsOK
<1>2. ControlOK'
  BY <1>1, ControlDoes, InT0, InT1, InT2, InT3
<1>3. FetchOK'
  BY <1>1, FetchWidths DEF Step
<1>4. ir' \in Instruction
  BY <1>1, Decoded DEF Step, FetchOK
<1>5. alu'.result \in Word
  BY <1>1, ResultIsWord DEF Step, AluNext
<1> QED BY <1>1, <1>2, <1>3, <1>4, <1>5, CountersMove, RegistersChange, MemoryChanges,
           CallRegisterChanges DEF WidthsOK, PathOK, Step

----------------------------------------------------------------------------
(* Where control unit and fetch machine are, between two ends of an        *)
(* instruction: the instruction is asked for, it is answered, it is worked *)
(* on, and it ends with the two edges that write the program counter.      *)
Unit(state, next)     == cu.state = state /\ cu.next_state = next
Fetching(state, next) == fetch.state = state /\ fetch.next_state = next

First  == prog[pc.out]
Second == IF FirstOf(First) THEN prog[Plus(pc.out, 1)] ELSE 0

NothingWritten == cu.pc_write = FALSE /\ cu.rf_write = FALSE /\ cu.dpcr_write = FALSE
Sent           == Empty(dpcr) \/ sendSignal = Packet(dpcr)
Call           == <<rx, IF cu.dpcr_sel = "r7" THEN regs[7] ELSE ir.operand>>

Fresh ==
  /\ Unit("T0", "T1") /\ Fetching("IDLE", "IDLE") /\ fetch.fetched = FALSE
  /\ NothingWritten /\ Sent

Asked ==
  /\ Unit("T1", "T1") /\ fetch.fetched = FALSE /\ NothingWritten /\ Sent
  /\ \/ Fetching("IDLE", "IDLE") /\ cu.ir_fetch_start = TRUE
     \/ Fetching("IDLE", "FETCH_1")
     \/ Fetching("FETCH_1", "FETCH_1")
     \/ Fetching("FETCH_1", "FETCH_2") /\ pm.port = pc.out
     \/ Fetching("FETCH_2", "FETCH_2") /\ pm.port = pc.out /\ pm.inside = pc.out
     \/ /\ Fetching("FETCH_2", "FETCH_3") /\ FirstOf(First) /\ fetch.inst_1 = First
        /\ pm.port = Plus(pc.out, 1) /\ pm.inside = pc.out
     \/ /\ Fetching("FETCH_3", "FETCH_3") /\ FirstOf(First) /\ fetch.inst_1 = First
        /\ pm.port = Plus(pc.out, 1) /\ pm.inside = Plus(pc.out, 1)

Answered ==
  /\ Unit("T1", "T1") /\ fetch.fetched = TRUE /\ NothingWritten /\ Sent
  /\ fetch.inst_1 = First /\ fetch.inst_2 = Second
  /\ \/ Fetching("FETCH_2", "IDLE") /\ ~ FirstOf(First) /\ pm.inside = pc.out
     \/ Fetching("FETCH_3", "IDLE") /\ FirstOf(First) /\ pm.inside = Plus(pc.out, 1)

Held == /\ Fetching("IDLE", "IDLE") /\ cu.ir_fetch_start = FALSE
        /\ fetch.inst_1 = First /\ fetch.inst_2 = Second /\ ir = Decode(First, Second)

Executing ==
  /\ Held /\ NothingWritten /\ Sent
  /\ Unit("T1", "T2") \/ Unit("T2", "T2") \/ Unit("T2", "T3") \/ Unit("T3", "T3")

Ending ==
  /\ Held /\ Sent /\ Unit("T3", "T0")
  /\ cu.dpcr_write = (ir.opcode \in {datacall, datacall2})
  /\ ir.opcode \in {datacall, datacall2} => cu.rf_write = FALSE

Ended ==
  /\ Unit("T0", "T0") /\ Fetching("IDLE", "IDLE") /\ cu.ir_fetch_start = FALSE
  /\ cu.dpcr_write = FALSE \/ dpcr = Call

Phase == Fresh \/ Asked \/ Answered \/ Executing \/ Ending \/ Ended

(* A step of the processor out of reset, with what the send port makes of  *)
(* DPCR at the same edge.                                                  *)
Sends == ~ Empty(dpcr) => sendSignal' = Packet(dpcr)

LEMMA WhatStays ==
  ASSUME WidthsOK, Step, UNCHANGED prog, Sends
  PROVE  /\ cu.pc_write = FALSE => /\ pc'.out = pc.out /\ First' = First /\ Second' = Second
                                   /\ Plus(pc.out, 1)' = Plus(pc.out, 1)
         /\ cu.dpcr_write = FALSE => dpcr' = dpcr /\ Sent'
         /\ cu.rf_write = FALSE => regs' = regs
         /\ ir' = Decode(fetch.inst_1, fetch.inst_2)
<1>1. cu.pc_write = FALSE => pc'.out = pc.out
  BY CountersMove DEF WidthsOK, Step
<1>2. cu.dpcr_write = FALSE => dpcr' = dpcr
  BY CallRegisterChanges DEF WidthsOK, Step
<1>3. cu.rf_write = FALSE => regs' = regs
  BY RegistersChange DEF WidthsOK, Step
<1>4. dpcr' = dpcr => Sent'
  BY DEF Sends, Sent, Empty, Packet
<1>5. pc'.out = pc.out => /\ First' = First /\ Second' = Second
                          /\ Plus(pc.out, 1)' = Plus(pc.out, 1)
  BY DEF First, Second, Plus
<1>6. ir' = Decode(fetch.inst_1, fetch.inst_2)
  BY DEF Step
<1> QED BY <1>1, <1>2, <1>3, <1>4, <1>5, <1>6

LEMMA FreshStep ==
  ASSUME WidthsOK, Step, UNCHANGED prog, Sends, Fresh
  PROVE  Asked' /\ dpcr' = dpcr
<1>1. ControlOK /\ FetchOK /\ cu.state = "T0" /\ cu.next_state = "T1"
      /\ fetch.state = "IDLE" /\ fetch.next_state = "IDLE" /\ cu.dpcr_write = FALSE
  BY DEF WidthsOK, Fresh, Unit, Fetching, NothingWritten
<1>2. /\ cu'.state = "T1" /\ cu'.next_state = "T1" /\ cu'.ir_fetch_start = TRUE
      /\ cu'.pc_write = FALSE /\ cu'.rf_write = FALSE /\ cu'.dpcr_write = FALSE
  BY <1>1, ControlDoes, InT0
<1>3. /\ fetch'.state = "IDLE" /\ fetch'.next_state \in {"IDLE", "FETCH_1"}
      /\ fetch'.fetched = FALSE
  BY <1>1, FetchDoes DEF Step
<1>4. dpcr' = dpcr /\ Sent'
  BY <1>1, WhatStays
<1> QED BY <1>2, <1>3, <1>4 DEF Asked, Unit, Fetching, NothingWritten

LEMMA AskedStep ==
  ASSUME WidthsOK, Step, UNCHANGED prog, Sends, Asked
  PROVE  (Asked \/ Answered)' /\ dpcr' = dpcr
<1>1. ControlOK /\ FetchOK /\ cu.state = "T1" /\ cu.next_state = "T1"
      /\ fetch.fetched = FALSE /\ NothingWritten
  BY DEF WidthsOK, Asked, Unit
<1>2. /\ Unit("T1", "T1")' /\ cu'.ir_fetch_start = FALSE /\ NothingWritten'
  BY <1>1, ControlDoes, InT1 DEF Unit, NothingWritten
<1>3. dpcr' = dpcr /\ Sent' /\ pc'.out = pc.out /\ First' = First /\ Second' = Second
      /\ Plus(pc.out, 1)' = Plus(pc.out, 1)
  BY <1>1, WhatStays DEF NothingWritten
<1>4. FetchNext
  BY DEF Step
<1>5. CASE Fetching("IDLE", "IDLE") /\ cu.ir_fetch_start = TRUE
  <2>1. Fetching("IDLE", "FETCH_1")' /\ fetch'.fetched = FALSE
    BY <1>1, <1>4, <1>5, FetchDoes DEF Fetching
  <2> QED BY <1>2, <1>3, <2>1 DEF Asked
<1>6. CASE Fetching("IDLE", "FETCH_1")
  <2>1. Fetching("FETCH_1", "FETCH_1")' /\ fetch'.fetched = FALSE
    BY <1>1, <1>4, <1>6, FetchDoes DEF Fetching
  <2> QED BY <1>2, <1>3, <2>1 DEF Asked
<1>7. CASE Fetching("FETCH_1", "FETCH_1")
  <2>1. Fetching("FETCH_1", "FETCH_2")' /\ fetch'.fetched = FALSE /\ pm'.port = pc.out
    BY <1>1, <1>4, <1>7, FetchDoes DEF Fetching
  <2> QED BY <1>2, <1>3, <2>1 DEF Asked
<1>8. CASE Fetching("FETCH_1", "FETCH_2") /\ pm.port = pc.out
  <2>1. Fetching("FETCH_2", "FETCH_2")' /\ fetch'.fetched = FALSE
        /\ pm'.port = pc.out /\ pm'.inside = pc.out
    BY <1>1, <1>4, <1>8, FetchDoes DEF Fetching
  <2> QED BY <1>2, <1>3, <2>1 DEF Asked
<1>9. CASE Fetching("FETCH_2", "FETCH_2") /\ pm.port = pc.out /\ pm.inside = pc.out
  <2>1. prog[pm.inside] = First /\ fetch'.state = "FETCH_2" /\ fetch'.inst_1 = First
        /\ pm'.inside = pc.out
    BY <1>1, <1>4, <1>9, FetchDoes DEF Fetching, First
  <2>2. CASE FirstOf(First)
    <3>1. fetch'.next_state = "FETCH_3" /\ fetch'.fetched = FALSE /\ pm'.port = Plus(pc.out, 1)
      BY <1>1, <1>4, <1>9, <2>1, <2>2, FetchDoes DEF Fetching
    <3>2. FirstOf(First)'
      BY <1>3, <2>2 DEF FirstOf
    <3> QED BY <1>2, <1>3, <2>1, <3>1, <3>2 DEF Asked, Fetching
  <2>3. CASE ~ FirstOf(First)
    <3>1. fetch'.next_state = "IDLE" /\ fetch'.fetched = TRUE /\ fetch'.inst_2 = 0
      BY <1>1, <1>4, <1>9, <2>1, <2>3, FetchDoes DEF Fetching
    <3>2. ~ FirstOf(First)'
      BY <1>3, <2>3 DEF FirstOf
    <3>3. Second = 0
      BY <2>3 DEF Second
    <3> QED BY <1>2, <1>3, <2>1, <3>1, <3>2, <3>3 DEF Answered, Fetching
  <2> QED BY <1>3, <2>2, <2>3
<1>10. CASE /\ Fetching("FETCH_2", "FETCH_3") /\ FirstOf(First) /\ fetch.inst_1 = First
            /\ pm.port = Plus(pc.out, 1) /\ pm.inside = pc.out
  <2>1. prog[pm.inside] = First
    BY <1>10 DEF First
  <2>2. Fetching("FETCH_3", "FETCH_3")' /\ fetch'.fetched = FALSE /\ fetch'.inst_1 = First
        /\ pm'.port = Plus(pc.out, 1) /\ pm'.inside = Plus(pc.out, 1)
    BY <1>1, <1>4, <1>10, <2>1, FetchDoes DEF Fetching
  <2>3. FirstOf(First)'
    BY <1>3, <1>10 DEF FirstOf
  <2> QED BY <1>2, <1>3, <2>2, <2>3 DEF Asked
<1>11. CASE /\ Fetching("FETCH_3", "FETCH_3") /\ FirstOf(First) /\ fetch.inst_1 = First
            /\ pm.port = Plus(pc.out, 1) /\ pm.inside = Plus(pc.out, 1)
  <2>1. prog[pm.inside] = Second
    BY <1>11 DEF Second
  <2>2. Fetching("FETCH_3", "IDLE")' /\ fetch'.fetched = TRUE /\ fetch'.inst_1 = First
        /\ fetch'.inst_2 = Second /\ pm'.inside = Plus(pc.out, 1)
    BY <1>1, <1>4, <1>11, <2>1, FetchDoes DEF Fetching
  <2>3. FirstOf(First)'
    BY <1>3, <1>11 DEF FirstOf
  <2> QED BY <1>2, <1>3, <2>2, <2>3 DEF Answered
<1> QED BY <1>5, <1>6, <1>7, <1>8, <1>9, <1>10, <1>11 DEF Asked

LEMMA AnsweredStep ==
  ASSUME WidthsOK, Step, UNCHANGED prog, Sends, Answered
  PROVE  Executing' /\ dpcr' = dpcr
<1>1. ControlOK /\ FetchOK /\ cu.state = "T1" /\ cu.next_state = "T1"
      /\ fetch.fetched = TRUE /\ NothingWritten /\ fetch.inst_1 = First /\ fetch.inst_2 = Second
  BY DEF WidthsOK, Answered, Unit
<1>2. /\ Unit("T1", "T2")' /\ cu'.ir_fetch_start = FALSE /\ NothingWritten'
  BY <1>1, ControlDoes, InT1 DEF Unit, NothingWritten
<1>3. dpcr' = dpcr /\ Sent' /\ First' = First /\ Second' = Second /\ ir' = Decode(First, Second)
  BY <1>1, WhatStays DEF NothingWritten
<1>4. Fetching("IDLE", "IDLE")' /\ fetch'.inst_1 = First /\ fetch'.inst_2 = Second
  <2>1. CASE Fetching("FETCH_2", "IDLE") /\ ~ FirstOf(First) /\ pm.inside = pc.out
    <3>1. prog[pm.inside] = First /\ Second = 0
      BY <2>1 DEF First, Second
    <3> QED BY <1>1, <2>1, <3>1, FetchDoes DEF Fetching, Step
  <2>2. CASE Fetching("FETCH_3", "IDLE") /\ FirstOf(First) /\ pm.inside = Plus(pc.out, 1)
    <3>1. prog[pm.inside] = Second
      BY <2>2 DEF Second
    <3> QED BY <1>1, <2>2, <3>1, FetchDoes DEF Fetching, Step
  <2> QED BY <2>1, <2>2 DEF Answered
<1>5. (ir = Decode(First, Second))'
  BY <1>3 DEF Decode
<1> QED BY <1>2, <1>3, <1>4, <1>5 DEF Executing, Held

(* While the fetch machine is idle, the instruction stays.                 *)
LEMMA HeldStays ==
  ASSUME WidthsOK, Step, UNCHANGED prog, Sends,
         Fetching("IDLE", "IDLE"), cu.ir_fetch_start = FALSE
  PROVE  /\ Fetching("IDLE", "IDLE")' /\ fetch'.fetched = FALSE
         /\ fetch'.inst_1 = fetch.inst_1 /\ fetch'.inst_2 = fetch.inst_2
BY FetchDoes DEF WidthsOK, Fetching, Step

LEMMA ExecutingStep ==
  ASSUME WidthsOK, Step, UNCHANGED prog, Sends, Executing
  PROVE  (Executing \/ Ending)' /\ dpcr' = dpcr
<1>1. ControlOK /\ FetchOK /\ NothingWritten /\ Held /\ fetch.inst_1 = First
      /\ fetch.inst_2 = Second /\ ir = Decode(First, Second)
  BY DEF WidthsOK, Executing, Held
<1>2. Fetching("IDLE", "IDLE")' /\ fetch'.inst_1 = First /\ fetch'.inst_2 = Second
  BY <1>1, HeldStays DEF Held
<1>3. dpcr' = dpcr /\ Sent' /\ First' = First /\ Second' = Second /\ ir' = ir
  BY <1>1, WhatStays DEF NothingWritten
<1>4. (ir = Decode(First, Second))'
  BY <1>1, <1>3 DEF Decode
<1>5. cu'.ir_fetch_start = FALSE => Held'
  BY <1>2, <1>3, <1>4 DEF Held
<1>6. CASE Unit("T1", "T2")
  <2>1. Unit("T2", "T2")' /\ cu'.ir_fetch_start = FALSE /\ NothingWritten'
    BY <1>1, <1>6, ControlDoes, InT1 DEF Unit, NothingWritten
  <2> QED BY <1>3, <1>5, <2>1 DEF Executing
<1>7. CASE Unit("T2", "T2") \/ Unit("T2", "T3")
  <2>1. (Unit("T2", "T3") \/ Unit("T3", "T3"))' /\ cu'.ir_fetch_start = FALSE /\ NothingWritten'
    BY <1>1, <1>7, ControlDoes, InT2 DEF Unit, NothingWritten
  <2> QED BY <1>3, <1>5, <2>1 DEF Executing
<1>8. CASE Unit("T3", "T3")
  <2>1. /\ Unit("T3", "T0")' /\ cu'.ir_fetch_start = FALSE
        /\ cu'.dpcr_write = (ir.opcode \in {datacall, datacall2})
        /\ ir.opcode \in {datacall, datacall2} => cu'.rf_write = FALSE
    BY <1>1, <1>8, ControlDoes, InT3 DEF Unit, NothingWritten
  <2> QED BY <1>3, <1>5, <2>1 DEF Ending
<1> QED BY <1>6, <1>7, <1>8 DEF Executing

LEMMA EndingStep ==
  ASSUME WidthsOK, Step, UNCHANGED prog, Sends, Ending
  PROVE  Ended'
<1>1. ControlOK /\ FetchOK /\ Held /\ cu.state = "T3" /\ cu.next_state = "T0"
  BY DEF WidthsOK, Ending, Unit
<1>2. Fetching("IDLE", "IDLE")'
  BY <1>1, HeldStays DEF Held
<1>3. ir' = ir
  BY <1>1, WhatStays DEF Held
<1>4. /\ cu'.state = "T0" /\ cu'.next_state = "T0" /\ cu'.ir_fetch_start = FALSE
      /\ cu'.dpcr_write = (ir.opcode \in {datacall, datacall2})
      /\ cu'.dpcr_sel = cu.dpcr_sel
  BY <1>1, ControlDoes, InT3
<1>5. CASE ir.opcode \in {datacall, datacall2}
  <2>1. cu.dpcr_write = TRUE /\ cu.rf_write = FALSE
    BY <1>5 DEF Ending
  <2>2. dpcr' = Call
    BY <2>1 DEF Step, DpcrNext, Call
  <2>3. regs' = regs
    BY <2>1, WhatStays
  <2>4. Call' = Call
    BY <1>3, <1>4, <2>3 DEF Call, rx
  <2> QED BY <1>2, <1>4, <2>2, <2>4 DEF Ended, Unit
<1>6. CASE ir.opcode \notin {datacall, datacall2}
  <2>1. cu'.dpcr_write = FALSE
    <3>1. (ir.opcode \in {datacall, datacall2}) = FALSE
      BY <1>6
    <3> QED BY <1>4, <3>1, Zenon
  <2> QED BY <1>2, <1>4, <2>1 DEF Ended, Unit
<1> QED BY <1>5, <1>6

LEMMA EndedStep ==
  ASSUME WidthsOK, Step, UNCHANGED prog, Sends, Ended
  PROVE  Fresh' /\ dpcr' = dpcr
<1>1. ControlOK /\ FetchOK /\ cu.state = "T0" /\ cu.next_state = "T0"
  BY DEF WidthsOK, Ended, Unit
<1>2. Fetching("IDLE", "IDLE")' /\ fetch'.fetched = FALSE
  BY HeldStays DEF Ended
<1>3. Unit("T0", "T1")' /\ NothingWritten'
  BY <1>1, ControlDoes, InT0 DEF Unit, NothingWritten
<1>4. dpcr' = dpcr
  BY WhatStays DEF Ended, Step, DpcrNext, Call
<1>5. Sent'
  BY <1>4 DEF Sends, Sent, Empty, Packet
<1> QED BY <1>2, <1>3, <1>4, <1>5 DEF Fresh

(* After a reset the machines stand where an instruction begins. *)
LEMMA ResetStep ==
  ASSUME WidthsOK, Reset, UNCHANGED prog
  PROVE  WidthsOK' /\ Fresh' /\ dpcr' = <<0, 0>>
<1>1. ControlOK /\ FetchOK /\ PathOK /\ 0 \in Pcs /\ 0 \in Word
  BY Sizes DEF WidthsOK
<1>2. /\ cu' = ControlReset /\ fetch' = FetchReset /\ ir' = Decode(0, 0)
      /\ pm' = [port |-> 0, inside |-> pm.port] /\ pc' = [out |-> 0, prev_write |-> FALSE]
      /\ regs' = [r \in 0 .. 15 |-> 0] /\ alu' = [result |-> 0, z_flag |-> FALSE]
      /\ dpcr' = <<0, 0>> /\ DmNext
  BY DEF Reset
<1>3. ControlOK'
  BY <1>2 DEF ControlOK, ControlReset
<1>4. FetchOK'
  BY <1>1, <1>2 DEF FetchOK, FetchReset
<1>5. PathOK'
  <2>1. Decode(0, 0) \in Instruction
    BY <1>1, Decoded
  <2>2. dm'.cell \in [0 .. DmSize - 1 -> Word] /\ dm'.q \in Word
    BY <1>1, <1>2, MemoryChanges
  <2> QED BY <1>1, <1>2, <2>1, <2>2 DEF PathOK
<1>6. Sent'
  BY <1>2 DEF Sent, Empty
<1>7. Fresh'
  BY <1>2, <1>6 DEF Fresh, Unit, Fetching, NothingWritten, ControlReset, FetchReset
<1> QED BY <1>2, <1>3, <1>4, <1>5, <1>7 DEF WidthsOK

----------------------------------------------------------------------------
ReCOPInv == WidthsOK /\ Phase /\ (reset => dpcr = <<0, 0>>)

LEMMA ProgramWords ==
  ASSUME NEW words \in Seq(Word)
  PROVE  write_mif(words, MifDepth, PcSize) \in [Pcs -> Word]
<1>1. 2^16 - 1 \in Word /\ 0 \in Word
  <2>1. 2^16 \in Nat \ {0}
    OBVIOUS
  <2> QED BY <2>1 DEF Word
<1>2. ASSUME NEW a \in Pcs, a < Len(words)
      PROVE  words[a + 1] \in Word
  <2>1. a \in Nat /\ a + 1 \in 1 .. Len(words)
    BY <1>2, Sizes DEF Pcs
  <2> QED BY <2>1
<1> QED BY <1>1, <1>2 DEF write_mif, Pcs

LEMMA InitInv == RInit => ReCOPInv
<1> SUFFICES ASSUME NEW s \in Sources, StartOf(s) PROVE ReCOPInv
  BY DEF RInit
<1>1. prog \in [Pcs -> Word]
  <2>1. assemble(s) \in Seq(Word)
    BY SourcesAssumption
  <2> QED BY <2>1, ProgramWords DEF StartOf
<1>2. Init /\ 0 \in Pcs /\ 0 \in Word
  BY Sizes DEF StartOf
<1>3. ControlOK
  BY <1>2 DEF Init, ControlOK, ControlReset
<1>4. FetchOK
  BY <1>2 DEF Init, FetchOK, FetchReset
<1>5. PathOK
  <2>1. Decode(0, 0) \in Instruction
    BY <1>2, Decoded
  <2>2. /\ dm.cell = [a \in 0 .. DmSize - 1 |-> 0] /\ dm.q = 0
        /\ dpcr = <<0, 0>> /\ regs = [r \in 0 .. 15 |-> 0] /\ alu.result = 0 /\ pc.out = 0
        /\ ir = Decode(0, 0)
    BY <1>2 DEF Init
  <2> QED BY <1>1, <1>2, <2>1, <2>2 DEF PathOK
<1>6. Fresh /\ dpcr = <<0, 0>>
  <2>1. Sent
    BY <1>2 DEF Init, Sent, Empty
  <2> QED BY <1>2, <2>1
          DEF Init, Fresh, Unit, Fetching, NothingWritten, ControlReset, FetchReset
<1> QED BY <1>3, <1>4, <1>5, <1>6 DEF ReCOPInv, WidthsOK, Phase

LEMMA RunningSends ==
  ASSUME NEW pressed, NEW sw, Running(pressed, sw)
  PROVE  Sends
BY DEF Running, Supervise, Send, Sends

(* DPCR changes only at the end of a data call, and the word it held has   *)
(* been sent by then.                                                      *)
LEMMA RunningStep ==
  ASSUME ReCOPInv, NEW pressed, NEW sw, Running(pressed, sw)
  PROVE  ReCOPInv' /\ (dpcr' # dpcr => Sent)
<1>1. WidthsOK /\ Step /\ UNCHANGED prog /\ Sends /\ ~ reset'
  BY RunningSends DEF ReCOPInv, Running
<1>2. WidthsOK'
  BY <1>1, StepWidths
<1>3. CASE Fresh
  BY <1>1, <1>2, <1>3, FreshStep DEF ReCOPInv, Phase
<1>4. CASE Asked
  BY <1>1, <1>2, <1>4, AskedStep DEF ReCOPInv, Phase
<1>5. CASE Answered
  BY <1>1, <1>2, <1>5, AnsweredStep DEF ReCOPInv, Phase
<1>6. CASE Executing
  BY <1>1, <1>2, <1>6, ExecutingStep DEF ReCOPInv, Phase
<1>7. CASE Ending
  <2>1. Sent
    BY <1>7 DEF Ending
  <2> QED BY <1>1, <1>2, <1>7, <2>1, EndingStep DEF ReCOPInv, Phase
<1>8. CASE Ended
  BY <1>1, <1>2, <1>8, EndedStep DEF ReCOPInv, Phase
<1> QED BY <1>3, <1>4, <1>5, <1>6, <1>7, <1>8 DEF ReCOPInv, Phase

LEMMA ResettingStep ==
  ASSUME ReCOPInv, NEW pressed, NEW sw, Resetting(pressed, sw)
  PROVE  ReCOPInv' /\ (dpcr' # dpcr => reset')
<1>1. WidthsOK /\ Reset /\ UNCHANGED prog /\ (reset' \/ reset)
  BY DEF ReCOPInv, Resetting
<1>2. WidthsOK' /\ Fresh' /\ dpcr' = <<0, 0>>
  BY <1>1, ResetStep
<1> QED BY <1>1, <1>2 DEF ReCOPInv, Phase

LEMMA InvStep ==
  ASSUME ReCOPInv, [Next]_allVars
  PROVE  ReCOPInv'
<1>1. CASE UNCHANGED allVars
  BY <1>1 DEF allVars, vars, path, top, ReCOPInv, WidthsOK, ControlOK, FetchOK, PathOK,
              Phase, Fresh, Asked, Answered, Executing, Ending, Ended, Held, Unit, Fetching,
              First, Second, NothingWritten, Sent, Call, rx, Empty, Packet, Plus
<1>2. CASE Next
  BY <1>2, RunningStep, ResettingStep DEF Next, Clock
<1> QED BY <1>1, <1>2

(* The phases and the widths hold at every edge of every run: the          *)
(* invariant that the theorems below rest on.                              *)
THEOREM ReCOPInvariant == RSpec => []ReCOPInv
BY InitInv, InvStep, PTL DEF RSpec

(* Every register holds a value of its width: in particular the program    *)
(* counter never leaves the program memory (TypeOK).                       *)
THEOREM ReCOPTypeCorrect == RSpec => []TypeOK
<1>1. ReCOPInv => TypeOK
  BY DEF ReCOPInv, WidthsOK, ControlOK, PathOK, Pcs, TypeOK
<1> QED BY <1>1, ReCOPInvariant, PTL

(* The control unit never works on an instruction that is not, with both   *)
(* of its words, the one at the program counter: the edges of the fetch    *)
(* states are enough for every program, with resets at any edge            *)
(* (DecodedInTime).                                                        *)
THEOREM InstructionsAreDecodedInTime == RSpec => []DecodedInTime
<1>1. ASSUME ReCOPInv, cu.state \in {"T2", "T3"}
      PROVE  ir = Decode(First, Second)
  BY <1>1 DEF ReCOPInv, Phase, Fresh, Asked, Answered, Executing, Ending, Ended, Held, Unit
<1>2. ReCOPInv => DecodedInTime
  BY <1>1 DEF DecodedInTime, First, Second, FirstOf
<1> QED BY <1>2, ReCOPInvariant, PTL

(* A data call is on the send port before another one takes its place in   *)
(* DPCR, whatever keys are pressed (EveryCallSent).                        *)
THEOREM CallsAreSent == RSpec => EveryCallSent
<1>1. ReCOPInv /\ [Next]_allVars
        => [dpcr' # dpcr /\ ~ Empty(dpcr) /\ ~ reset' => sendSignal = Packet(dpcr)]_allVars
  BY RunningStep, ResettingStep DEF Next, Clock, Sent
<1> QED BY <1>1, ReCOPInvariant, PTL DEF RSpec, EveryCallSent

----------------------------------------------------------------------------
(* What a programmer sees, between two ends of an instruction. Until the   *)
(* control unit leaves T3 nothing has happened but that the zero flag may  *)
(* be early; at the next edge everything has but the second store of       *)
(* STRPC; the edge after it does everything again.                         *)
Same == /\ arch.pc = pc.out /\ arch.regs = regs /\ arch.dpcr = dpcr
        /\ arch.cell = dm.cell
Begun  == Same /\ cu.dm_write = FALSE /\ cu.alu_clr_z = FALSE
Idling == Begun /\ cu.alu_operation = "idle" /\ alu.z_flag = arch.z

Stepping == cu.pc_mode = PcMode(ir, cu.pc_mode)

Loads  == ir.opcode = ldr
Saves  == ir.opcode = str
Calls  == ir.opcode \in {datacall, datacall2}
Writes == ir.opcode \in {andr, orr, addr, subr, subvr, ldr, lsip}
Stored == ir.opcode \in {str, strpc}

(* What T2 selects for memory and call registers; T3 leaves it.            *)
MemorySelected ==
  /\ Loads /\ ir.am = am_register => cu.dm_sel_addr = "rx"
  /\ Loads /\ ir.am = am_direct => cu.dm_sel_addr = "value"
  /\ Saves /\ ir.am \in {am_immediate, am_register} => cu.dm_sel_addr = "rz"
  /\ Saves /\ ir.am = am_direct => cu.dm_sel_addr = "value"
  /\ Saves /\ ir.am = am_immediate => cu.dm_sel_in = "value"
  /\ Saves /\ ir.am \in {am_register, am_direct} => cu.dm_sel_in = "rx"
  /\ ir.opcode = strpc => cu.dm_sel_addr = "value" /\ cu.dm_sel_in = "pc"
  /\ Calls => cu.dpcr_sel = IF ir.opcode = datacall THEN "r7" ELSE "value"

InputSelected ==
  /\ ISA!Calculates => cu.rf_sel_in = "alu"
  /\ Loads /\ ir.am = am_immediate => cu.rf_sel_in = "value"
  /\ Loads /\ ir.am \in {am_register, am_direct} => cu.rf_sel_in = "dm"

Selected ==
  /\ Stepping /\ MemorySelected /\ InputSelected
  /\ cu.alu_operation = AluOperation(ir.opcode)
  /\ ISA!Calculates => Result = ISA!Calculated

(* What the data path makes of the selections. *)
Target ==
  IF cu.pc_mode = "rx" THEN rx % PcSize
  ELSE IF cu.pc_mode = "value" THEN ir.operand % PcSize
  ELSE IF cu.pc_mode = "incr_1" THEN Plus(pc.out, 1)
  ELSE Plus(pc.out, 2)
Input == CASE cu.rf_sel_in = "value" -> ir.operand
           [] cu.rf_sel_in = "alu"   -> Result
           [] cu.rf_sel_in = "sip"   -> 0
           [] cu.rf_sel_in = "dm"    -> dm.q
DmAddress == (CASE cu.dm_sel_addr = "value" -> ir.operand
                [] cu.dm_sel_addr = "rx"    -> rx
                [] cu.dm_sel_addr = "rz"    -> rz) % DmSize
DmData == CASE cu.dm_sel_in = "value" -> ir.operand
            [] cu.dm_sel_in = "pc"    -> pc.out
            [] cu.dm_sel_in = "rx"    -> rx

(* The cell that LDR loads, before anything of it is written, and those it *)
(* may load in inherent mode.                                              *)
Cells  == {arch.cell[a] : a \in 0 .. DmSize - 1}
Loaded == arch.cell[(IF ir.am = am_register THEN arch.regs[ir.rx] ELSE ir.operand) % DmSize]

Finishing ==
  /\ cu.rf_write = Writes
  /\ MemorySelected /\ InputSelected
  /\ ir.opcode = lsip => cu.rf_sel_in = "sip"
  /\ Loads /\ ir.am \in {am_direct, am_register} => dm.q = Loaded
  /\ Loads => alu.result = 0 /\ dm.q \in Cells
  /\ cu.alu_operation = "hold"
  /\ ISA!Calculates => alu.result = ISA!Calculated
  /\ cu.dm_write = Stored
  /\ cu.alu_clr_z = (ir.opcode = clfz)

Written ==
  IF ISA!Stores = <<>> THEN arch.cell
  ELSE [arch.cell EXCEPT ![ISA!Address] = ISA!Stores[1]]

FlagAfter == IF ISA!Calculates THEN ISA!Calculated = 0 ELSE arch.z /\ ir.opcode # clfz
CallAfter == IF ir.opcode = datacall THEN <<arch.regs[ir.rx], arch.regs[7]>>
             ELSE IF ir.opcode = datacall2 THEN <<arch.regs[ir.rx], ir.operand>>
             ELSE arch.dpcr

EndingSeen ==
  /\ Same /\ Finishing
  /\ cu.pc_write = TRUE /\ pc.prev_write = FALSE
  /\ Target = ISA!Next_pc
  /\ alu.z_flag = IF ISA!Calculates THEN ISA!Calculated = 0 ELSE arch.z

EndedSeen ==
  /\ Finishing
  /\ pc.prev_write = TRUE /\ pc.out = ISA!Next_pc
  /\ \E loaded \in ISA!Loadable : regs = ISA!Registers(loaded)
  /\ dpcr = CallAfter
  /\ dm.cell = Written
  /\ alu.z_flag = FlagAfter

Seen ==
  /\ alu.z_flag \in BOOLEAN /\ arch.z \in BOOLEAN
  /\ Unit("T0", "T1") => arch = Visible /\ Idling
  /\ Unit("T1", "T1") => Idling
  /\ Unit("T1", "T2") => Idling /\ fetch.fetched = TRUE
  /\ Unit("T2", "T2") => Idling /\ Stepping
  /\ Unit("T2", "T3") => Begun /\ alu.z_flag = arch.z /\ Selected
  /\ Unit("T3", "T3") => Begun /\ Selected /\ (ISA!Calculates \/ alu.z_flag = arch.z)
  /\ Unit("T3", "T0") /\ ISA!Known => EndingSeen
  /\ Unit("T0", "T0") /\ ISA!Known => ir = ISA!ir /\ EndedSeen

----------------------------------------------------------------------------
LEMMA SameBits == \A a, b : ISA!And(a, b) = And(a, b) /\ ISA!Or(a, b) = Or(a, b)
BY DEF ISA!And, ISA!Or, And, Or, ISA!Ones, Ones, ISA!WordOf, WordOf,
       ISA!SumFunctionOnSet, SumFunctionOnSet, ISA!FoldFunctionOnSet, FoldFunctionOnSet,
       ISA!MapThenFoldSet, MapThenFoldSet

LEMMA SameInstruction ==
  ASSUME arch.pc = pc.out
  PROVE  ISA!ir = Decode(First, Second)
BY DEF ISA!ir, ISA!Decode, Decode, ISA!Fat, Fat, FirstOf, First, Second, Plus,
       ISA!am_immediate, am_immediate, ISA!am_direct, am_direct

(* The instruction and what it means depend on what a programmer sees. *)
Keeps == arch' = arch /\ prog' = prog

LEMMA SameMeaning ==
  ASSUME Keeps
  PROVE  /\ ISA!ir' = ISA!ir /\ ISA!Known' = ISA!Known
         /\ ISA!Calculates' = ISA!Calculates /\ ISA!Calculated' = ISA!Calculated
         /\ ISA!Next_pc' = ISA!Next_pc /\ ISA!Loadable' = ISA!Loadable
         /\ \A v : ISA!Registers(v)' = ISA!Registers(v)
         /\ ISA!Address' = ISA!Address /\ ISA!Stores' = ISA!Stores
<1>1. ISA!ir' = ISA!ir
  BY DEF Keeps, ISA!ir
<1>2. ISA!rx' = ISA!rx /\ ISA!rz' = ISA!rz
  BY <1>1 DEF Keeps, ISA!rx, ISA!rz
<1>3. ISA!Known' = ISA!Known
  BY <1>1 DEF ISA!Known
<1>4. ISA!Calculates' = ISA!Calculates
  BY <1>1 DEF ISA!Calculates
<1>5. ISA!Calculated' = ISA!Calculated
  BY <1>1, <1>2 DEF ISA!Calculated
<1>6. ISA!Next_pc' = ISA!Next_pc
  BY <1>1, <1>2 DEF Keeps, ISA!Next_pc
<1>7. ISA!Loadable' = ISA!Loadable /\ \A v : ISA!Registers(v)' = ISA!Registers(v)
  BY <1>1, <1>2, <1>4, <1>5 DEF Keeps, ISA!Loadable, ISA!Registers
<1>8. ISA!Address' = ISA!Address
  BY <1>1, <1>2 DEF ISA!Address
<1>9. ISA!Stores' = ISA!Stores
  BY <1>1, <1>2, <1>6 DEF Keeps, ISA!Stores
<1> QED BY <1>1, <1>3, <1>4, <1>5, <1>6, <1>7, <1>8, <1>9

(* What the control unit does to the registers that lead the data path. *)
LEMMA PathSignals ==
  ASSUME ControlOK
  PROVE  /\ T0 => cu'.dm_write = FALSE /\ cu'.alu_operation = "idle" /\ cu'.alu_clr_z = FALSE
         /\ T1(ir, fetch.fetched) =>
              /\ cu'.dm_write = cu.dm_write /\ cu'.alu_operation = cu.alu_operation
              /\ cu'.alu_clr_z = FALSE
              /\ fetch.fetched = TRUE => cu'.pc_mode = PcMode(ir, cu.pc_mode)
BY DEF ControlOK, ControlReset, Defaults, T0, T1

LEMMA SelectSignals ==
  ASSUME ControlOK, T2(ir)
  PROVE  /\ cu'.dm_write = cu.dm_write /\ cu'.alu_clr_z = FALSE
         /\ cu'.alu_operation = AluOperation(ir.opcode)
         /\ cu'.alu_op1 = IF ir.opcode \in {subr, subvr} \/ ir.am = am_immediate
                          THEN "value" ELSE "rx"
         /\ cu'.alu_op2 = IF \/ ir.opcode \in {subvr}
                             \/ ir.opcode \in {andr, orr, addr} /\ ir.am = am_immediate
                          THEN "rx"
                          ELSE IF ir.opcode \in {subr, andr, orr, addr} THEN "rz"
                          ELSE cu.alu_op2
         /\ cu'.rf_sel_in =
              IF ir.opcode \in {andr, orr, addr, subr, subvr} THEN "alu"
              ELSE IF ir.opcode = ldr /\ ir.am = am_immediate THEN "value"
              ELSE IF ir.opcode = ldr /\ ir.am \in {am_register, am_direct} THEN "dm"
              ELSE cu.rf_sel_in
         /\ cu'.dm_sel_addr =
              IF ir.opcode \in {ldr} /\ ir.am = am_register THEN "rx"
              ELSE IF /\ ir.opcode \in {str}
                      /\ ir.am = am_immediate \/ ir.am = am_register THEN "rz"
              ELSE IF ir.opcode \in {strpc} \/ (ir.opcode \in {ldr, str} /\ ir.am = am_direct)
              THEN "value" ELSE cu.dm_sel_addr
         /\ cu'.dm_sel_in =
              IF ir.opcode = strpc THEN "pc"
              ELSE IF ir.opcode = str /\ ir.am = am_immediate THEN "value"
              ELSE IF ir.opcode = str /\ ir.am \in {am_register, am_direct} THEN "rx"
              ELSE cu.dm_sel_in
         /\ cu'.pc_mode = IF ir.opcode \in {jmp, present, sz} THEN PcMode(ir, cu.pc_mode)
                          ELSE cu.pc_mode
         /\ cu'.dpcr_sel = IF ir.opcode = datacall THEN "r7"
                           ELSE IF ir.opcode = datacall2 THEN "value" ELSE cu.dpcr_sel
<1> DEFINE d == Defaults
<1>1. /\ DOMAIN d = DOMAIN ControlReset
      /\ d.dm_write = cu.dm_write /\ d.alu_clr_z = FALSE /\ d.alu_op2 = cu.alu_op2
      /\ d.rf_sel_in = cu.rf_sel_in /\ d.dm_sel_addr = cu.dm_sel_addr
      /\ d.dm_sel_in = cu.dm_sel_in /\ d.pc_mode = cu.pc_mode /\ d.dpcr_sel = cu.dpcr_sel
  BY DEF ControlOK, ControlReset, Defaults
<1> HIDE DEF d
<1>2. /\ cu'.dm_write = d.dm_write /\ cu'.alu_clr_z = d.alu_clr_z
      /\ cu'.alu_operation = AluOperation(ir.opcode)
      /\ cu'.alu_op1 = IF ir.opcode \in {subr, subvr} \/ ir.am = am_immediate
                       THEN "value" ELSE "rx"
  BY <1>1 DEF d, ControlReset, T2
<1>3. cu'.alu_op2 = IF \/ ir.opcode \in {subvr}
                       \/ ir.opcode \in {andr, orr, addr} /\ ir.am = am_immediate
                    THEN "rx"
                    ELSE IF ir.opcode \in {subr, andr, orr, addr} THEN "rz" ELSE d.alu_op2
  BY <1>1 DEF d, ControlReset, T2
<1>4. cu'.rf_sel_in = IF ir.opcode \in {andr, orr, addr, subr, subvr} THEN "alu"
                      ELSE IF ir.opcode = ldr /\ ir.am = am_immediate THEN "value"
                      ELSE IF ir.opcode = ldr /\ ir.am \in {am_register, am_direct} THEN "dm"
                      ELSE d.rf_sel_in
  BY <1>1 DEF d, ControlReset, T2
<1>5. cu'.dm_sel_addr =
         IF ir.opcode \in {ldr} /\ ir.am = am_register THEN "rx"
         ELSE IF /\ ir.opcode \in {str}
                 /\ ir.am = am_immediate \/ ir.am = am_register THEN "rz"
         ELSE IF ir.opcode \in {strpc} \/ (ir.opcode \in {ldr, str} /\ ir.am = am_direct)
         THEN "value" ELSE d.dm_sel_addr
  BY <1>1 DEF d, ControlReset, T2
<1>6. cu'.dm_sel_in = IF ir.opcode = strpc THEN "pc"
                      ELSE IF ir.opcode = str /\ ir.am = am_immediate THEN "value"
                      ELSE IF ir.opcode = str /\ ir.am \in {am_register, am_direct} THEN "rx"
                      ELSE d.dm_sel_in
  BY <1>1 DEF d, ControlReset, T2
<1>7. cu'.pc_mode = IF ir.opcode \in {jmp, present, sz} THEN PcMode(ir, d.pc_mode)
                    ELSE d.pc_mode
  BY <1>1 DEF d, ControlReset, T2
<1>8. cu'.dpcr_sel = IF ir.opcode = datacall THEN "r7"
                     ELSE IF ir.opcode = datacall2 THEN "value" ELSE d.dpcr_sel
  BY <1>1 DEF d, ControlReset, T2
<1> QED BY <1>1, <1>2, <1>3, <1>4, <1>5, <1>6, <1>7, <1>8

LEMMA EndSignals ==
  ASSUME ControlOK, T3(ir, rz = 0, alu.z_flag)
  PROVE  /\ cu'.pc_write = TRUE /\ cu'.alu_operation = "hold"
         /\ cu'.rf_write = IF Writes THEN TRUE ELSE cu.rf_write
         /\ cu'.rf_sel_in = IF ir.opcode = lsip THEN "sip" ELSE cu.rf_sel_in
         /\ cu'.dm_write = IF Stored THEN TRUE ELSE cu.dm_write
         /\ cu'.dpcr_write = Calls
         /\ cu'.alu_clr_z = (ir.opcode = clfz)
         /\ cu'.pc_mode = IF (ir.opcode = present /\ rz # 0) \/ (ir.opcode = sz /\ ~ alu.z_flag)
                          THEN "incr_2" ELSE cu.pc_mode
         /\ cu'.dm_sel_addr = cu.dm_sel_addr /\ cu'.dm_sel_in = cu.dm_sel_in
         /\ cu'.dpcr_sel = cu.dpcr_sel
<1> DEFINE d == Defaults
<1>1. /\ DOMAIN d = DOMAIN ControlReset
      /\ d.dm_write = cu.dm_write /\ d.rf_write = cu.rf_write
      /\ d.rf_sel_in = cu.rf_sel_in /\ d.dm_sel_addr = cu.dm_sel_addr
      /\ d.dm_sel_in = cu.dm_sel_in /\ d.pc_mode = cu.pc_mode /\ d.dpcr_sel = cu.dpcr_sel
  BY DEF ControlOK, ControlReset, Defaults
<1> HIDE DEF d
<1>2. /\ cu'.pc_write = TRUE /\ cu'.alu_operation = "hold"
      /\ cu'.dm_sel_addr = d.dm_sel_addr /\ cu'.dm_sel_in = d.dm_sel_in
      /\ cu'.dpcr_sel = d.dpcr_sel
  BY <1>1 DEF d, ControlReset, T3
<1>3. cu'.rf_write = IF Writes THEN TRUE ELSE d.rf_write
  BY <1>1 DEF d, ControlReset, T3, Writes
<1>4. cu'.rf_sel_in = IF ir.opcode = lsip THEN "sip" ELSE d.rf_sel_in
  BY <1>1 DEF d, ControlReset, T3
<1>5. cu'.dm_write = IF Stored THEN TRUE ELSE d.dm_write
  BY <1>1 DEF d, ControlReset, T3, Stored
<1>6. cu'.dpcr_write = Calls
  BY <1>1 DEF d, ControlReset, T3, Calls
<1>7. cu'.alu_clr_z = (ir.opcode = clfz)
  BY <1>1 DEF d, ControlReset, T3
<1>8. cu'.pc_mode = IF (ir.opcode = present /\ rz # 0) \/ (ir.opcode = sz /\ ~ alu.z_flag)
                    THEN "incr_2" ELSE d.pc_mode
  BY <1>1 DEF d, ControlReset, T3
<1> QED BY <1>1, <1>2, <1>3, <1>4, <1>5, <1>6, <1>7, <1>8

(* What the instruction means, in the words of the hardware. *)
Rx == arch.regs[ir.rx]
Rz == arch.regs[ir.rz]
Op1 == IF ir.am = am_immediate \/ ir.opcode \in {subr, subvr} THEN ir.operand ELSE Rx
Op2 == IF ir.opcode = subvr \/ (ir.opcode # subr /\ ir.am = am_immediate) THEN Rx ELSE Rz
Known == /\ Saves => ir.am # am_inherent
         /\ ir.opcode = jmp => ir.am \in {am_immediate, am_register}
Computes == ir.opcode \in {andr, orr, addr, subr, subvr}
Jumps == ir.opcode = jmp \/ (ir.opcode = present /\ Rz = 0) \/ (ir.opcode = sz /\ arch.z)

LEMMA Numbers ==
  /\ ISA!ldr = ldr /\ ISA!str = str /\ ISA!jmp = jmp /\ ISA!present = present
  /\ ISA!andr = andr /\ ISA!orr = orr /\ ISA!addr = addr /\ ISA!subr = subr
  /\ ISA!subvr = subvr /\ ISA!clfz = clfz /\ ISA!sz = sz /\ ISA!lsip = lsip
  /\ ISA!datacall = datacall /\ ISA!datacall2 = datacall2 /\ ISA!strpc = strpc
  /\ ISA!am_inherent = am_inherent /\ ISA!am_immediate = am_immediate
  /\ ISA!am_direct = am_direct /\ ISA!am_register = am_register
  /\ \A am : ISA!Fat(am) <=> Fat(am)
BY DEF ISA!ldr, ldr, ISA!str, str, ISA!jmp, jmp, ISA!present, present, ISA!andr, andr,
       ISA!orr, orr, ISA!addr, addr, ISA!subr, subr, ISA!subvr, subvr, ISA!clfz, clfz,
       ISA!sz, sz, ISA!lsip, lsip, ISA!datacall, datacall, ISA!datacall2, datacall2,
       ISA!strpc, strpc, ISA!am_inherent, am_inherent, ISA!am_immediate, am_immediate,
       ISA!am_direct, am_direct, ISA!am_register, am_register, ISA!Fat, Fat

LEMMA Meaning ==
  ASSUME ISA!ir = ir
  PROVE  /\ ISA!Known <=> Known
         /\ ISA!Calculates <=> Computes
         /\ ISA!Calculated = CASE ir.opcode = andr -> And(Op2, Op1)
                               [] ir.opcode = orr  -> Or(Op2, Op1)
                               [] ir.opcode = addr -> (Op2 + Op1) % 2^16
                               [] OTHER            -> (Op2 - Op1) % 2^16
         /\ ISA!Next_pc =
              (IF Jumps THEN IF ir.opcode = jmp /\ ir.am = am_register THEN Rx ELSE ir.operand
               ELSE arch.pc + (IF ir.opcode \in {present, sz} \/ Fat(ir.am)
                               THEN 2 ELSE 1)) % PcSize
         /\ ISA!Loadable = IF ir.am = am_immediate THEN {ir.operand}
                           ELSE IF ir.am = am_inherent THEN {0} \cup Cells ELSE {Loaded}
         /\ \A v : ISA!Registers(v) =
              IF Computes THEN [arch.regs EXCEPT ![ir.rz] = ISA!Calculated]
              ELSE IF Loads THEN [arch.regs EXCEPT ![ir.rz] = v]
              ELSE IF ir.opcode = lsip THEN [arch.regs EXCEPT ![ir.rz] = 0]
              ELSE arch.regs
         /\ ISA!Address = (IF Saves /\ ir.am # am_direct THEN Rz ELSE ir.operand) % DmSize
         /\ ISA!Stores = IF ir.opcode = strpc THEN <<arch.pc, ISA!Next_pc>>
                         ELSE IF Saves
                         THEN <<IF ir.am = am_immediate THEN ir.operand ELSE Rx>>
                         ELSE <<>>
<1>1. ISA!rx = Rx /\ ISA!rz = Rz
  BY DEF ISA!rx, ISA!rz, Rx, Rz
<1>2. ISA!Known <=> Known
  BY Numbers DEF ISA!Known, Known, Loads, Saves
<1>3. ISA!Calculates <=> Computes
  BY Numbers DEF ISA!Calculates, Computes
<1>4. ISA!Calculated = CASE ir.opcode = andr -> And(Op2, Op1)
                         [] ir.opcode = orr  -> Or(Op2, Op1)
                         [] ir.opcode = addr -> (Op2 + Op1) % 2^16
                         [] OTHER            -> (Op2 - Op1) % 2^16
  BY <1>1, Numbers, SameBits DEF ISA!Calculated, Op1, Op2
<1>5. ISA!Next_pc =
        (IF Jumps THEN IF ir.opcode = jmp /\ ir.am = am_register THEN Rx ELSE ir.operand
         ELSE arch.pc + (IF ir.opcode \in {present, sz} \/ Fat(ir.am) THEN 2 ELSE 1)) % PcSize
  BY <1>1, Numbers DEF ISA!Next_pc, Jumps
<1>6. /\ ISA!Loadable = IF ir.am = am_immediate THEN {ir.operand}
                        ELSE IF ir.am = am_inherent THEN {0} \cup Cells ELSE {Loaded}
      /\ \A v : ISA!Registers(v) =
           IF Computes THEN [arch.regs EXCEPT ![ir.rz] = ISA!Calculated]
           ELSE IF Loads THEN [arch.regs EXCEPT ![ir.rz] = v]
           ELSE IF ir.opcode = lsip THEN [arch.regs EXCEPT ![ir.rz] = 0]
           ELSE arch.regs
  BY <1>1, <1>3, Numbers DEF ISA!Registers, ISA!Loadable, Loads, Loaded, Cells, Rx
<1>7. ISA!Address = (IF Saves /\ ir.am # am_direct THEN Rz ELSE ir.operand) % DmSize
  BY <1>1, Numbers DEF ISA!Address, Saves
<1>8. ISA!Stores = IF ir.opcode = strpc THEN <<arch.pc, ISA!Next_pc>>
                   ELSE IF Saves THEN <<IF ir.am = am_immediate THEN ir.operand ELSE Rx>>
                   ELSE <<>>
  BY <1>1, Numbers DEF ISA!Stores, Saves
<1> QED BY <1>2, <1>3, <1>4, <1>5, <1>6, <1>7, <1>8

(* The data path, in the words of its selections. *)
LEMMA PathDoes ==
  ASSUME Step
  PROVE  /\ pc'.out = IF cu.pc_write /\ ~ pc.prev_write THEN Target ELSE pc.out
         /\ pc'.prev_write = cu.pc_write
         /\ alu'.result = Result
         /\ alu'.z_flag = IF cu.alu_clr_z THEN FALSE
                          ELSE IF cu.alu_operation \in {"add", "sub", "and", "or"}
                          THEN Result = 0 ELSE alu.z_flag
         /\ regs' = IF cu.rf_write THEN [regs EXCEPT ![ir.rz] = Input] ELSE regs
         /\ dm'.cell = IF cu.dm_write THEN [dm.cell EXCEPT ![DmAddress] = DmData] ELSE dm.cell
         /\ dm'.q = dm'.cell[DmAddress]
         /\ dpcr' = IF cu.dpcr_write THEN Call ELSE dpcr
<1>1. /\ pc'.out = IF cu.pc_write /\ ~ pc.prev_write THEN Target ELSE pc.out
      /\ pc'.prev_write = cu.pc_write
  BY DEF Step, PcNext, Target
<1>2. /\ alu'.result = Result
      /\ alu'.z_flag = IF cu.alu_clr_z THEN FALSE
                       ELSE IF cu.alu_operation \in {"add", "sub", "and", "or"}
                       THEN Result = 0 ELSE alu.z_flag
  BY Zenon DEF Step, AluNext
<1>3. regs' = IF cu.rf_write THEN [regs EXCEPT ![ir.rz] = Input] ELSE regs
  BY DEF Step, RegsNext, Input
<1>4. /\ dm'.cell = IF cu.dm_write THEN [dm.cell EXCEPT ![DmAddress] = DmData] ELSE dm.cell
      /\ dm'.q = dm'.cell[DmAddress]
  <2> DEFINE cell == IF cu.dm_write THEN [dm.cell EXCEPT ![DmAddress] = DmData] ELSE dm.cell
  <2>1. dm' = [cell |-> cell, q |-> cell[DmAddress]]
    BY Zenon DEF Step, DmNext, DmAddress, DmData
  <2> HIDE DEF cell
  <2>2. dm'.cell = cell /\ dm'.q = cell[DmAddress]
    BY <2>1
  <2> QED BY <2>2 DEF cell
<1>5. dpcr' = IF cu.dpcr_write THEN Call ELSE dpcr
  BY DEF Step, DpcrNext, Call
<1> QED BY <1>1, <1>2, <1>3, <1>4, <1>5

LEMMA NothingHappens ==
  ASSUME WidthsOK, Step, Keeps, NothingWritten, Begun
  PROVE  /\ Same' /\ regs' = regs /\ pc'.out = pc.out /\ pc'.prev_write = FALSE
         /\ cu.alu_operation = "idle" => alu'.z_flag = alu.z_flag
<1>1. pc'.out = pc.out /\ pc'.prev_write = FALSE
  BY PathDoes DEF NothingWritten
<1>2. regs' = regs /\ dpcr' = dpcr /\ dm'.cell = dm.cell
  BY PathDoes DEF NothingWritten, Begun
<1>3. cu.alu_operation = "idle" => alu'.z_flag = alu.z_flag
  BY PathDoes DEF Begun
<1> QED BY <1>1, <1>2, <1>3 DEF Same, Keeps, Begun

LEMMA FlagStaysBoolean ==
  ASSUME alu.z_flag \in BOOLEAN, Step
  PROVE  alu'.z_flag \in BOOLEAN
<1>1. (Result = 0) \in BOOLEAN /\ FALSE \in BOOLEAN
  OBVIOUS
<1> QED BY <1>1, PathDoes, Zenon

(* The steps from phase to phase. A step that the control unit begins      *)
(* outside T0 leaves what a programmer sees.                               *)
LEMMA FreshSeen ==
  ASSUME ReCOPInv, Seen, Step, UNCHANGED prog, Sends, Unit("T0", "T1"), arch' = Visible'
  PROVE  Seen' /\ arch' = arch
<1>1. WidthsOK /\ ControlOK /\ Fresh /\ NothingWritten /\ Begun /\ Idling /\ arch = Visible
  BY DEF ReCOPInv, WidthsOK, Seen, Idling, Phase, Fresh, Asked, Answered, Executing, Ending,
         Ended, Unit
<1>2. T0 /\ Unit("T1", "T1")'
  BY <1>1, ControlDoes, FreshStep DEF Asked, Unit
<1>3. /\ cu'.dm_write = FALSE /\ cu'.alu_operation = "idle" /\ cu'.alu_clr_z = FALSE
  BY <1>1, <1>2, PathSignals
<1>4. pc'.out = pc.out /\ regs' = regs /\ dm'.cell = dm.cell /\ dpcr' = dpcr
      /\ alu'.z_flag = alu.z_flag
  BY <1>1, PathDoes DEF NothingWritten, Idling, Begun
<1>5. arch' = arch
  BY <1>1, <1>4 DEF Visible
<1>6. Idling'
  BY <1>1, <1>3, <1>4, <1>5 DEF Idling, Begun, Same
<1>7. (alu.z_flag \in BOOLEAN /\ arch.z \in BOOLEAN)'
  BY <1>4, <1>5 DEF Seen
<1> QED BY <1>2, <1>5, <1>6, <1>7 DEF Seen, Unit

LEMMA WaitingSeen ==
  ASSUME ReCOPInv, Seen, Step, UNCHANGED prog, Sends, Unit("T1", "T1"), arch' = arch
  PROVE  Seen'
<1>1. WidthsOK /\ ControlOK /\ (Asked \/ Answered) /\ NothingWritten /\ Begun /\ Idling
  BY DEF ReCOPInv, WidthsOK, Seen, Idling, Phase, Fresh, Asked, Answered, Executing, Ending,
         Ended, Unit
<1>2. T1(ir, fetch.fetched)
  BY <1>1, ControlDoes DEF Unit
<1>3. cu'.dm_write = FALSE /\ cu'.alu_operation = "idle" /\ cu'.alu_clr_z = FALSE
  BY <1>1, <1>2, PathSignals DEF Idling, Begun
<1>4. Same' /\ alu'.z_flag = alu.z_flag
  BY <1>1, NothingHappens DEF Idling, Keeps
<1>5. Idling'
  BY <1>1, <1>3, <1>4 DEF Idling, Begun
<1>6. Unit("T1", "T1")' \/ (Unit("T1", "T2")' /\ fetch'.fetched = TRUE)
  <2>1. FetchOK /\ FetchNext /\ ControlOK
    BY DEF ReCOPInv, WidthsOK, Step
  <2>2. CASE fetch.fetched = TRUE
    <3>1. Answered
      BY <1>1, <2>2 DEF Asked
    <3>2. Unit("T1", "T2")'
      BY <2>1, <2>2, <1>2, InT1 DEF Unit
    <3>3. fetch'.fetched = TRUE
      <4>1. CASE Fetching("FETCH_2", "IDLE") /\ ~ FirstOf(First) /\ pm.inside = pc.out
        BY <2>1, <4>1, FetchDoes DEF Fetching, First
      <4>2. CASE Fetching("FETCH_3", "IDLE")
        BY <2>1, <4>2, FetchDoes DEF Fetching
      <4> QED BY <3>1, <4>1, <4>2 DEF Answered
    <3> QED BY <3>2, <3>3
  <2>3. CASE fetch.fetched = FALSE
    BY <2>1, <2>3, <1>2, InT1 DEF Unit
  <2> QED BY <1>1, <2>2, <2>3 DEF Asked, Answered
<1>7. (alu.z_flag \in BOOLEAN /\ arch.z \in BOOLEAN)'
  BY <1>4 DEF Seen
<1> QED BY <1>5, <1>6, <1>7 DEF Seen, Unit

(* While the control unit works on the instruction.                        *)
LEMMA Working ==
  ASSUME ReCOPInv, Step, UNCHANGED prog, Sends, Executing
  PROVE  /\ WidthsOK /\ ControlOK /\ PathOK /\ NothingWritten
         /\ ir = Decode(First, Second) /\ ir' = ir
<1>1. WidthsOK /\ ControlOK /\ PathOK /\ NothingWritten /\ Held
  BY DEF ReCOPInv, WidthsOK, Executing
<1>2. ir' = Decode(fetch.inst_1, fetch.inst_2)
  BY <1>1, WhatStays
<1> QED BY <1>1, <1>2 DEF Held

LEMMA DecodedSeen ==
  ASSUME ReCOPInv, Seen, Step, UNCHANGED prog, Sends, Unit("T1", "T2"), arch' = arch
  PROVE  Seen'
<1>1. Executing /\ Begun /\ Idling /\ fetch.fetched = TRUE
  BY DEF ReCOPInv, Seen, Idling, Phase, Fresh, Asked, Answered, Executing, Ending, Ended, Unit
<1>2. WidthsOK /\ ControlOK /\ NothingWritten /\ ir' = ir
  BY <1>1, Working
<1>3. T1(ir, fetch.fetched) /\ Unit("T2", "T2")'
  BY <1>1, <1>2, ControlDoes, InT1 DEF Unit
<1>4. /\ cu'.dm_write = FALSE /\ cu'.alu_operation = "idle" /\ cu'.alu_clr_z = FALSE
      /\ cu'.pc_mode = PcMode(ir, cu.pc_mode)
  BY <1>1, <1>2, <1>3, PathSignals DEF Idling, Begun
<1>5. Same' /\ alu'.z_flag = alu.z_flag
  BY <1>1, <1>2, NothingHappens DEF Idling, Keeps
<1>6. Idling'
  BY <1>1, <1>4, <1>5 DEF Idling, Begun
<1>7. Stepping'
  BY <1>2, <1>4 DEF Stepping, PcMode
<1>8. (alu.z_flag \in BOOLEAN /\ arch.z \in BOOLEAN)'
  BY <1>5 DEF Seen
<1> QED BY <1>3, <1>6, <1>7, <1>8 DEF Seen, Unit

(* What T2 selects is what the instruction means, and T2 at its second     *)
(* edge selects it again.                                                  *)
LEMMA Selects ==
  ASSUME WidthsOK, Step, Keeps, T2(ir), Stepping, NothingWritten, Begun,
         ir = Decode(First, Second), ir' = ir
  PROVE  Selected'
<1>1. ControlOK /\ ISA!ir = ir
  BY SameInstruction DEF WidthsOK, Begun, Same
<1>2. regs' = regs /\ arch.regs = regs
  BY NothingHappens DEF Begun, Same
<1>3. Stepping'
  BY <1>1, SelectSignals DEF Stepping, PcMode
<1>4. MemorySelected'
  <2>1. /\ cu'.dm_sel_addr =
              IF ir.opcode \in {ldr} /\ ir.am = am_register THEN "rx"
              ELSE IF /\ ir.opcode \in {str}
                      /\ ir.am = am_immediate \/ ir.am = am_register THEN "rz"
              ELSE IF ir.opcode \in {strpc} \/ (ir.opcode \in {ldr, str} /\ ir.am = am_direct)
              THEN "value" ELSE cu.dm_sel_addr
        /\ cu'.dm_sel_in =
              IF ir.opcode = strpc THEN "pc"
              ELSE IF ir.opcode = str /\ ir.am = am_immediate THEN "value"
              ELSE IF ir.opcode = str /\ ir.am \in {am_register, am_direct} THEN "rx"
              ELSE cu.dm_sel_in
        /\ cu'.dpcr_sel = IF ir.opcode = datacall THEN "r7"
                          ELSE IF ir.opcode = datacall2 THEN "value" ELSE cu.dpcr_sel
    BY <1>1, SelectSignals
  <2> QED BY <2>1 DEF MemorySelected, Loads, Saves, Calls, ldr, str, strpc, datacall,
             datacall2, am_immediate, am_register, am_direct
<1>5. ISA!Calculates' = ISA!Calculates /\ ISA!Calculated' = ISA!Calculated
      /\ (ISA!Calculates <=> Computes)
  BY <1>1, SameMeaning, Meaning
<1>6. InputSelected'
  <2>1. cu'.rf_sel_in = IF ir.opcode \in {andr, orr, addr, subr, subvr} THEN "alu"
                        ELSE IF ir.opcode = ldr /\ ir.am = am_immediate THEN "value"
                        ELSE IF ir.opcode = ldr /\ ir.am \in {am_register, am_direct} THEN "dm"
                        ELSE cu.rf_sel_in
    BY <1>1, SelectSignals
  <2> QED BY <1>5, <2>1 DEF InputSelected, Computes, Loads, ldr, andr, orr, addr, subr,
             subvr, am_immediate, am_register, am_direct
<1>7. cu'.alu_operation = AluOperation(ir'.opcode)
  BY <1>1, SelectSignals
<1>8. ASSUME Computes PROVE Result' = ISA!Calculated
  <2>1. /\ cu'.alu_op1 = IF ir.opcode \in {subr, subvr} \/ ir.am = am_immediate
                         THEN "value" ELSE "rx"
        /\ cu'.alu_op2 = IF \/ ir.opcode \in {subvr}
                            \/ ir.opcode \in {andr, orr, addr} /\ ir.am = am_immediate
                         THEN "rx"
                         ELSE IF ir.opcode \in {subr, andr, orr, addr} THEN "rz"
                         ELSE cu.alu_op2
    BY <1>1, SelectSignals
  <2>2. rx' = Rx /\ rz' = Rz
    BY <1>2 DEF rx, rz, Rx, Rz
  <2>3. (IF cu.alu_op1 = "rx" THEN rx ELSE ir.operand)' = Op1
    BY <2>1, <2>2 DEF Op1
  <2>4. (IF cu.alu_op2 = "rx" THEN rx ELSE rz)' = Op2
    BY <1>8, <2>1, <2>2 DEF Op2, Computes, andr, orr, addr, subr, subvr
  <2>5. Result' = CASE cu'.alu_operation = "add"  -> (Op2 + Op1) % 2^16
                    [] cu'.alu_operation = "sub"  -> (Op2 - Op1) % 2^16
                    [] cu'.alu_operation = "and"  -> And(Op2, Op1)
                    [] cu'.alu_operation = "or"   -> Or(Op2, Op1)
                    [] cu'.alu_operation = "hold" -> alu'.result
                    [] cu'.alu_operation = "idle" -> 0
    BY <2>3, <2>4, Zenon DEF Result, And, Or, Ones, WordOf
  <2>6. ISA!Calculated = CASE ir.opcode = andr -> And(Op2, Op1)
                           [] ir.opcode = orr  -> Or(Op2, Op1)
                           [] ir.opcode = addr -> (Op2 + Op1) % 2^16
                           [] OTHER            -> (Op2 - Op1) % 2^16
    BY <1>1, Meaning
  <2>7. cu'.alu_operation = AluOperation(ir.opcode)
    BY <1>1, SelectSignals
  <2> QED BY <1>8, <2>5, <2>6, <2>7
          DEF AluOperation, Computes, andr, orr, addr, subr, subvr
<1> QED BY <1>3, <1>4, <1>5, <1>6, <1>7, <1>8 DEF Selected

LEMMA SelectingSeen ==
  ASSUME ReCOPInv, Seen, Step, UNCHANGED prog, Sends, Unit("T2", "T2"), arch' = arch
  PROVE  Seen'
<1>1. Executing /\ Begun /\ Idling /\ Stepping
  BY DEF ReCOPInv, Seen, Idling, Phase, Fresh, Asked, Answered, Executing, Ending, Ended, Unit
<1>2. WidthsOK /\ ControlOK /\ NothingWritten /\ ir = Decode(First, Second) /\ ir' = ir
  BY <1>1, Working
<1>3. T2(ir) /\ Unit("T2", "T3")'
  BY <1>1, <1>2, ControlDoes, InT2 DEF Unit
<1>4. cu'.dm_write = FALSE /\ cu'.alu_clr_z = FALSE
  BY <1>1, <1>2, <1>3, SelectSignals DEF Begun
<1>5. Same' /\ alu'.z_flag = alu.z_flag
  BY <1>1, <1>2, NothingHappens DEF Idling, Keeps
<1>6. Selected'
  BY <1>1, <1>2, <1>3, Selects DEF Keeps
<1>7. (alu.z_flag \in BOOLEAN /\ arch.z \in BOOLEAN)'
  BY <1>5 DEF Seen
<1>8. (alu.z_flag = arch.z)'
  BY <1>1, <1>5 DEF Idling
<1> QED BY <1>3, <1>4, <1>5, <1>6, <1>7, <1>8 DEF Seen, Unit, Begun

LEMMA SelectedSeen ==
  ASSUME ReCOPInv, Seen, Step, UNCHANGED prog, Sends, Unit("T2", "T3"), arch' = arch
  PROVE  Seen'
<1>1. Executing /\ Begun /\ Selected /\ alu.z_flag = arch.z
  BY DEF ReCOPInv, Seen, Phase, Fresh, Asked, Answered, Executing, Ending, Ended, Unit
<1>2. WidthsOK /\ ControlOK /\ NothingWritten /\ ir = Decode(First, Second) /\ ir' = ir
  BY <1>1, Working
<1>3. T2(ir) /\ Unit("T3", "T3")'
  BY <1>1, <1>2, ControlDoes, InT2 DEF Unit
<1>4. cu'.dm_write = FALSE /\ cu'.alu_clr_z = FALSE
  BY <1>1, <1>2, <1>3, SelectSignals DEF Begun
<1>5. Same'
  BY <1>1, <1>2, NothingHappens DEF Keeps
<1>6. Selected'
  BY <1>1, <1>2, <1>3, Selects DEF Keeps, Selected
<1>7. ISA!Calculates' \/ alu'.z_flag = arch'.z
  <2>1. ISA!ir = ir
    BY <1>1, <1>2, SameInstruction DEF Begun, Same
  <2>2. (ISA!Calculates <=> Computes) /\ ISA!Calculates' = ISA!Calculates
    BY <2>1, Meaning, SameMeaning DEF Keeps
  <2>3. ~ Computes => cu.alu_operation = "idle"
    BY <1>1 DEF Selected, AluOperation, Computes
  <2>4. ~ Computes => alu'.z_flag = alu.z_flag
    BY <1>1, <1>2, <2>3, NothingHappens DEF Keeps
  <2> QED BY <1>1, <2>2, <2>4
<1>8. (alu.z_flag \in BOOLEAN /\ arch.z \in BOOLEAN)'
  BY FlagStaysBoolean DEF Seen
<1> QED BY <1>3, <1>4, <1>5, <1>6, <1>7, <1>8 DEF Seen, Unit, Begun

LEMMA AddressInMemory ==
  ASSUME ControlOK, PathOK
  PROVE  DmAddress \in 0 .. DmSize - 1
<1>1. ir.operand \in Nat /\ rx \in Nat /\ rz \in Nat
  BY Operands, WordsAreNaturals
<1>2. ir.operand % DmSize \in 0 .. DmSize - 1 /\ rx % DmSize \in 0 .. DmSize - 1
      /\ rz % DmSize \in 0 .. DmSize - 1
  BY <1>1, Sizes
<1> QED BY <1>2 DEF ControlOK, DmAddress

(* Addresses and data of the memory, once T2 has selected them.            *)
LEMMA Places ==
  ASSUME PathOK, MemorySelected, Known, ISA!ir = ir, rx = Rx, rz = Rz
  PROVE  /\ Loads /\ ir.am \in {am_direct, am_register} =>
              DmAddress = (IF ir.am = am_register THEN Rx ELSE ir.operand) % DmSize
         /\ Stored => DmAddress = ISA!Address
         /\ Saves => DmData = IF ir.am = am_immediate THEN ir.operand ELSE Rx
         /\ ir.opcode = strpc => DmData = pc.out
<1>1. ir.am \in {am_inherent, am_immediate, am_direct, am_register}
  BY DEF PathOK, Instruction, am_inherent, am_immediate, am_direct, am_register
<1>2. ISA!Address = (IF Saves /\ ir.am # am_direct THEN Rz ELSE ir.operand) % DmSize
  BY Meaning
<1>3. Saves => ir.am \in {am_immediate, am_direct, am_register}
  BY <1>1 DEF Known
<1>4. Stored <=> Saves \/ ir.opcode = strpc
  BY DEF Stored, Saves
<1>5. ir.opcode = strpc => ~ Saves
  BY DEF Saves, strpc, str
<1>6. am_immediate # am_direct /\ am_immediate # am_register /\ am_direct # am_register
  BY DEF am_immediate, am_direct, am_register
<1>7. ASSUME Loads, ir.am \in {am_direct, am_register}
      PROVE  DmAddress = (IF ir.am = am_register THEN Rx ELSE ir.operand) % DmSize
  BY <1>6, <1>7 DEF MemorySelected, DmAddress
<1>8. ASSUME Saves
      PROVE  /\ DmAddress = ISA!Address
             /\ DmData = IF ir.am = am_immediate THEN ir.operand ELSE Rx
  BY <1>2, <1>3, <1>6, <1>8 DEF MemorySelected, DmAddress, DmData
<1>9. ASSUME ir.opcode = strpc
      PROVE  DmAddress = ISA!Address /\ DmData = pc.out
  BY <1>2, <1>5, <1>9 DEF MemorySelected, DmAddress, DmData
<1> QED BY <1>4, <1>7, <1>8, <1>9

(* The program counter goes where the instruction says.                    *)
LEMMA Goes ==
  ASSUME PathOK, Known, ISA!ir = ir, Same, Stepping, NEW mode,
         alu.z_flag = arch.z \/ ir.opcode # sz,
         mode = IF (ir.opcode = present /\ rz # 0) \/ (ir.opcode = sz /\ ~ alu.z_flag)
                THEN "incr_2" ELSE cu.pc_mode
  PROVE  ISA!Next_pc =
           IF mode = "rx" THEN rx % PcSize
           ELSE IF mode = "value" THEN ir.operand % PcSize
           ELSE IF mode = "incr_1" THEN Plus(pc.out, 1)
           ELSE Plus(pc.out, 2)
<1>1. rx = Rx /\ rz = Rz /\ arch.pc = pc.out
  BY DEF Same, rx, rz, Rx, Rz
<1>2. jmp # present /\ jmp # sz /\ present # sz /\ am_immediate # am_register
  BY DEF jmp, present, sz, am_immediate, am_register
<1>3. ISA!Next_pc =
        (IF Jumps THEN IF ir.opcode = jmp /\ ir.am = am_register THEN Rx ELSE ir.operand
         ELSE arch.pc + (IF ir.opcode \in {present, sz} \/ Fat(ir.am) THEN 2 ELSE 1)) % PcSize
  BY Meaning
<1>4. CASE ir.opcode = jmp
  <2>1. Jumps
    BY <1>4 DEF Jumps
  <2>2. ir.am \in {am_immediate, am_register} /\ mode = cu.pc_mode
    BY <1>2, <1>4 DEF Known
  <2>3. cu.pc_mode = IF ir.am = am_immediate THEN "value" ELSE "rx"
    BY <1>2, <1>4, <2>2 DEF Stepping, PcMode
  <2> QED BY <1>1, <1>2, <1>3, <1>4, <2>1, <2>2, <2>3
<1>5. CASE ir.opcode = present
  <2>1. cu.pc_mode = "value"
    BY <1>2, <1>5 DEF Stepping, PcMode
  <2>2. Jumps <=> rz = 0
    BY <1>1, <1>2, <1>5 DEF Jumps
  <2>3. mode = IF rz # 0 THEN "incr_2" ELSE "value"
    BY <1>2, <1>5, <2>1
  <2> QED BY <1>1, <1>2, <1>3, <1>5, <2>2, <2>3 DEF Plus
<1>6. CASE ir.opcode = sz
  <2>1. cu.pc_mode = "value"
    BY <1>2, <1>6 DEF Stepping, PcMode
  <2>2. Jumps <=> alu.z_flag
    BY <1>2, <1>6 DEF Jumps
  <2>3. mode = IF ~ alu.z_flag THEN "incr_2" ELSE "value"
    BY <1>2, <1>6, <2>1
  <2> QED BY <1>1, <1>2, <1>3, <1>6, <2>2, <2>3 DEF Plus
<1>7. CASE ir.opcode \notin {jmp, present, sz}
  <2>1. ~ Jumps /\ mode = cu.pc_mode
    BY <1>7 DEF Jumps
  <2>2. cu.pc_mode = IF Fat(ir.am) THEN "incr_2" ELSE "incr_1"
    BY <1>7 DEF Stepping, PcMode
  <2> QED BY <1>1, <1>3, <1>7, <2>1, <2>2 DEF Plus
<1> QED BY <1>4, <1>5, <1>6, <1>7

LEMMA EndsSeen ==
  ASSUME ReCOPInv, Seen, Step, UNCHANGED prog, Sends, Unit("T3", "T3"), arch' = arch
  PROVE  Seen'
<1>1. Executing /\ Begun /\ Selected /\ (ISA!Calculates \/ alu.z_flag = arch.z)
  BY DEF ReCOPInv, Seen, Phase, Fresh, Asked, Answered, Executing, Ending, Ended, Unit
<1>2. WidthsOK /\ ControlOK /\ PathOK /\ NothingWritten
      /\ ir = Decode(First, Second) /\ ir' = ir
  BY <1>1, Working
<1>3. T3(ir, rz = 0, alu.z_flag) /\ Unit("T3", "T0")'
  BY <1>1, <1>2, ControlDoes, InT3 DEF Unit
<1>4. Same' /\ regs' = regs /\ pc'.out = pc.out /\ pc'.prev_write = FALSE
  BY <1>1, <1>2, NothingHappens DEF Keeps
<1>5. ISA!ir = ir /\ Same
  BY <1>1, <1>2, SameInstruction DEF Begun, Same
<1>6. /\ ISA!Known' = ISA!Known /\ ISA!Calculates' = ISA!Calculates
      /\ ISA!Calculated' = ISA!Calculated /\ ISA!Next_pc' = ISA!Next_pc
      /\ (ISA!Known <=> Known) /\ (ISA!Calculates <=> Computes)
  BY <1>5, SameMeaning, Meaning DEF Keeps
<1>7. (alu.z_flag \in BOOLEAN /\ arch.z \in BOOLEAN)'
  BY FlagStaysBoolean DEF Seen
<1>8. ASSUME Known PROVE EndingSeen'
  <2>1. /\ cu'.pc_write = TRUE /\ cu'.alu_operation = "hold"
        /\ cu'.rf_write = IF Writes THEN TRUE ELSE cu.rf_write
        /\ cu'.rf_sel_in = IF ir.opcode = lsip THEN "sip" ELSE cu.rf_sel_in
        /\ cu'.dm_write = IF Stored THEN TRUE ELSE cu.dm_write
        /\ cu'.alu_clr_z = (ir.opcode = clfz)
        /\ cu'.pc_mode = IF (ir.opcode = present /\ rz # 0) \/ (ir.opcode = sz /\ ~ alu.z_flag)
                         THEN "incr_2" ELSE cu.pc_mode
        /\ cu'.dm_sel_addr = cu.dm_sel_addr /\ cu'.dm_sel_in = cu.dm_sel_in
        /\ cu'.dpcr_sel = cu.dpcr_sel
    BY <1>2, <1>3, EndSignals
  <2>2. cu'.rf_write = Writes /\ cu'.dm_write = Stored
    <3>1. cu.rf_write = FALSE /\ cu.dm_write = FALSE
      BY <1>1, <1>2 DEF NothingWritten, Begun
    <3>2. Writes \in BOOLEAN /\ Stored \in BOOLEAN
      BY DEF Writes, Stored
    <3> QED BY <2>1, <3>1, <3>2, Zenon
  <2>3. MemorySelected'
    BY <1>1, <1>2, <2>1 DEF Selected, MemorySelected, Loads, Saves, Calls
  <2>4. InputSelected' /\ (ir'.opcode = lsip => cu'.rf_sel_in = "sip")
    <3>1. ir.opcode = lsip => ~ Computes /\ ~ Loads
      BY DEF Computes, Loads, lsip, ldr, andr, orr, addr, subr, subvr
    <3> QED BY <1>1, <1>2, <1>6, <2>1, <3>1 DEF Selected, InputSelected, Loads
  <2>5. rx = Rx /\ rz = Rz
    BY <1>5 DEF Same, rx, rz, Rx, Rz
  <2>6. Loads /\ ir.am \in {am_direct, am_register} => dm'.q = Loaded
    <3>1. dm'.cell = arch.cell /\ dm'.q = dm'.cell[DmAddress]
      BY <1>1, PathDoes DEF Begun, Same
    <3>2. Loads /\ ir.am \in {am_direct, am_register} =>
            DmAddress = (IF ir.am = am_register THEN Rx ELSE ir.operand) % DmSize
      BY <1>1, <1>2, <1>5, <1>8, <2>5, Places DEF Selected
    <3> QED BY <3>1, <3>2 DEF Loaded, Rx
  <2>7. Loaded' = Loaded /\ Cells' = Cells
    BY <1>2 DEF Loaded, Cells
  <2>8. alu'.result = Result /\ (Computes => Result = ISA!Calculated)
    BY <1>1, <1>6, PathDoes DEF Selected
  <2>9. Finishing'
    <3>1. (cu.rf_write = Writes)' /\ (cu.dm_write = Stored)' /\ (cu.alu_clr_z = (ir.opcode = clfz))'
      BY <1>2, <2>1, <2>2 DEF Writes, Stored
    <3>2. (Loads /\ ir.am \in {am_direct, am_register} => dm.q = Loaded)'
      BY <1>2, <2>6, <2>7 DEF Loads
    <3>3. dm'.q \in Cells
      <4>1. dm'.cell = arch.cell /\ dm'.q = dm'.cell[DmAddress]
        BY <1>1, PathDoes DEF Begun, Same
      <4> QED BY <1>2, <4>1, AddressInMemory DEF Cells
    <3>4. Loads => Result = 0
      BY <1>1 DEF Selected, AluOperation, Result, Loads, ldr, andr, orr, addr, subr, subvr
    <3>5. (Loads => alu.result = 0 /\ dm.q \in Cells)'
      BY <1>2, <2>7, <2>8, <3>3, <3>4 DEF Loads
    <3> QED BY <1>6, <2>1, <2>3, <2>4, <2>8, <3>1, <3>2, <3>5 DEF Finishing
  <2>10. Target' = ISA!Next_pc
    <3>1. alu.z_flag = arch.z \/ ir.opcode # sz
      BY <1>1, <1>6 DEF Computes, sz, andr, orr, addr, subr, subvr
    <3>2. ISA!Next_pc =
            IF cu'.pc_mode = "rx" THEN rx % PcSize
            ELSE IF cu'.pc_mode = "value" THEN ir.operand % PcSize
            ELSE IF cu'.pc_mode = "incr_1" THEN Plus(pc.out, 1)
            ELSE Plus(pc.out, 2)
      BY <1>1, <1>2, <1>5, <1>8, <2>1, <3>1, Goes DEF Selected
    <3>3. rx' = rx
      BY <1>2, <1>4 DEF rx
    <3> QED BY <1>2, <1>4, <3>2, <3>3 DEF Target, Plus
  <2>11. alu'.z_flag = IF ISA!Calculates THEN ISA!Calculated = 0 ELSE arch.z
    <3>1. cu.alu_operation = AluOperation(ir.opcode) /\ cu.alu_clr_z = FALSE
      BY <1>1 DEF Selected, Begun
    <3>2. Computes <=> cu.alu_operation \in {"add", "sub", "and", "or"}
      BY <3>1 DEF AluOperation, Computes
    <3>3. CASE Computes
      BY <1>6, <2>8, <3>1, <3>2, <3>3, PathDoes, Zenon
    <3>4. CASE ~ Computes
      BY <1>1, <1>6, <3>1, <3>2, <3>4, PathDoes, Zenon
    <3> QED BY <3>3, <3>4
  <2> QED BY <1>4, <1>6, <2>1, <2>9, <2>10, <2>11 DEF EndingSeen
<1> QED BY <1>3, <1>6, <1>7, <1>8 DEF Seen, Unit

(* Twice the same T3 leaves the same control signals.                      *)
LEMMA FinishingStays ==
  ASSUME ControlOK, Step, Keeps, T3(ir, rz = 0, alu.z_flag), Finishing, ir' = ir,
         Loads /\ ir.am \in {am_direct, am_register} => dm'.q = Loaded,
         Loads => dm'.q \in Cells
  PROVE  Finishing'
<1>1. /\ cu'.alu_operation = "hold"
      /\ cu'.rf_write = IF Writes THEN TRUE ELSE cu.rf_write
      /\ cu'.rf_sel_in = IF ir.opcode = lsip THEN "sip" ELSE cu.rf_sel_in
      /\ cu'.dm_write = IF Stored THEN TRUE ELSE cu.dm_write
      /\ cu'.alu_clr_z = (ir.opcode = clfz)
      /\ cu'.dm_sel_addr = cu.dm_sel_addr /\ cu'.dm_sel_in = cu.dm_sel_in
      /\ cu'.dpcr_sel = cu.dpcr_sel
  BY EndSignals
<1>2. cu'.rf_write = Writes /\ cu'.dm_write = Stored
  <2>1. cu.rf_write = Writes /\ cu.dm_write = Stored
    BY DEF Finishing
  <2>2. Writes \in BOOLEAN /\ Stored \in BOOLEAN
    BY DEF Writes, Stored
  <2> QED BY <1>1, <2>1, <2>2, Zenon
<1>3. /\ (cu.rf_write = Writes)' /\ (cu.dm_write = Stored)'
      /\ (cu.alu_clr_z = (ir.opcode = clfz))'
  BY <1>1, <1>2 DEF Writes, Stored
<1>4. MemorySelected'
  BY <1>1 DEF Finishing, MemorySelected, Loads, Saves, Calls
<1>5. ISA!Calculates' = ISA!Calculates /\ ISA!Calculated' = ISA!Calculated
  BY SameMeaning
<1>6. InputSelected' /\ (ir'.opcode = lsip => cu'.rf_sel_in = "sip")
  <2>1. cu'.rf_sel_in = cu.rf_sel_in
    BY <1>1 DEF Finishing
  <2> QED BY <1>5, <2>1 DEF Finishing, InputSelected, Loads
<1>7. alu'.result = alu.result
  <2>1. Result = alu.result
    BY DEF Finishing, Result
  <2> QED BY <2>1, PathDoes
<1>8. (Loads /\ ir.am \in {am_direct, am_register} => dm.q = Loaded)'
  BY DEF Loads, Loaded, Keeps
<1>9. (Loads => alu.result = 0 /\ dm.q \in Cells)'
  BY <1>7 DEF Finishing, Loads, Cells, Keeps
<1> QED BY <1>1, <1>3, <1>4, <1>5, <1>6, <1>7, <1>8, <1>9 DEF Finishing

(* What is written into the register of the instruction is what it means   *)
(* to write; LDR in inherent mode has no second word, and leaves the ALU   *)
(* idle.                                                                   *)
LEMMA Inputs ==
  ASSUME ControlOK, PathOK, Finishing, ISA!ir = ir, Known
  PROVE  /\ \E v \in ISA!Loadable :
              ISA!Registers(v) = IF Writes THEN [arch.regs EXCEPT ![ir.rz] = Input]
                                 ELSE arch.regs
         /\ \A v : \E x :
              ISA!Registers(v) = IF Writes THEN [arch.regs EXCEPT ![ir.rz] = x]
                                 ELSE arch.regs
<1>1. /\ ISA!Calculates <=> Computes
      /\ ISA!Loadable = IF ir.am = am_immediate THEN {ir.operand}
                        ELSE IF ir.am = am_inherent THEN {0} \cup Cells ELSE {Loaded}
      /\ \A v : ISA!Registers(v) =
              IF Computes THEN [arch.regs EXCEPT ![ir.rz] = ISA!Calculated]
              ELSE IF Loads THEN [arch.regs EXCEPT ![ir.rz] = v]
              ELSE IF ir.opcode = lsip THEN [arch.regs EXCEPT ![ir.rz] = 0]
              ELSE arch.regs
  BY Meaning
<1>2. ir.am \in {am_inherent, am_immediate, am_direct, am_register}
  BY DEF PathOK, Instruction, am_inherent, am_immediate, am_direct, am_register
<1>3. (Writes <=> Computes \/ Loads \/ ir.opcode = lsip) /\ \E v : v \in ISA!Loadable
  <2>1. Writes <=> Computes \/ Loads \/ ir.opcode = lsip
    BY DEF Writes, Computes, Loads
  <2> QED BY <1>1, <2>1
<1>4. CASE Computes
  <2>1. cu.rf_sel_in = "alu" /\ Result = ISA!Calculated
    BY <1>1, <1>4 DEF Finishing, InputSelected, Result
  <2>2. Input = ISA!Calculated
    BY <2>1 DEF Input
  <2> QED BY <1>1, <1>3, <1>4, <2>2
<1>5. CASE Loads
  <2>1. ~ Computes
    BY <1>5 DEF Loads, Computes, ldr, andr, orr, addr, subr, subvr
  <2>2. Input \in ISA!Loadable
    <3>1. am_inherent # am_immediate /\ am_inherent # am_direct /\ am_inherent # am_register
          /\ am_immediate # am_direct /\ am_immediate # am_register
      BY DEF am_inherent, am_immediate, am_direct, am_register
    <3>2. CASE ir.am = am_inherent
      <4>1. ir.operand = 0
        BY <3>2, Numbers DEF ISA!ir, ISA!Decode, ISA!Fat, am_inherent, am_immediate, am_direct
      <4>2. Result = 0 /\ dm.q \in Cells
        BY <1>5 DEF Finishing, Result
      <4>3. Input \in {0} \cup Cells
        BY <4>1, <4>2 DEF Input, ControlOK
      <4> QED BY <1>1, <3>1, <3>2, <4>3
    <3>3. CASE ir.am = am_immediate
      <4>1. Input = ir.operand
        BY <1>5, <3>3 DEF Finishing, InputSelected, Input
      <4> QED BY <1>1, <3>3, <4>1
    <3>4. CASE ir.am \in {am_direct, am_register}
      <4>1. Input = Loaded
        BY <1>5, <3>4 DEF Finishing, InputSelected, Input
      <4> QED BY <1>1, <3>1, <3>4, <4>1
    <3> QED BY <1>2, <3>2, <3>3, <3>4
  <2> QED BY <1>1, <1>3, <1>5, <2>1, <2>2
<1>6. CASE ir.opcode = lsip
  <2>1. ~ Computes /\ ~ Loads
    BY <1>6 DEF Loads, Computes, lsip, ldr, andr, orr, addr, subr, subvr
  <2>2. Input = 0
    BY <1>6 DEF Finishing, Input
  <2> QED BY <1>1, <1>3, <1>6, <2>1, <2>2
<1>7. CASE ~ Computes /\ ~ Loads /\ ir.opcode # lsip
  BY <1>1, <1>3, <1>7
<1> QED BY <1>4, <1>5, <1>6, <1>7

LEMMA FirstStore ==
  ASSUME ISA!ir = ir
  PROVE  /\ Stored <=> ISA!Stores # <<>>
         /\ Saves => Len(ISA!Stores) = 1 /\ ISA!Stores[1] = IF ir.am = am_immediate
                                                            THEN ir.operand ELSE Rx
         /\ ir.opcode = strpc => /\ Len(ISA!Stores) = 2 /\ ISA!Stores[1] = arch.pc
                                 /\ ISA!Stores[2] = ISA!Next_pc
         /\ ~ Stored => Len(ISA!Stores) = 0
<1>1. ISA!Stores = IF ir.opcode = strpc THEN <<arch.pc, ISA!Next_pc>>
                   ELSE IF Saves THEN <<IF ir.am = am_immediate THEN ir.operand ELSE Rx>>
                   ELSE <<>>
  BY Meaning
<1>2. (Stored <=> Saves \/ ir.opcode = strpc) /\ (Saves => ir.opcode # strpc)
  BY DEF Stored, Saves, str, strpc
<1>3. ASSUME NEW a, NEW b
      PROVE  /\ <<a, b>> # <<>> /\ Len(<<a, b>>) = 2 /\ <<a, b>>[1] = a /\ <<a, b>>[2] = b
             /\ <<a>> # <<>> /\ Len(<<a>>) = 1 /\ <<a>>[1] = a /\ Len(<<>>) = 0
  OBVIOUS
<1> HIDE DEF Stored, Saves
<1>4. CASE ir.opcode = strpc
  <2>1. ISA!Stores = <<arch.pc, ISA!Next_pc>>
    BY <1>1, <1>4
  <2> QED BY <1>2, <1>3, <1>4, <2>1
<1>5. CASE Saves
  <2>1. ISA!Stores = <<IF ir.am = am_immediate THEN ir.operand ELSE Rx>>
    BY <1>1, <1>2, <1>5
  <2> QED BY <1>2, <1>3, <1>5, <2>1
<1>6. CASE ~ Saves /\ ir.opcode # strpc
  <2>1. ISA!Stores = <<>>
    BY <1>1, <1>6
  <2> QED BY <1>2, <1>3, <1>6, <2>1
<1> QED BY <1>4, <1>5, <1>6

LEMMA EndingIsSeen ==
  ASSUME ReCOPInv, Seen, Step, UNCHANGED prog, Sends, Unit("T3", "T0"), arch' = arch
  PROVE  Seen'
<1>1. /\ Ending /\ WidthsOK /\ ControlOK /\ PathOK
      /\ ir = Decode(First, Second) /\ (ISA!Known => EndingSeen)
  BY DEF ReCOPInv, WidthsOK, Seen, Phase, Fresh, Asked, Answered, Executing, Ending, Ended,
         Unit, Held
<1>2. ir' = ir
  <2>1. ir' = Decode(fetch.inst_1, fetch.inst_2)
    BY <1>1, WhatStays
  <2> QED BY <2>1 , <1>1 DEF Ending, Held
<1>3. T3(ir, rz = 0, alu.z_flag) /\ Unit("T0", "T0")'
  BY <1>1, ControlDoes, InT3 DEF Unit
<1>4. (alu.z_flag \in BOOLEAN /\ arch.z \in BOOLEAN)'
  BY FlagStaysBoolean DEF Seen
<1>5. ASSUME ISA!Known PROVE (ir = ISA!ir)' /\ EndedSeen'
  <2>1. EndingSeen /\ Same /\ Finishing
    BY <1>1, <1>5 DEF EndingSeen
  <2>2. ISA!ir = ir
    BY <1>1, <2>1, SameInstruction DEF Same
  <2>3. rx = Rx /\ rz = Rz /\ Known /\ (ISA!Calculates <=> Computes)
    BY <1>5, <2>1, <2>2, Meaning DEF Same, rx, rz, Rx, Rz
  <2>4. /\ ISA!Calculates' = ISA!Calculates /\ ISA!Calculated' = ISA!Calculated
        /\ ISA!Next_pc' = ISA!Next_pc /\ ISA!ir' = ISA!ir
        /\ ISA!Loadable' = ISA!Loadable /\ \A v : ISA!Registers(v)' = ISA!Registers(v)
        /\ ISA!Address' = ISA!Address /\ ISA!Stores' = ISA!Stores
    BY SameMeaning DEF Keeps
  <2>5. MemorySelected /\ cu.rf_write = Writes /\ cu.dm_write = Stored
    BY <2>1 DEF Finishing
  <2>6. /\ Loads /\ ir.am \in {am_direct, am_register} =>
             DmAddress = (IF ir.am = am_register THEN Rx ELSE ir.operand) % DmSize
        /\ Stored => DmAddress = ISA!Address
        /\ Saves => DmData = IF ir.am = am_immediate THEN ir.operand ELSE Rx
        /\ ir.opcode = strpc => DmData = pc.out
    BY <1>1, <2>2, <2>3, <2>5, Places
  <2>7. /\ Loads /\ ir.am \in {am_direct, am_register} => dm'.q = Loaded
        /\ Loads => dm'.q \in Cells
    <3>1. Loads => ~ Stored
      BY DEF Loads, Stored, ldr, str, strpc
    <3>2. Loads => dm'.cell = arch.cell /\ dm'.q = dm'.cell[DmAddress]
      BY <2>1, <2>5, <3>1, PathDoes DEF Same
    <3>3. DmAddress \in 0 .. DmSize - 1
      BY <1>1, AddressInMemory
    <3> QED BY <2>6, <3>2, <3>3 DEF Loaded, Cells, Rx
  <2>8. Finishing'
    BY <1>1, <1>2, <1>3, <2>1, <2>7, FinishingStays DEF Keeps
  <2>9. pc'.prev_write = TRUE /\ pc'.out = ISA!Next_pc
    <3>1. cu.pc_write = TRUE /\ pc.prev_write = FALSE /\ Target = ISA!Next_pc
      BY <2>1 DEF EndingSeen
    <3> QED BY <3>1, PathDoes
  <2>10. \E v \in ISA!Loadable : regs' = ISA!Registers(v)
    <3>1. regs' = IF Writes THEN [arch.regs EXCEPT ![ir.rz] = Input] ELSE arch.regs
      BY <2>1, <2>5, PathDoes DEF Same
    <3> QED BY <1>1, <2>1, <2>2, <2>3, <3>1, Inputs
  <2>11. dpcr' = CallAfter
    <3>1. cu.dpcr_write = Calls
      BY <1>1 DEF Ending, Calls
    <3>2. Calls => cu.dpcr_sel = IF ir.opcode = datacall THEN "r7" ELSE "value"
      BY <2>5 DEF MemorySelected
    <3>3. dpcr' = IF Calls THEN Call ELSE arch.dpcr
      BY <2>1, <3>1, PathDoes DEF Same
    <3>4. regs = arch.regs
      BY <2>1 DEF Same
    <3>5. Calls => Call = <<Rx, IF ir.opcode = datacall THEN arch.regs[7] ELSE ir.operand>>
      BY <2>3, <3>2, <3>4 DEF Call
    <3> QED BY <3>3, <3>5 DEF Calls, CallAfter, Rx, datacall, datacall2
  <2>12. dm'.cell = Written
    <3>1. dm'.cell = IF Stored THEN [arch.cell EXCEPT ![DmAddress] = DmData] ELSE arch.cell
      BY <2>1, <2>5, PathDoes DEF Same
    <3>2. Stored => DmData = ISA!Stores[1] /\ (Saves \/ ir.opcode = strpc)
      <4>1. Stored <=> Saves \/ ir.opcode = strpc
        BY DEF Stored, Saves
      <4>2. arch.pc = pc.out
        BY <2>1 DEF Same
      <4> QED BY <2>2, <2>6, <4>1, <4>2, FirstStore
    <3> QED BY <2>2, <2>6, <3>1, <3>2, FirstStore DEF Written
  <2>13. alu'.z_flag = FlagAfter
    <3>1. /\ cu.alu_operation = "hold" /\ cu.alu_clr_z = (ir.opcode = clfz)
          /\ alu.z_flag = IF ISA!Calculates THEN ISA!Calculated = 0 ELSE arch.z
      BY <2>1 DEF EndingSeen, Finishing
    <3>2. alu'.z_flag = IF cu.alu_clr_z THEN FALSE ELSE alu.z_flag
      BY <3>1, PathDoes, Zenon
    <3>3. ir.opcode = clfz => ~ ISA!Calculates
      BY <2>3 DEF Computes, clfz, andr, orr, addr, subr, subvr
    <3>4. arch.z \in BOOLEAN /\ (ISA!Calculated = 0) \in BOOLEAN
      BY DEF Seen
    <3>5. CASE ir.opcode = clfz
      BY <3>1, <3>2, <3>3, <3>5, Zenon DEF FlagAfter
    <3>6. CASE ir.opcode # clfz
      <4>1. cu.alu_clr_z = FALSE
        BY <3>1, <3>6, Zenon
      <4>2. arch.z = (arch.z /\ ir.opcode # clfz)
        BY <3>4, <3>6
      <4> QED BY <3>1, <3>2, <4>1, <4>2, Zenon DEF FlagAfter
    <3> QED BY <3>5, <3>6
  <2>14. CallAfter' = CallAfter /\ Written' = Written /\ (FlagAfter' = FlagAfter)
    BY <1>2, <2>4 DEF CallAfter, Written, FlagAfter
  <2>15. (\E v \in ISA!Loadable : regs = ISA!Registers(v))'
    BY <2>4, <2>10
  <2> QED BY <1>2, <2>2, <2>4, <2>8, <2>9, <2>11, <2>12, <2>13, <2>14, <2>15 DEF EndedSeen
<1>6. ISA!Known' = ISA!Known
  BY SameMeaning DEF Keeps
<1> QED BY <1>3, <1>4, <1>5, <1>6 DEF Seen, Unit

(* The second time that an instruction is written it ends.                 *)
LEMMA EndedIsExecuted ==
  ASSUME ReCOPInv, Seen, Step, UNCHANGED prog, Sends, Unit("T0", "T0"), arch' = Visible'
  PROVE  Seen' /\ ISA!Next /\ (ISA!Known => ISA!Execute)
<1>1. /\ Ended /\ WidthsOK /\ ControlOK /\ PathOK
      /\ (ISA!Known => ir = ISA!ir /\ EndedSeen)
  BY DEF ReCOPInv, WidthsOK, Seen, Phase, Fresh, Asked, Answered, Executing, Ending, Ended, Unit
<1>2. T0 /\ Unit("T0", "T1")' /\ dpcr' = dpcr
  BY <1>1, ControlDoes, EndedStep DEF Unit, Fresh
<1>3. cu'.dm_write = FALSE /\ cu'.alu_operation = "idle" /\ cu'.alu_clr_z = FALSE
  BY <1>1, <1>2, PathSignals
<1>4. (alu.z_flag \in BOOLEAN)'
  BY FlagStaysBoolean DEF Seen
<1>5. (/\ arch.pc = pc.out /\ arch.regs = regs /\ arch.z = alu.z_flag
       /\ arch.dpcr = dpcr /\ arch.cell = dm.cell)'
  BY DEF Visible
<1>6. Seen'
  BY <1>2, <1>3, <1>4, <1>5 DEF Seen, Unit, Idling, Begun, Same
<1>7. CASE ~ ISA!Known
  BY <1>6, <1>7 DEF ISA!Next, ISA!Undocumented
<1>8. CASE ISA!Known
  <2>1. ISA!ir = ir /\ EndedSeen /\ Finishing
    BY <1>1, <1>8 DEF EndedSeen
  <2>2. Known /\ (ISA!Calculates <=> Computes)
    BY <1>8, <2>1, Meaning
  <2>3. pc'.out = ISA!Next_pc
    BY <2>1, PathDoes DEF EndedSeen
  <2>4. PICK loaded \in ISA!Loadable : regs' = ISA!Registers(loaded)
    <3>1. cu.rf_write = Writes
      BY <2>1 DEF Finishing
    <3>2. PICK v \in ISA!Loadable :
            ISA!Registers(v) = IF Writes THEN [arch.regs EXCEPT ![ir.rz] = Input] ELSE arch.regs
      BY <1>1, <2>1, <2>2, Inputs
    <3>3. PICK x : regs = IF Writes THEN [arch.regs EXCEPT ![ir.rz] = x] ELSE arch.regs
      BY <1>1, <2>1, <2>2, Inputs DEF EndedSeen
    <3>4. regs' = IF Writes THEN [regs EXCEPT ![ir.rz] = Input] ELSE regs
      BY <3>1, PathDoes
    <3>5. regs' = ISA!Registers(v)
      BY <3>2, <3>3, <3>4
    <3> QED BY <3>5
  <2>5. alu'.z_flag = FlagAfter
    <3>1. /\ cu.alu_operation = "hold" /\ cu.alu_clr_z = (ir.opcode = clfz)
          /\ alu.z_flag = FlagAfter
      BY <2>1 DEF EndedSeen, Finishing
    <3>2. alu'.z_flag = IF cu.alu_clr_z THEN FALSE ELSE alu.z_flag
      BY <3>1, PathDoes, Zenon
    <3>3. CASE ir.opcode = clfz
      <4>1. ~ ISA!Calculates
        BY <2>2, <3>3 DEF Computes, clfz, andr, orr, addr, subr, subvr
      <4>2. FlagAfter = FALSE
        BY <3>3, <4>1, Zenon DEF FlagAfter
      <4> QED BY <3>1, <3>2, <3>3, <4>2, Zenon
    <3>4. CASE ir.opcode # clfz
      <4>1. cu.alu_clr_z = FALSE
        BY <3>1, <3>4, Zenon
      <4> QED BY <3>1, <3>2, <4>1, Zenon
    <3> QED BY <3>3, <3>4
  <2>6. dm'.cell = IF ISA!Stores = <<>> THEN arch.cell
                   ELSE [arch.cell EXCEPT ![ISA!Address] = ISA!Stores[Len(ISA!Stores)]]
    <3>1. /\ cu.dm_write = Stored /\ MemorySelected
          /\ dm.cell = Written /\ pc.out = ISA!Next_pc
      BY <2>1 DEF EndedSeen, Finishing
    <3>2. dm'.cell = IF Stored THEN [dm.cell EXCEPT ![DmAddress] = DmData] ELSE dm.cell
      BY <3>1, PathDoes
    <3>3. CASE ~ Stored
      BY <2>1, <3>1, <3>2, <3>3, FirstStore DEF Written
    <3>4. CASE Stored
      <4>1. ~ Writes
        BY <3>4 DEF Stored, Writes, str, strpc, andr, orr, addr, subr, subvr, ldr, lsip
      <4>2. regs = arch.regs
        BY <1>1, <2>1, <2>2, <4>1, Inputs DEF EndedSeen
      <4>3. rx = Rx /\ rz = Rz
        BY <4>2 DEF rx, rz, Rx, Rz
      <4>4. /\ DmAddress = ISA!Address
            /\ Saves => DmData = IF ir.am = am_immediate THEN ir.operand ELSE Rx
            /\ ir.opcode = strpc => DmData = pc.out
        BY <1>1, <2>1, <2>2, <3>1, <3>4, <4>3, Places
      <4>5. (Saves \/ ir.opcode = strpc) /\ ISA!Stores # <<>>
        BY <2>1, <3>4, FirstStore DEF Stored, Saves
      <4>6. DmData = ISA!Stores[Len(ISA!Stores)]
        BY <2>1, <3>1, <4>4, <4>5, FirstStore
      <4>7. dm.cell = [arch.cell EXCEPT ![ISA!Address] = ISA!Stores[1]]
        BY <3>1, <4>5 DEF Written
      <4> QED BY <3>2, <3>4, <4>4, <4>5, <4>6, <4>7
    <3> QED BY <3>3, <3>4
  <2>7. dpcr' = IF ir.opcode = datacall THEN <<Rx, arch.regs[7]>>
                ELSE IF ir.opcode = datacall2 THEN <<Rx, ir.operand>> ELSE arch.dpcr
    BY <1>2, <2>1 DEF EndedSeen, CallAfter, Rx
  <2>8. Visible' = [pc |-> pc'.out, regs |-> regs', z |-> alu'.z_flag, dpcr |-> dpcr',
                    cell |-> dm'.cell]
    BY DEF Visible
  <2>9. ISA!rx = Rx
    BY <2>1 DEF ISA!rx, Rx
  <2>10. ISA!Execute
    BY <1>8, <2>1, <2>3, <2>4, <2>5, <2>6, <2>7, <2>8, <2>9, Numbers
       DEF ISA!Execute, FlagAfter
  <2> QED BY <1>6, <2>10 DEF ISA!Next
<1> QED BY <1>6, <1>7, <1>8

(* A reset leaves the memory as the instruction it interrupts left it.     *)
LEMMA ResetSeen ==
  ASSUME ReCOPInv, Seen, Reset, UNCHANGED prog, arch' = Visible'
  PROVE  Seen' /\ ISA!Next
<1>1. WidthsOK /\ ControlOK /\ PathOK
  BY DEF ReCOPInv, WidthsOK
<1>2. /\ cu' = ControlReset /\ pc' = [out |-> 0, prev_write |-> FALSE]
      /\ regs' = [r \in 0 .. 15 |-> 0] /\ alu' = [result |-> 0, z_flag |-> FALSE]
      /\ dpcr' = <<0, 0>>
  BY DEF Reset
<1>3. Visible' = [pc |-> 0, regs |-> [r \in 0 .. 15 |-> 0], z |-> FALSE, dpcr |-> <<0, 0>>,
                  cell |-> dm'.cell]
  BY <1>2 DEF Visible
<1>4. Seen'
  BY <1>2, <1>3 DEF Seen, Unit, Idling, Begun, Same, ControlReset, Visible
<1>5. dm'.cell = IF cu.dm_write THEN [dm.cell EXCEPT ![DmAddress] = DmData] ELSE dm.cell
  <2> DEFINE cell == IF cu.dm_write THEN [dm.cell EXCEPT ![DmAddress] = DmData] ELSE dm.cell
  <2>1. dm' = [cell |-> cell, q |-> cell[DmAddress]]
    BY Zenon DEF Reset, DmNext, DmAddress, DmData
  <2> HIDE DEF cell
  <2>2. dm'.cell = cell
    BY <2>1
  <2> QED BY <2>2 DEF cell
<1>6. ASSUME NEW k \in 0 .. Len(ISA!Stores),
             dm'.cell = IF k = 0 THEN arch.cell
                        ELSE [arch.cell EXCEPT ![ISA!Address] = ISA!Stores[k]]
      PROVE  ISA!Next
  BY <1>3, <1>6 DEF ISA!Next, ISA!Reset
<1>7. ASSUME Begun PROVE dm'.cell = arch.cell
  BY <1>5, <1>7 DEF Begun, Same
<1>8. Len(ISA!Stores) \in Nat
  <2>1. ISA!Stores \in {<<>>, <<ISA!rx>>, <<ISA!ir.operand>>, <<arch.pc, ISA!Next_pc>>}
    BY DEF ISA!Stores
  <2> QED BY <2>1
<1>9. ASSUME dm'.cell = arch.cell PROVE ISA!Next
  <2>1. 0 \in 0 .. Len(ISA!Stores)
    BY <1>8
  <2> QED BY <1>6, <1>9, <2>1
<1>10. CASE ~ ISA!Known
  BY <1>4, <1>10 DEF ISA!Next, ISA!Undocumented
<1>11. CASE ISA!Known
  <2>1. CASE Begun
    BY <1>4, <1>7, <1>9, <2>1
  <2>2. CASE Ending
    <3>1. EndingSeen /\ Same /\ Finishing /\ ISA!ir = ir
      BY <1>11, <2>2, SameInstruction DEF Seen, Ending, EndingSeen, Held, Same
    <3>2. Known /\ rx = Rx /\ rz = Rz /\ MemorySelected /\ cu.dm_write = Stored
      BY <1>11, <3>1, Meaning DEF Same, Finishing, rx, rz, Rx, Rz
    <3>3. CASE ~ Stored
      <4>1. dm'.cell = arch.cell
        BY <1>5, <3>1, <3>2, <3>3 DEF Same
      <4> QED BY <1>4, <1>9, <4>1
    <3>4. CASE Stored
      <4>1. dm'.cell = [arch.cell EXCEPT ![ISA!Address] = DmData]
        BY <1>1, <1>5, <3>1, <3>2, <3>4, Places DEF Same
      <4>2. DmData = ISA!Stores[1] /\ 1 \in 0 .. Len(ISA!Stores)
        <5>1. Saves \/ ir.opcode = strpc
          BY <3>4 DEF Stored, Saves
        <5>2. arch.pc = pc.out
          BY <3>1 DEF Same
        <5> QED BY <1>1, <1>8, <3>1, <3>2, <5>1, <5>2, Places, FirstStore
      <4> QED BY <1>4, <1>6, <4>1, <4>2
    <3> QED BY <3>3, <3>4
  <2>3. CASE Ended
    <3>1. EndedSeen /\ Finishing /\ ISA!ir = ir
      BY <1>11, <2>3 DEF Seen, Ended, EndedSeen
    <3>2. Known /\ MemorySelected /\ cu.dm_write = Stored
          /\ dm.cell = Written /\ pc.out = ISA!Next_pc
      BY <1>11, <3>1, Meaning DEF Finishing, EndedSeen
    <3>3. CASE ~ Stored
      <4>1. dm'.cell = arch.cell
        BY <1>5, <3>1, <3>2, <3>3, FirstStore DEF Written
      <4> QED BY <1>4, <1>9, <4>1
    <3>4. CASE Stored
      <4>1. ~ Writes
        BY <3>4 DEF Stored, Writes, str, strpc, andr, orr, addr, subr, subvr, ldr, lsip
      <4>2. regs = arch.regs
        BY <1>1, <3>1, <3>2, <4>1, Inputs DEF EndedSeen
      <4>3. rx = Rx /\ rz = Rz
        BY <4>2 DEF rx, rz, Rx, Rz
      <4>4. /\ DmAddress = ISA!Address
            /\ Saves => DmData = IF ir.am = am_immediate THEN ir.operand ELSE Rx
            /\ ir.opcode = strpc => DmData = pc.out
        BY <1>1, <3>1, <3>2, <3>4, <4>3, Places
      <4>5. (Saves \/ ir.opcode = strpc) /\ ISA!Stores # <<>>
        BY <3>1, <3>4, FirstStore DEF Stored, Saves
      <4>6. DmData = ISA!Stores[Len(ISA!Stores)] /\ Len(ISA!Stores) \in {1, 2}
        BY <3>1, <3>2, <4>4, <4>5, FirstStore
      <4>7. dm.cell = [arch.cell EXCEPT ![ISA!Address] = ISA!Stores[1]]
        BY <3>2, <4>5 DEF Written
      <4>8. dm'.cell = [arch.cell EXCEPT ![ISA!Address] = ISA!Stores[Len(ISA!Stores)]]
        BY <1>5, <3>2, <3>4, <4>4, <4>6, <4>7
      <4> QED BY <1>4, <1>6, <4>6, <4>8
    <3> QED BY <3>3, <3>4
  <2> QED BY <2>1, <2>2, <2>3 DEF ReCOPInv, Phase, Seen, Fresh, Asked, Answered, Executing,
             Idling, Unit
<1> QED BY <1>4, <1>10, <1>11

LEMMA SeenInit == RInit => Seen /\ ISA!Init
<1> SUFFICES ASSUME NEW s \in Sources, StartOf(s) PROVE Seen /\ ISA!Init
  BY DEF RInit
<1>1. Init /\ arch = Visible
  BY DEF StartOf
<1>2. /\ cu = ControlReset /\ pc.out = 0 /\ regs = [r \in 0 .. 15 |-> 0]
      /\ alu.z_flag = FALSE /\ dpcr = <<0, 0>> /\ dm.cell = [a \in 0 .. DmSize - 1 |-> 0]
  BY <1>1 DEF Init
<1>3. Seen
  BY <1>1, <1>2 DEF Seen, Unit, Idling, Begun, Same, ControlReset, Visible
<1>4. ISA!Init
  BY <1>1, <1>2 DEF ISA!Init, Visible
<1> QED BY <1>3, <1>4

LEMMA SeenStep ==
  ASSUME ReCOPInv, Seen, [Next]_allVars
  PROVE  Seen' /\ [ISA!Next]_<<prog, arch>>
<1>1. CASE UNCHANGED allVars
  <2>1. Seen' <=> Seen
    <3>1. Keeps
      BY <1>1 DEF Keeps, allVars, vars
    <3>2. UNCHANGED <<cu, fetch, ir, pc, regs, alu, dm, dpcr>>
      BY <1>1 DEF allVars, vars, path
    <3>3. /\ Result' = Result /\ Loaded' = Loaded /\ Cells' = Cells /\ Written' = Written
          /\ Target' = Target /\ Stepping' = Stepping /\ MemorySelected' = MemorySelected
          /\ InputSelected' = InputSelected /\ CallAfter' = CallAfter
          /\ FlagAfter' = FlagAfter
      BY <3>1, <3>2, SameMeaning
         DEF Keeps, Result, rx, rz, Loaded, Cells, Written, Target, Plus, Stepping, MemorySelected,
             InputSelected, CallAfter, FlagAfter, Loads, Saves, Calls
    <3>4. Finishing' = Finishing /\ Begun' = Begun /\ Idling' = Idling /\ Same' = Same
          /\ Selected' = Selected
      BY <3>1, <3>2, <3>3, SameMeaning
         DEF Keeps, Finishing, Begun, Idling, Same, Selected, Writes, Stored, Loads
    <3>5. EndingSeen' = EndingSeen /\ EndedSeen' = EndedSeen
      BY <3>1, <3>2, <3>3, <3>4, SameMeaning DEF Keeps, EndingSeen, EndedSeen
    <3> QED BY <3>1, <3>2, <3>3, <3>4, <3>5, SameMeaning DEF Keeps, Seen, Unit, Visible
  <2> QED BY <1>1, <2>1 DEF allVars, vars
<1>2. ASSUME NEW pressed, NEW sw, Running(pressed, sw), Observe
      PROVE  Seen' /\ [ISA!Next]_<<prog, arch>>
  <2>1. /\ Step /\ UNCHANGED prog /\ Sends
        /\ arch' = IF cu.state = "T0" THEN Visible' ELSE arch
    BY <1>2, RunningSends DEF Running, Observe
  <2>2. \/ Unit("T0", "T1") \/ Unit("T1", "T1") \/ Unit("T1", "T2") \/ Unit("T2", "T2")
        \/ Unit("T2", "T3") \/ Unit("T3", "T3") \/ Unit("T3", "T0") \/ Unit("T0", "T0")
    BY DEF ReCOPInv, Phase, Fresh, Asked, Answered, Executing, Ending, Ended
  <2>3. CASE Unit("T0", "T1")
    <3>1. arch' = Visible'
      BY <2>1, <2>3 DEF Unit
    <3> QED BY <2>1, <2>3, <3>1, FreshSeen
  <2>4. CASE Unit("T0", "T0")
    <3>1. arch' = Visible'
      BY <2>1, <2>4 DEF Unit
    <3> QED BY <2>1, <2>4, <3>1, EndedIsExecuted
  <2>5. CASE cu.state # "T0"
    <3>1. arch' = arch
      BY <2>1, <2>5
    <3>2. Seen'
      BY <2>1, <2>2, <2>5, <3>1, WaitingSeen, DecodedSeen, SelectingSeen, SelectedSeen,
         EndsSeen, EndingIsSeen DEF Unit
    <3> QED BY <2>1, <3>1, <3>2
  <2> QED BY <2>2, <2>3, <2>4, <2>5 DEF Unit
<1>3. ASSUME NEW pressed, NEW sw, Resetting(pressed, sw), Observe
      PROVE  Seen' /\ ISA!Next
  <2>1. Reset /\ UNCHANGED prog /\ arch' = Visible'
    BY <1>3 DEF Resetting, Observe
  <2> QED BY <2>1, ResetSeen
<1> QED BY <1>1, <1>2, <1>3 DEF Next, Clock

(* ReCOP implements its specification by instructions: every instruction   *)
(* of every program has its effect once, although its writes last two      *)
(* edges and whatever ran before it, and a reset at any edge loses at most *)
(* the instruction it interrupts (Instructions).                           *)
THEOREM ReCOPImplementsInstructions == RSpec => Instructions
<1>1. RInit => ReCOPInv /\ Seen /\ ISA!Init
  BY InitInv, SeenInit
<1>2. ReCOPInv /\ Seen /\ [Next]_allVars => ReCOPInv' /\ Seen' /\ [ISA!Next]_<<prog, arch>>
  BY InvStep, SeenStep
<1> QED BY <1>1, <1>2, PTL DEF RSpec, Instructions, ISA!Spec

----------------------------------------------------------------------------
(***************************************************************************)
(* The words of a program. FlattenSeq is a CHOOSE of a recursive function; *)
(* it exists for every number of lines, and the words of line i follow     *)
(* those of the lines before it.                                           *)
(***************************************************************************)
(* What the concatenation of two sequences holds. *)
LEMMA Concat ==
  ASSUME NEW S, NEW a \in Seq(S), NEW b \in Seq(S)
  PROVE  /\ a \o b \in Seq(S) /\ Len(a \o b) = Len(a) + Len(b)
         /\ Len(a) \in Nat /\ Len(b) \in Nat
         /\ \A k \in 1 .. Len(a) : (a \o b)[k] = a[k]
         /\ \A k \in 1 .. Len(b) : (a \o b)[Len(a) + k] = b[k]
OBVIOUS

(* The partial concatenations of n sequences that FlattenSeq chooses. *)
LEMMA FlattenExists ==
  ASSUME NEW seqs, NEW n \in Nat
  PROVE  \E g : g = [i \in 1 .. n |-> IF i = 1 THEN seqs[i] ELSE g[i - 1] \o seqs[i]]
<1> DEFINE Joins(g, m) == g = [i \in 1 .. m |-> IF i = 1 THEN seqs[i] ELSE g[i - 1] \o seqs[i]]
           T == {m \in Nat : \E g : Joins(g, m)}
<1>1. 0 \in T
  <2>1. Joins([i \in 1 .. 0 |-> 0], 0) OBVIOUS
  <2> QED BY <2>1
<1>2. ASSUME NEW m \in Nat, m \in T PROVE m + 1 \in T
  <2>1. PICK g : Joins(g, m)
    BY <1>2
  <2> DEFINE h == [i \in 1 .. m + 1 |->
                     IF i <= m THEN g[i] ELSE IF i = 1 THEN seqs[i] ELSE g[i - 1] \o seqs[i]]
             k == [i \in 1 .. m + 1 |-> IF i = 1 THEN seqs[i] ELSE h[i - 1] \o seqs[i]]
  <2>2. ASSUME NEW i \in 1 .. m + 1 PROVE h[i] = k[i]
    <3>1. CASE i <= m
      <4>0. i \in 1 .. m
        BY <3>1
      <4>1. g[i] = IF i = 1 THEN seqs[i] ELSE g[i - 1] \o seqs[i]
        BY <2>1, <4>0
      <4>2. i # 1 => i - 1 \in 1 .. m /\ h[i - 1] = g[i - 1]
        BY <3>1
      <4> QED BY <4>1, <4>2, <3>1
    <3>2. CASE i = m + 1
      <4>1. i # 1 => i - 1 \in 1 .. m /\ h[i - 1] = g[i - 1]
        BY <3>2
      <4> QED BY <4>1, <3>2
    <3> QED BY <3>1, <3>2
  <2>3. h = k
    BY <2>2
  <2> HIDE DEF h
  <2>4. \E x : Joins(x, m + 1)
    BY <2>3
  <2> HIDE DEF Joins
  <2> QED BY <2>4
<1>3. n \in T
  <2> HIDE DEF T
  <2> QED BY <1>1, <1>2, SetInduction
<1> QED BY <1>3

Lengths(seqs) == [j \in DOMAIN seqs |-> Len(seqs[j])]

(* FlattenSeq puts a sequence behind all of the sequences before it. *)
LEMMA FlattenPlaces ==
  ASSUME NEW S, NEW seqs \in Seq(Seq(S)), NEW i \in DOMAIN seqs
  PROVE  LET before == SumFunctionOnSet(Lengths(seqs), 1 .. i - 1)
         IN  /\ FlattenSeq(seqs) \in Seq(S) /\ before \in Nat
             /\ Len(FlattenSeq(seqs)) = SumFunctionOnSet(Lengths(seqs), 1 .. Len(seqs))
             /\ before + Len(seqs[i]) <= Len(FlattenSeq(seqs))
             /\ \A k \in 1 .. Len(seqs[i]) : FlattenSeq(seqs)[before + k] = seqs[i][k]
<1> DEFINE n == Len(seqs)
           L == Lengths(seqs)
           Before(m) == SumFunctionOnSet(L, 1 .. m)
           Joins(g) == g = [j \in 1 .. n |-> IF j = 1 THEN seqs[j] ELSE g[j - 1] \o seqs[j]]
           f == CHOOSE g : Joins(g)
<1>1. n \in Nat /\ n >= 1 /\ DOMAIN seqs = 1 .. n /\ i \in 1 .. n
  OBVIOUS
<1>2. Joins(f)
  <2>1. \E g : Joins(g)
    BY <1>1, FlattenExists
  <2> HIDE DEF Joins
  <2> QED BY <2>1
<1>3. FlattenSeq(seqs) = f[n]
  BY <1>1 DEF FlattenSeq
<1>4. \A j \in 1 .. n : L[j] = Len(seqs[j]) /\ L[j] \in Nat /\ L[j] \in Int /\ seqs[j] \in Seq(S)
  BY <1>1 DEF Lengths
<1>5. Before(0) = 0
  <2>1. 1 .. 0 = {} OBVIOUS
  <2> QED BY <2>1, SumEmpty
<1>6. ASSUME NEW m \in Nat, m < n PROVE Before(m + 1) = L[m + 1] + Before(m)
  <2>1. \A k \in 1 .. m + 1 : L[k] \in Int
    BY <1>4, <1>6
  <2> HIDE DEF L, n
  <2> QED BY <2>1, SumOfNext
<1>7. ASSUME NEW j \in 1 .. n
      PROVE  f[j] = IF j = 1 THEN seqs[j] ELSE f[j - 1] \o seqs[j]
  BY <1>2
<1> HIDE DEF f, L, Before, n
<1> DEFINE Placed(m, j) ==
             /\ Before(j - 1) \in Nat /\ Before(j - 1) + Len(seqs[j]) <= Len(f[m])
             /\ \A k \in 1 .. Len(seqs[j]) : f[m][Before(j - 1) + k] = seqs[j][k]
           Good(m) == /\ f[m] \in Seq(S) /\ Before(m) = Len(f[m])
                      /\ \A j \in 1 .. m : Placed(m, j)
           T == {m \in Nat : m >= 1 /\ m <= n => Good(m)}
<1>8. 0 \in T
  OBVIOUS
<1>9. ASSUME NEW m \in Nat, m \in T, m + 1 <= n PROVE Good(m + 1)
  <2> HIDE DEF Good, Placed
  <2>1. m + 1 \in 1 .. n /\ m < n
    BY <1>1, <1>9
  <2>2. CASE m = 0
    <3>1. f[1] = seqs[1]
      BY <2>1, <2>2, <1>7
    <3>2. Before(1) = Len(seqs[1])
      BY <2>1, <2>2, <1>5, <1>6, <1>4
    <3>3. Placed(1, 1)
      BY <3>1, <2>1, <2>2, <1>5, <1>4 DEF Placed
    <3> QED BY <2>2, <3>1, <3>2, <3>3, <1>4, <2>1 DEF Good
  <2>3. CASE m # 0
    <3>1. Good(m)
      <4>1. m >= 1 /\ m <= n
        BY <2>1, <2>3, <1>1
      <4> QED BY <4>1, <1>9
    <3>2. f[m + 1] = f[m] \o seqs[m + 1]
      <4>1. m + 1 # 1 /\ (m + 1) - 1 = m
        BY <2>3
      <4> QED BY <2>1, <4>1, <1>7
    <3>3. seqs[m + 1] \in Seq(S) /\ Before(m + 1) = Len(seqs[m + 1]) + Before(m)
      BY <2>1, <1>4, <1>6
    <3>4. f[m] \in Seq(S) /\ Before(m) = Len(f[m]) /\ \A j \in 1 .. m : Placed(m, j)
      BY <3>1 DEF Good
    <3>5. PICK a, b, c : a = f[m] /\ b = seqs[m + 1] /\ c = f[m + 1] /\ c = a \o b
      BY <3>2
    <3>6. /\ c \in Seq(S) /\ Len(c) = Len(a) + Len(b) /\ Len(a) \in Nat /\ Len(b) \in Nat
          /\ \A k \in 1 .. Len(a) : c[k] = a[k]
          /\ \A k \in 1 .. Len(b) : c[Len(a) + k] = b[k]
      <4>1. a \in Seq(S) /\ b \in Seq(S)
        BY <3>3, <3>4, <3>5
      <4>2. /\ a \o b \in Seq(S) /\ Len(a \o b) = Len(a) + Len(b)
            /\ Len(a) \in Nat /\ Len(b) \in Nat
            /\ \A k \in 1 .. Len(a) : (a \o b)[k] = a[k]
            /\ \A k \in 1 .. Len(b) : (a \o b)[Len(a) + k] = b[k]
        BY ONLY <4>1
      <4>3. c = a \o b
        BY <3>5
      <4> QED BY <4>2, <4>3, Zenon
    <3>7. ASSUME NEW j \in 1 .. m PROVE Placed(m + 1, j)
      <4>1. PICK p, d : p = Before(j - 1) /\ d = seqs[j]
        OBVIOUS
      <4>2. p \in Nat /\ p + Len(d) <= Len(a) /\ \A k \in 1 .. Len(d) : a[p + k] = d[k]
        BY <3>4, <3>5, <4>1 DEF Placed
      <4>3. Len(d) \in Nat
        <5>1. j \in 1 .. n
          BY <2>1, <1>1
        <5> QED BY <5>1, <1>4, <4>1
      <4>4. p + Len(d) <= Len(c)
        BY <4>2, <4>3, <3>6
      <4>5. ASSUME NEW k \in 1 .. Len(d) PROVE c[p + k] = d[k]
        <5>1. p + k \in 1 .. Len(a)
          BY <4>2, <4>3, <3>6
        <5> QED BY <5>1, <4>2, <3>6
      <4> QED BY <4>1, <4>2, <4>4, <4>5, <3>5 DEF Placed
    <3>8. Placed(m + 1, m + 1)
      <4>1. (m + 1) - 1 = m
        OBVIOUS
      <4>2. PICK p : p = Before(m)
        OBVIOUS
      <4>3. p = Len(a) /\ p \in Nat
        BY <4>2, <3>4, <3>5, <3>6
      <4>4. p + Len(b) <= Len(c) /\ \A k \in 1 .. Len(b) : c[p + k] = b[k]
        BY <4>3, <3>6
      <4> QED BY <4>1, <4>2, <4>3, <4>4, <3>5 DEF Placed
    <3>9. \A j \in 1 .. m + 1 : j \in 1 .. m \/ j = m + 1
      OBVIOUS
    <3>10. Before(m + 1) = Len(f[m + 1])
      <4>1. Before(m + 1) = Len(b) + Len(a)
        BY <3>3, <3>4, <3>5
      <4>2. Len(c) = Len(b) + Len(a)
        BY <3>6
      <4> QED BY <4>1, <4>2, <3>5
    <3> QED BY <3>5, <3>6, <3>7, <3>8, <3>9, <3>10 DEF Good
  <2> QED BY <2>2, <2>3
<1>10. n \in T
  <2>1. ASSUME NEW m \in Nat, m \in T PROVE m + 1 \in T
    <3> HIDE DEF Good
    <3> QED BY <1>9, <2>1
  <2> HIDE DEF T
  <2> QED BY <1>1, <1>8, <2>1, SetInduction
<1>11. f[n] \in Seq(S) /\ Placed(n, i) /\ Before(n) = Len(f[n])
  <2>1. Good(n)
    BY <1>1, <1>10
  <2> QED BY <1>1, <2>1
<1> QED BY <1>3, <1>11 DEF L, Before, n

(* The instruction register gets the fields that the word was made of. *)
LEMMA FieldsOfWord ==
  ASSUME NEW f, f.am \in 0 .. 3, f.rz \in 0 .. 15, f.rx \in 0 .. 15, NEW opcode \in 0 .. 63,
         NEW word2
  PROVE  Decode(word1(f, opcode), word2)
           = [am |-> f.am, opcode |-> opcode, rz |-> f.rz, rx |-> f.rx, operand |-> word2]
<1>1. 2^14 = 16384
  OBVIOUS
<1>2. word1(f, opcode) = (f.am * 64 + opcode) * 256 + f.rz * 16 + f.rx
  BY DEF word1
<1>3. Parted(word1(f, opcode), f.am, opcode, f.rz, f.rx)
  <2>1. Made(word1(f, opcode), f.am, opcode, f.rz, f.rx)
    BY <1>2 DEF Made
  <2> QED BY <2>1, Digits
<1> QED BY <1>1, <1>3 DEF Decode, Parted

(* An opcode has six bits. *)
LEMMA OpcodesAreWide == \A m \in DOMAIN opcodes : opcodes[m] \in 0 .. 63
BY DEF opcodes

(* The fields of a line that loses no register are those it is meant to    *)
(* have.                                                                   *)
LEMMA LineKeeps ==
  ASSUME NEW line \in Lines, ~ Rejected(line), KeepsItsRegisters(line)
  PROVE  LET f == Fields(source, line)
             meant == Intended(line)
         IN  /\ f.am \in 0 .. 3 /\ f.rz \in 0 .. 15 /\ f.rx \in 0 .. 15
             /\ f.rz = meant.rz /\ f.rx = meant.rx /\ f.operand = meant.operand
             /\ ~ Fat(f.am) => f.operand = 0
<1> DEFINE ops == line.ops
           n   == Len(ops)
           m   == line.mnemonic
           am  == IF n \notin 1 .. 3 \/ m = "NOOP" THEN "inherent" ELSE ops[n].kind
           moved == \/ m = "JMP" /\ n = 1
                    \/ m = "STR" /\ n = 2 /\ am = "direct"
           single == n > 0 /\ m \in {"JMP", "SSOP", "DATACALL", "DATACALL2"}
           to_dm  == n = 2 /\ m = "STR" /\ ops[2].kind = "direct"
           R(k) == parse_register(ops[k])
           f == Fields(source, line)
           meant == Intended(line)
<1>1. n \in Nat /\ DOMAIN ops = 1 .. n /\ \A k \in 1 .. n : ops[k] \in Operand
  BY DEF Lines
<1>2. ASSUME NEW k \in 1 .. n
      PROVE  /\ ops[k].kind \in {"register", "immediate", "direct"}
             /\ detect_addr_mode(ops[k]) = ops[k].kind
             /\ R(k) \in 0 .. 15
             /\ ops[k].kind # "register" => R(k) = 0
             /\ ops[k].kind = "register" => Value(source, ops[k]) = 0
  BY <1>1, <1>2 DEF Operand, detect_addr_mode, parse_register, Value
<1>3. am = IF n \notin 1 .. 3 \/ m = "NOOP" THEN "inherent" ELSE detect_addr_mode(ops[n])
  <2>1. n \in 1 .. 3 => n \in 1 .. n
    BY <1>1
  <2> QED BY <2>1, <1>2
<1>4. f = [am |-> address_modes[am],
           rz |-> IF am = "inherent" \/ moved THEN 0 ELSE R(1),
           rx |-> IF moved THEN R(1)
                  ELSE IF n \in {2, 3} /\ am = "register" THEN R(n)
                  ELSE 0,
           operand |-> IF am = "inherent" THEN 0 ELSE Value(source, ops[n])]
  BY <1>3, Zenon DEF Fields
<1>5. meant = [rz |-> IF n = 0 \/ single \/ to_dm THEN 0 ELSE R(1),
               rx |-> IF single \/ to_dm THEN R(1)
                      ELSE IF n = 2 THEN R(2)
                      ELSE IF n = 3 /\ ops[3].kind = "immediate"
                      THEN R(2)
                      ELSE IF n = 3 THEN R(3) ELSE 0,
               operand |-> IF n = 0 THEN 0 ELSE Value(source, ops[n])]
  BY Zenon DEF Intended
<1>6. /\ m \in {"SSOP", "DATACALL", "DATACALL2"} => \A k \in 1 .. n : R(k) = 0
      /\ n = 3 /\ ops[3].kind = "immediate" => R(2) = 0
      /\ m = "NOOP" => n = 0
      /\ m = "JMP" => n <= 1
      /\ n <= 3
  BY DEF KeepsItsRegisters
<1>7. m = "JMP" /\ n = 1 => ops[1].kind = "register"
  BY DEF Rejected
<1>8. am \in {"inherent", "register", "immediate", "direct"} /\ (am = "inherent" <=> n = 0)
  <2>1. /\ n \in 1 .. 3 => n \in 1 .. n /\ n # 0
        /\ n \in 1 .. 3 \/ n = 0
    <3>1. PICK k \in Nat : k = n /\ k <= 3
      BY <1>1, <1>6
    <3>2. /\ k \in 1 .. 3 => k \in 1 .. k /\ k # 0
          /\ k \in 1 .. 3 \/ k = 0
      <4>1. k <= 3
        BY <3>1
      <4> QED BY ONLY k \in Nat, <4>1
    <3> QED BY <3>1, <3>2
  <2>2. n \in 1 .. 3 => ops[n].kind \in {"register", "immediate", "direct"}
    BY <2>1, <1>2
  <2>3. m = "NOOP" => n \notin 1 .. 3
    BY <2>1, <1>6
  <2> HIDE DEF n, m
  <2> QED BY <2>1, <2>2, <2>3
<1>9. /\ address_modes["inherent"] = 0 /\ address_modes["immediate"] = 1
      /\ address_modes["direct"] = 2 /\ address_modes["register"] = 3
  BY DEF address_modes
<1>10. f.am \in 0 .. 3 /\ (~ Fat(f.am) <=> am \in {"inherent", "register"})
  BY <1>4, <1>8, <1>9 DEF Fat, am_immediate, am_direct
<1>11. f.operand = meant.operand /\ (~ Fat(f.am) => f.operand = 0)
  <2>1. f.operand = meant.operand
    BY <1>4, <1>5, <1>8
  <2>2. am = "register" => Value(source, ops[n]) = 0
    BY <1>1, <1>2, <1>8
  <2> QED BY <2>1, <2>2, <1>4, <1>10
<1>12. f.rz \in 0 .. 15 /\ f.rx \in 0 .. 15 /\ f.rz = meant.rz /\ f.rx = meant.rx
  <2> HIDE DEF f, meant, R
  <2>1. CASE n = 0
    BY <2>1, <1>4, <1>5, <1>8
  <2>2. CASE n = 1
    BY <2>2, <1>2, <1>4, <1>5, <1>6, <1>7, <1>8
  <2>3. CASE n = 2
    BY <2>3, <1>2, <1>4, <1>5, <1>6, <1>7, <1>8
  <2>4. CASE n = 3
    BY <2>4, <1>2, <1>4, <1>5, <1>6, <1>7, <1>8
  <2>5. CASE n > 3
    BY <2>5, <1>2, <1>4, <1>5, <1>6, <1>7, <1>8
  <2>6. n = 0 \/ n = 1 \/ n = 2 \/ n = 3 \/ n > 3
    <3>1. PICK k \in Nat : k = n
      BY <1>1
    <3>2. k = 0 \/ k = 1 \/ k = 2 \/ k = 3 \/ k > 3
      OBVIOUS
    <3> QED BY <3>1, <3>2
  <2> HIDE DEF n
  <2> QED BY <2>1, <2>2, <2>3, <2>4, <2>5, <2>6
<1> QED BY <1>10, <1>11, <1>12

(* Every line of a program has its words in the program memory, behind     *)
(* those of the lines before it.                                           *)
LEMMA LinePlaces ==
  ASSUME NEW Shape, source \in Seq(Shape), \A j \in DOMAIN source : ~ Rejected(source[j]),
         Len(assemble(source)) <= PcSize, prog = write_mif(assemble(source), MifDepth, PcSize),
         NEW i \in DOMAIN source, IsInstruction(source[i])
  PROVE  LET f == Fields(source, source[i])
             at == WordsBefore(i)
         IN  /\ at \in Pcs
             /\ prog[at] = word1(f, opcodes[source[i].mnemonic])
             /\ Fat(f.am) => at + 1 \in Pcs /\ prog[at + 1] = f.operand
             /\ Len(assemble(source)) = WordsBefore(Len(source) + 1)
<1> DEFINE W(j) == WordsOf(source, source[j])
           seqs == [j \in DOMAIN source |-> W(j)]
           S    == UNION {{W(j)[k] : k \in 1 .. Len(W(j))} : j \in DOMAIN source}
           f    == Fields(source, source[i])
           first == word1(f, opcodes[source[i].mnemonic])
           at   == WordsBefore(i)
           words == assemble(source)
<1>1. /\ DOMAIN source = 1 .. Len(source) /\ Len(source) \in Nat
      /\ Len(words) <= PcSize
  OBVIOUS
<1>2. ASSUME NEW j \in DOMAIN source
      PROVE  W(j) \in Seq(S) /\ Len(W(j)) \in Nat
  <2>1. PICK x, y : W(j) \in {<<x, y>>, <<x>>, <<>>}
    BY DEF WordsOf, assemble_instruction
  <2> HIDE DEF W
  <2>2. \A T : W(j) = <<x, y>> /\ (\A k \in 1 .. 2 : W(j)[k] \in T) => W(j) \in Seq(T)
    OBVIOUS
  <2>3. \A T : W(j) = <<x>> /\ (\A k \in 1 .. 1 : W(j)[k] \in T) => W(j) \in Seq(T)
    OBVIOUS
  <2>4. \A T : W(j) = <<>> => W(j) \in Seq(T)
    OBVIOUS
  <2>5. /\ W(j) = <<x, y>> => Len(W(j)) = 2
        /\ W(j) = <<x>> => Len(W(j)) = 1
        /\ W(j) = <<>> => Len(W(j)) = 0
    OBVIOUS
  <2>6. \A k \in 1 .. Len(W(j)) : W(j)[k] \in S
    OBVIOUS
  <2> HIDE DEF S
  <2> QED BY <2>1, <2>2, <2>3, <2>4, <2>5, <2>6
<1>3. seqs \in Seq(Seq(S)) /\ i \in DOMAIN seqs /\ seqs[i] = W(i) /\ Len(seqs) = Len(source)
  <2> HIDE DEF W, S
  <2> QED BY <1>1, <1>2
<1>4. words = FlattenSeq(seqs)
  BY DEF assemble
<1>5. at = SumFunctionOnSet(Lengths(seqs), 1 .. i - 1)
  BY DEF WordsBefore, Widths, Lengths
<1>6. /\ words \in Seq(S) /\ at \in Nat /\ at + Len(W(i)) <= Len(words)
      /\ Len(words) = SumFunctionOnSet(Lengths(seqs), 1 .. Len(seqs))
      /\ \A k \in 1 .. Len(W(i)) : words[at + k] = W(i)[k]
  <2> HIDE DEF W, S, at, words, seqs
  <2> QED BY <1>3, <1>4, <1>5, FlattenPlaces
<1>7. W(i) = IF Fat(f.am) THEN <<first, f.operand>> ELSE <<first>>
  BY DEF WordsOf, assemble_instruction
<1>8. W(i)[1] = first /\ Len(W(i)) >= 1 /\ Len(W(i)) \in Nat
      /\ (Fat(f.am) => Len(W(i)) = 2 /\ W(i)[2] = f.operand)
  <2> HIDE DEF f, first
  <2> QED BY <1>7
<1>9. PcSize \in Nat \ {0} /\ Len(words) \in Nat
  BY <1>6, Sizes
<1>10. \A a \in 0 .. PcSize - 1 : a < Len(words) => prog[a] = words[a + 1]
  BY DEF write_mif
<1>11. at \in 0 .. PcSize - 1 /\ at < Len(words) /\ words[at + 1] = first
  <2> HIDE DEF W, first, at, words
  <2>1. PICK p, n, len : p = at /\ n = Len(words) /\ len = Len(W(i))
    OBVIOUS
  <2>2. p \in Nat /\ n \in Nat /\ len \in Nat /\ len >= 1 /\ p + len <= n /\ n <= PcSize
        /\ PcSize \in Nat
    BY <1>1, <1>6, <1>8, <1>9, <2>1
  <2>3. p \in 0 .. PcSize - 1 /\ p < n
    BY ONLY <2>2
  <2>4. 1 \in 1 .. len
    BY ONLY <2>2
  <2>5. words[p + 1] = W(i)[1]
    BY <1>6, <2>1, <2>4
  <2> QED BY <2>1, <2>3, <2>5, <1>8
<1>12. ASSUME Fat(f.am)
       PROVE  at + 1 \in 0 .. PcSize - 1 /\ at + 1 < Len(words) /\ words[(at + 1) + 1] = f.operand
  <2> HIDE DEF W, f, at, words
  <2>1. PICK p, n : p = at /\ n = Len(words)
    OBVIOUS
  <2>2. p \in Nat /\ n \in Nat /\ p + 2 <= n /\ n <= PcSize /\ PcSize \in Nat
    BY <1>1, <1>6, <1>8, <1>9, <1>12, <2>1
  <2>3. p + 1 \in 0 .. PcSize - 1 /\ p + 1 < n /\ (p + 1) + 1 = p + 2
    BY ONLY <2>2
  <2>4. 2 \in 1 .. Len(W(i))
    <3>1. PICK len : len = Len(W(i))
      OBVIOUS
    <3>2. len = 2
      BY <1>8, <1>12, <3>1
    <3>3. 2 \in 1 .. len
      BY ONLY <3>2
    <3> QED BY <3>1, <3>3
  <2>5. words[p + 2] = W(i)[2]
    BY <1>6, <2>1, <2>4
  <2> QED BY <2>1, <2>3, <2>5, <1>8, <1>12
<1>13. Len(words) = WordsBefore(Len(source) + 1)
  <2>1. (Len(source) + 1) - 1 = Len(source)
    BY <1>1
  <2>2. Widths = Lengths(seqs)
    BY DEF Widths, Lengths
  <2> HIDE DEF words, seqs
  <2> QED BY <1>3, <1>6, <2>1, <2>2 DEF WordsBefore
<1> HIDE DEF f, first, at, words
<1> QED BY <1>10, <1>11, <1>12, <1>13 DEF Pcs, first, f, at, words

(* The program memory holds what the assembler made of the source. *)
SourceInv == /\ source \in Sources
             /\ prog = write_mif(assemble(source), MifDepth, PcSize)

(* Whatever program of lines that lose no register is assembled, ReCOP     *)
(* executes at each line's place in the memory the operation, the          *)
(* registers and the operand that the line names (ExecutesTheSource): the  *)
(* assembler's word count of every line is the decoder's, so that none of  *)
(* the following lines is displaced.                                       *)
THEOREM SourcesAreExecuted ==
  (\A s \in Sources : Plain(s)) => (RSpec => []ExecutesTheSource)
<1> SUFFICES ASSUME \A s \in Sources : Plain(s) PROVE RSpec => []ExecutesTheSource
  OBVIOUS
<1>1. RInit => SourceInv
  BY DEF RInit, StartOf, SourceInv
<1>2. SourceInv /\ [Next]_allVars => SourceInv'
  <2> SUFFICES ASSUME SourceInv, [Next]_allVars PROVE SourceInv'
    OBVIOUS
  <2>1. source' = source /\ prog' = prog
      BY DEF Next, Observe, Clock, Running, Resetting, allVars, vars
  <2> QED BY <2>1 DEF SourceInv
<1>3. ReCOPInv /\ DecodedInTime /\ SourceInv => ExecutesTheSource
  <2> SUFFICES ASSUME ReCOPInv, DecodedInTime, SourceInv, cu.state = "T3",
                      NEW i \in DOMAIN source, IsInstruction(source[i]), WordsBefore(i) = pc.out
               PROVE  LET meant == Intended(source[i])
                      IN  /\ ir.opcode = opcodes[source[i].mnemonic]
                          /\ <<ir.rz, ir.rx, ir.operand>> = <<meant.rz, meant.rx, meant.operand>>
    BY DEF ExecutesTheSource
  <2> DEFINE line == source[i]
             f == Fields(source, line)
             opcode == opcodes[line.mnemonic]
             second == IF Fat(f.am) THEN f.operand ELSE 0
  <2>1. Plain(source)
    BY DEF SourceInv
  <2>2. line \in Lines /\ ~ Rejected(line) /\ KeepsItsRegisters(line) /\ opcode \in 0 .. 63
    <3>1. line \in Lines /\ ~ Rejected(line) /\ KeepsItsRegisters(line)
      BY <2>1 DEF Plain
    <3> QED BY <3>1, OpcodesAreWide DEF Rejected
  <2>3. /\ pc.out \in Pcs /\ prog[pc.out] = word1(f, opcode)
        /\ Fat(f.am) => pc.out + 1 \in Pcs /\ prog[pc.out + 1] = f.operand
    BY <2>1, LinePlaces DEF SourceInv, Plain
  <2>4. /\ f.am \in 0 .. 3 /\ f.rz \in 0 .. 15 /\ f.rx \in 0 .. 15
        /\ f.rz = Intended(line).rz /\ f.rx = Intended(line).rx
        /\ f.operand = Intended(line).operand
        /\ ~ Fat(f.am) => f.operand = 0
    BY <2>2, LineKeeps
  <2>5. Fat(f.am) => Plus(pc.out, 1) = pc.out + 1
    <3> HIDE DEF f
    <3> SUFFICES ASSUME Fat(f.am) PROVE Plus(pc.out, 1) = pc.out + 1
      OBVIOUS
    <3>1. PICK p : p = pc.out
      OBVIOUS
    <3>2. p \in Pcs /\ p + 1 \in Pcs
      BY <2>3, <3>1
    <3>3. p \in Nat /\ p + 1 < PcSize /\ PcSize \in Nat
      BY <3>2, Sizes DEF Pcs
    <3>4. (p + 1) % PcSize = p + 1
      BY ONLY <3>3
    <3> QED BY <3>1, <3>4 DEF Plus
  <2> HIDE DEF f, opcode, line
  <2>6. \A word2 : Decode(prog[pc.out], word2)
          = [am |-> f.am, opcode |-> opcode, rz |-> f.rz, rx |-> f.rx, operand |-> word2]
    BY <2>2, <2>3, <2>4, FieldsOfWord
  <2>7. ir = Decode(prog[pc.out], second)
    <3>1. ir = Decode(prog[pc.out], IF Fat(Decode(prog[pc.out], 0).am)
                                    THEN prog[Plus(pc.out, 1)] ELSE 0)
      BY DEF DecodedInTime
    <3>2. Decode(prog[pc.out], 0).am = f.am
      <4>1. Decode(prog[pc.out], 0)
              = [am |-> f.am, opcode |-> opcode, rz |-> f.rz, rx |-> f.rx, operand |-> 0]
        BY <2>6
      <4> QED BY <4>1
    <3> QED BY <3>1, <3>2, <2>3, <2>5
  <2>8. /\ ir.opcode = opcode /\ ir.rz = f.rz /\ ir.rx = f.rx /\ ir.operand = second
    <3>1. ir = [am |-> f.am, opcode |-> opcode, rz |-> f.rz, rx |-> f.rx, operand |-> second]
      <4> HIDE DEF second
      <4> QED BY <2>6, <2>7
    <3> HIDE DEF second
    <3> QED BY <3>1
  <2> QED BY <2>4, <2>8 DEF line, opcode
<1> QED BY <1>1, <1>2, <1>3, ReCOPInvariant, InstructionsAreDecodedInTime, PTL DEF RSpec

----------------------------------------------------------------------------
(***************************************************************************)
(* The start-up program: its lines, and the words of the program memory    *)
(* that the assembler makes of them.                                       *)
(***************************************************************************)
LEMMA ImmediateLine ==
  ASSUME NEW m \in {"LDR", "DATACALL2"}, NEW v \in Nat,
         NEW line, line = I(m, <<Reg(0), Imm(v)>>)
  PROVE  /\ line.mnemonic = m /\ ~ Rejected(line) /\ IsInstruction(line)
         /\ Fields(source, line) = [am |-> am_immediate, rz |-> 0, rx |-> 0, operand |-> v]
         /\ Len(WordsOf(source, line)) = 2
<1>1. line.mnemonic = m /\ line.ops = <<Reg(0), Imm(v)>>
  BY DEF I, Line
<1>2. /\ m \in DOMAIN opcodes /\ m # "JMP" /\ m # "STR" /\ m # "NOOP"
      /\ m \notin {"", "END", "ENDPROG"}
  BY DEF opcodes
<1>3. Len(line.ops) = 2 /\ line.ops[1] = Reg(0) /\ line.ops[2] = Imm(v)
  BY <1>1
<1>4. ~ Rejected(line) /\ IsInstruction(line)
  <2>1. line.mnemonic \in DOMAIN opcodes /\ line.mnemonic # "JMP" /\ Len(line.ops) = 2
    BY <1>1, <1>2, <1>3
  <2>2. ~ Rejected(line)
    BY ONLY <2>1 DEF Rejected
  <2> QED BY <1>1, <1>2, <2>2 DEF IsInstruction
<1>5. /\ parse_register(line.ops[1]) = 0
      /\ detect_addr_mode(line.ops[2]) = "immediate" /\ Value(source, line.ops[2]) = v
  <2>0. Reg(0).n = 0 /\ Imm(v).kind = "immediate" /\ Imm(v).n = v
    BY DEF Reg, Imm
  <2>1. line.ops[1].n = 0
    BY <1>3, <2>0
  <2>2. line.ops[2].kind = "immediate" /\ line.ops[2].n = v
    BY <1>3, <2>0
  <2>3. parse_register(line.ops[1]) = 0
    BY <2>1 DEF parse_register
  <2>4. detect_addr_mode(line.ops[2]) = "immediate"
    BY <2>2 DEF detect_addr_mode
  <2>5. Value(source, line.ops[2]) = v
    BY <2>2, <2>4 DEF Value
  <2> QED BY <2>3, <2>4, <2>5
<1>6. Fields(source, line) = [am |-> am_immediate, rz |-> 0, rx |-> 0, operand |-> v]
  <2>1. address_modes["immediate"] = am_immediate
    BY DEF address_modes, am_immediate
  <2>2. line.mnemonic \notin {"JMP", "STR", "NOOP"} /\ Len(line.ops) = 2
    BY <1>1, <1>2, <1>3
  <2> QED BY ONLY <1>5, <2>1, <2>2 DEF Fields
<1>7. WordsOf(source, line) = <<word1(Fields(source, line), opcodes[m]), v>>
  <2>1. Fat(Fields(source, line).am) /\ Fields(source, line).operand = v
    BY <1>6 DEF Fat
  <2> QED BY <1>1, <1>4, <2>1 DEF WordsOf, assemble_instruction
<1> QED BY <1>1, <1>4, <1>6, <1>7

(* The assembler puts the register of a data call in Rz, where the decoder *)
(* does not look for it: whatever register the line names, ReCOP sends R0  *)
(* (asm_to_mif.py assemble_instruction; "DATACALL Rx" of opcodes.vhd).     *)
THEOREM DataCallsSendR0 ==
  ASSUME NEW n \in 0 .. 15, NEW v \in Nat, NEW word2,
         NEW line \in {I("DATACALL", <<Reg(n)>>), I("DATACALL2", <<Reg(n), Imm(v)>>)}
  PROVE  /\ Intended(line).rx = n
         /\ Decode(WordsOf(source, line)[1], word2).rx = 0
         /\ Decode(WordsOf(source, line)[1], word2).rz = n
<1> DEFINE m == line.mnemonic
           k == Len(line.ops)
           f == Fields(source, line)
<1>1. /\ m \in {"DATACALL", "DATACALL2"} /\ k \in {1, 2} /\ line.ops[1] = Reg(n)
      /\ k = 2 => line.ops[2] = Imm(v)
  <2>1. CASE line = I("DATACALL", <<Reg(n)>>)
    <3>1. m = "DATACALL" /\ line.ops = <<Reg(n)>>
      BY <2>1 DEF I, Line
    <3> QED BY <3>1
  <2>2. CASE line = I("DATACALL2", <<Reg(n), Imm(v)>>)
    <3>1. m = "DATACALL2" /\ line.ops = <<Reg(n), Imm(v)>>
      BY <2>2 DEF I, Line
    <3> QED BY <3>1
  <2> QED BY <2>1, <2>2
<1>2. parse_register(line.ops[1]) = n
  <2>1. Reg(n).kind = "register" /\ Reg(n).n = n
    BY DEF Reg
  <2> QED BY <1>1, <2>1 DEF parse_register
<1>3. /\ detect_addr_mode(line.ops[1]) = "register"
      /\ k = 2 => detect_addr_mode(line.ops[2]) = "immediate"
  <2>1. Reg(n).kind = "register" /\ Imm(v).kind = "immediate"
    BY DEF Reg, Imm
  <2> QED BY <1>1, <2>1 DEF detect_addr_mode
<1>4. f.rz = n /\ f.rx = 0 /\ f.am \in {am_register, am_immediate}
  <2>1. address_modes["immediate"] = am_immediate /\ address_modes["register"] = am_register
    BY DEF address_modes, am_immediate, am_register
  <2>2. m \notin {"JMP", "STR", "NOOP"}
    BY <1>1
  <2> QED BY ONLY <1>1, <1>2, <1>3, <2>1, <2>2 DEF Fields
<1>5. Intended(line).rx = n
  <2>1. k > 0
    BY <1>1
  <2> QED BY ONLY <1>1, <1>2, <2>1 DEF Intended
<1>6. opcodes[m] \in 0 .. 63 /\ IsInstruction(line)
  <2>1. /\ {"DATACALL", "DATACALL2"} \subseteq DOMAIN opcodes
        /\ {"DATACALL", "DATACALL2"} \cap {"", "END", "ENDPROG"} = {}
    BY DEF opcodes
  <2>2. m \in DOMAIN opcodes /\ m \notin {"", "END", "ENDPROG"}
    BY <1>1, <2>1
  <2> QED BY <2>2, OpcodesAreWide DEF IsInstruction
<1>7. WordsOf(source, line)[1] = word1(f, opcodes[m])
  BY <1>6 DEF WordsOf, assemble_instruction
<1>8. f.am \in 0 .. 3 /\ f.rz \in 0 .. 15 /\ f.rx \in 0 .. 15
  BY <1>4 DEF am_register, am_immediate
<1> HIDE DEF f, m
<1>9. Decode(word1(f, opcodes[m]), word2)
        = [am |-> f.am, opcode |-> opcodes[m], rz |-> f.rz, rx |-> f.rx, operand |-> word2]
  BY <1>6, <1>8, FieldsOfWord
<1> QED BY <1>4, <1>5, <1>7, <1>9

LEMMA BareLine ==
  ASSUME NEW m \in {"NOOP", "END", "ENDPROG"}, NEW line, line = I(m, <<>>)
  PROVE  /\ line.mnemonic = m /\ ~ Rejected(line) /\ (IsInstruction(line) <=> m = "NOOP")
         /\ Fields(source, line) = [am |-> am_inherent, rz |-> 0, rx |-> 0, operand |-> 0]
         /\ Len(WordsOf(source, line)) = IF m = "NOOP" THEN 1 ELSE 0
<1>1. line.mnemonic = m /\ line.ops = <<>>
  BY DEF I, Line
<1>2. "NOOP" \in DOMAIN opcodes /\ m # "JMP"
  BY DEF opcodes
<1>3. Len(line.ops) = 0
  BY <1>1
<1>4. ~ Rejected(line) /\ (IsInstruction(line) <=> m = "NOOP")
  <2>1. IsInstruction(line) <=> m = "NOOP"
    BY <1>1 DEF IsInstruction
  <2> QED BY <1>1, <1>2, <1>3, <2>1 DEF Rejected
<1>5. Fields(source, line) = [am |-> am_inherent, rz |-> 0, rx |-> 0, operand |-> 0]
  <2>1. address_modes["inherent"] = am_inherent
    BY DEF address_modes, am_inherent
  <2> QED BY <1>1, <1>2, <1>3, <2>1 DEF Fields
<1>6. CASE m = "NOOP"
  <2>1. ~ Fat(Fields(source, line).am)
    BY <1>5 DEF Fat, am_inherent, am_immediate, am_direct
  <2>2. WordsOf(source, line) = <<word1(Fields(source, line), opcodes[m])>>
    BY <1>1, <1>4, <1>6, <2>1 DEF WordsOf, assemble_instruction
  <2> QED BY <1>1, <1>4, <1>5, <1>6, <2>2
<1>7. CASE m # "NOOP"
  <2>1. WordsOf(source, line) = <<>>
    BY <1>4, <1>7 DEF WordsOf
  <2> QED BY <1>1, <1>4, <1>5, <1>7, <2>1
<1> QED BY <1>6, <1>7

(* The operands of the lines. *)
StartUpOperands == <<0, 37120, 4, 37504, 36, 41728, 2, 0, 0, 0, 0, 0>>

LEMMA StartUpLines ==
  /\ Len(AsmInit) = 12 /\ DOMAIN AsmInit = 1 .. 12
  /\ AsmInit[1] = I("NOOP", <<>>) /\ AsmInit[10] = I("NOOP", <<>>)
  /\ AsmInit[11] = I("ENDPROG", <<>>) /\ AsmInit[12] = I("END", <<>>)
  /\ \A i \in {2, 4, 6, 8} :
       StartUpOperands[i] \in Nat /\ AsmInit[i] = I("LDR", <<Reg(0), Imm(StartUpOperands[i])>>)
  /\ \A i \in {3, 5, 7, 9} :
       /\ StartUpOperands[i] \in Nat
       /\ AsmInit[i] = I("DATACALL2", <<Reg(0), Imm(StartUpOperands[i])>>)
<1> DEFINE Load(v) == I("LDR", <<Reg(0), Imm(v)>>)
           Sending(v) == I("DATACALL2", <<Reg(0), Imm(v)>>)
<1>1. /\ AsmInit[1] = I("NOOP", <<>>) /\ AsmInit[10] = I("NOOP", <<>>)
      /\ AsmInit[11] = I("ENDPROG", <<>>) /\ AsmInit[12] = I("END", <<>>)
      /\ AsmInit[2] = Load(37120) /\ AsmInit[3] = Sending(4)
      /\ AsmInit[4] = Load(37504) /\ AsmInit[5] = Sending(36)
      /\ AsmInit[6] = Load(41728) /\ AsmInit[7] = Sending(2)
      /\ AsmInit[8] = Load(0) /\ AsmInit[9] = Sending(0)
      /\ Len(AsmInit) = 12 /\ DOMAIN AsmInit = 1 .. 12
  BY DEF AsmInit
<1> HIDE DEF Load, Sending
<1>2. ASSUME NEW i \in {2, 4, 6, 8}
      PROVE  StartUpOperands[i] \in Nat /\ AsmInit[i] = Load(StartUpOperands[i])
  BY <1>1 DEF StartUpOperands
<1>3. ASSUME NEW i \in {3, 5, 7, 9}
      PROVE  StartUpOperands[i] \in Nat /\ AsmInit[i] = Sending(StartUpOperands[i])
  BY <1>1 DEF StartUpOperands
<1> QED BY <1>1, <1>2, <1>3 DEF Load, Sending

(* The start-up program is a sequence of its lines. *)
LEMMA TwelveLines ==
  ASSUME NEW a, NEW b, NEW c, NEW d, NEW e, NEW f, NEW g, NEW h, NEW i, NEW j, NEW k, NEW l
  PROVE  <<a, b, c, d, e, f, g, h, i, j, k, l>> \in Seq({a, b, c, d, e, f, g, h, i, j, k, l})
OBVIOUS

LEMMA StartUpIsSequence == \E T : AsmInit \in Seq(T)
<1> DEFINE Noop       == I("NOOP", <<>>)
           Load(v)    == I("LDR", <<Reg(0), Imm(v)>>)
           Sending(v) == I("DATACALL2", <<Reg(0), Imm(v)>>)
           EndProg    == I("ENDPROG", <<>>)
           End        == I("END", <<>>)
<1>1. AsmInit = <<Noop, Load(37120), Sending(4), Load(37504), Sending(36), Load(41728),
                  Sending(2), Load(0), Sending(0), Noop, EndProg, End>>
  BY DEF AsmInit
<1> HIDE DEF Noop, Load, Sending, EndProg, End
<1>2. AsmInit \in Seq({Noop, Load(37120), Sending(4), Load(37504), Sending(36), Load(41728),
                       Sending(2), Load(0), Sending(0), Noop, EndProg, End})
  BY ONLY <1>1, TwelveLines
<1> QED BY <1>2


(* Where the lines of the start-up program are in the memory.              *)
StartUpWidths == <<1, 2, 2, 2, 2, 2, 2, 2, 2, 1, 0, 0>>
StartUpPlaces == <<0, 1, 3, 5, 7, 9, 11, 13, 15, 17, 18, 18, 18>>

LEMMA StartUpWords ==
  ASSUME source = AsmInit
  PROVE  \A i \in 1 .. 12 : Widths[i] = StartUpWidths[i] /\ ~ Rejected(source[i])
<1>1. \A i \in 1 .. 12 : Widths[i] = Len(WordsOf(source, source[i]))
  BY StartUpLines DEF Widths
<1>2. \A i \in {1, 10} : Len(WordsOf(source, source[i])) = 1 /\ ~ Rejected(source[i])
  BY StartUpLines, BareLine
<1>3. \A i \in {11, 12} : Len(WordsOf(source, source[i])) = 0 /\ ~ Rejected(source[i])
  <2>1. "ENDPROG" # "NOOP" /\ "END" # "NOOP"
    OBVIOUS
  <2> QED BY <2>1, StartUpLines, BareLine
<1>4. ASSUME NEW i \in {2, 4, 6, 8}
      PROVE  Len(WordsOf(source, source[i])) = 2 /\ ~ Rejected(source[i])
  <2>1. StartUpOperands[i] \in Nat /\ source[i] = I("LDR", <<Reg(0), Imm(StartUpOperands[i])>>)
    BY StartUpLines
  <2> QED BY <2>1, ImmediateLine
<1>5. ASSUME NEW i \in {3, 5, 7, 9}
      PROVE  Len(WordsOf(source, source[i])) = 2 /\ ~ Rejected(source[i])
  <2>1. /\ StartUpOperands[i] \in Nat
        /\ source[i] = I("DATACALL2", <<Reg(0), Imm(StartUpOperands[i])>>)
    BY StartUpLines
  <2> QED BY <2>1, ImmediateLine
<1>6. /\ \A i \in {1, 10} : StartUpWidths[i] = 1
      /\ \A i \in {11, 12} : StartUpWidths[i] = 0
      /\ \A i \in {2, 4, 6, 8} : StartUpWidths[i] = 2
      /\ \A i \in {3, 5, 7, 9} : StartUpWidths[i] = 2
  BY DEF StartUpWidths
<1>7. \A i \in 1 .. 12 : i \in {1, 10} \/ i \in {11, 12} \/ i \in {2, 4, 6, 8} \/ i \in {3, 5, 7, 9}
  OBVIOUS
<1> QED BY <1>1, <1>2, <1>3, <1>4, <1>5, <1>6, <1>7

LEMMA StartUpPlaced ==
  ASSUME source = AsmInit
  PROVE  \A i \in 1 .. 13 : WordsBefore(i) = StartUpPlaces[i]
<1>1. WordsBefore(1) = 0
  <2>1. 1 .. 1 - 1 = {}
    OBVIOUS
  <2> QED BY <2>1, SumEmpty DEF WordsBefore
<1>2. \A k \in 1 .. 12 : StartUpWidths[k] \in 0 .. 2
  BY DEF StartUpWidths
<1>3. ASSUME NEW i \in 1 .. 12
      PROVE  WordsBefore(i + 1) = StartUpWidths[i] + WordsBefore(i)
  <2>1. i - 1 \in Nat /\ (i - 1) + 1 = i /\ (i + 1) - 1 = i
    OBVIOUS
  <2>2. \A k \in 1 .. i : Widths[k] \in Int
    BY <1>2, StartUpWords
  <2>3. SumFunctionOnSet(Widths, 1 .. (i - 1) + 1)
          = Widths[(i - 1) + 1] + SumFunctionOnSet(Widths, 1 .. i - 1)
    <3>1. \A n \in Nat : (\A k \in 1 .. n + 1 : Widths[k] \in Int)
            => SumFunctionOnSet(Widths, 1 .. n + 1)
                 = Widths[n + 1] + SumFunctionOnSet(Widths, 1 .. n)
      BY SumOfNext
    <3> QED BY <2>1, <2>2, <3>1
  <2> QED BY <2>1, <2>3, StartUpWords DEF WordsBefore
<1>4. ASSUME NEW i \in 1 .. 12, WordsBefore(i) = StartUpPlaces[i]
      PROVE  WordsBefore(i + 1) = StartUpPlaces[i + 1]
  <2>1. \A k \in 1 .. 12 : StartUpPlaces[k + 1] = StartUpWidths[k] + StartUpPlaces[k]
    BY DEF StartUpPlaces, StartUpWidths
  <2> QED BY <1>3, <1>4, <2>1
<1>5. StartUpPlaces[1] = 0
  BY DEF StartUpPlaces
<1> DEFINE T == {n \in Nat : n < 13 => WordsBefore(n + 1) = StartUpPlaces[n + 1]}
<1>6. 0 \in T
  BY <1>1, <1>5
<1>7. ASSUME NEW n \in Nat, n \in T PROVE n + 1 \in T
  <2>1. CASE n + 1 < 13
    <3>1. n + 1 \in 1 .. 12
      BY <2>1
    <3> QED BY <1>4, <1>7, <3>1
  <2> QED BY <2>1
<1>8. \A n \in Nat : n \in T
  <2> HIDE DEF T
  <2> QED BY <1>6, <1>7, SetInduction
<1>9. ASSUME NEW i \in 1 .. 13 PROVE WordsBefore(i) = StartUpPlaces[i]
  <2>1. i - 1 \in Nat /\ i - 1 < 13 /\ (i - 1) + 1 = i
    OBVIOUS
  <2> QED BY <1>8, <2>1
<1> QED BY <1>9

(* The instruction whose words are at place a of the memory.               *)
InstructionAt(a) ==
  Decode(prog[a], IF FirstOf(prog[a]) THEN prog[Plus(a, 1)] ELSE 0)

LEMMA StartUpLineAt ==
  ASSUME source = AsmInit, SourceInv, Len(assemble(AsmInit)) <= PcSize,
         NEW i \in 1 .. 10, NEW am \in {am_inherent, am_immediate}, NEW v,
         Fields(source, source[i]) = [am |-> am, rz |-> 0, rx |-> 0, operand |-> v],
         IsInstruction(source[i]), source[i].mnemonic \in DOMAIN opcodes,
         am = am_inherent => v = 0
  PROVE  /\ 18 <= PcSize
         /\ InstructionAt(StartUpPlaces[i])
              = [am |-> am, opcode |-> opcodes[source[i].mnemonic], rz |-> 0, rx |-> 0,
                 operand |-> v]
<1> DEFINE f      == Fields(source, source[i])
           opcode == opcodes[source[i].mnemonic]
<1>0. PICK T : source \in Seq(T)
  BY StartUpIsSequence
<1>1. /\ source \in Seq(T) /\ DOMAIN source = 1 .. 12 /\ Len(source) = 12
      /\ \A j \in DOMAIN source : ~ Rejected(source[j])
  BY <1>0, StartUpLines, StartUpWords
<1>2. /\ WordsBefore(i) \in Pcs /\ prog[WordsBefore(i)] = word1(f, opcode)
      /\ Fat(f.am) => WordsBefore(i) + 1 \in Pcs /\ prog[WordsBefore(i) + 1] = f.operand
      /\ Len(assemble(source)) = WordsBefore(Len(source) + 1)
  <2>1. i \in DOMAIN source /\ Len(assemble(source)) <= PcSize
    BY <1>1
  <2>2. prog = write_mif(assemble(source), MifDepth, PcSize)
    BY DEF SourceInv
  <2> QED BY <1>1, <2>1, <2>2, LinePlaces
<1>3. PICK a : a = WordsBefore(i) /\ a = StartUpPlaces[i]
  BY StartUpPlaced
<1>4. 18 <= PcSize
  <2>1. WordsBefore(13) = 18
    BY StartUpPlaced DEF StartUpPlaces
  <2> QED BY <1>1, <1>2, <2>1
<1>5. opcode \in 0 .. 63 /\ am \in 0 .. 3 /\ (Fat(am) <=> am = am_immediate)
  <2>1. opcode \in 0 .. 63
    BY OpcodesAreWide
  <2> QED BY <2>1 DEF Fat, am_inherent, am_immediate, am_direct
<1>6. f.am = am /\ f.rz = 0 /\ f.rx = 0 /\ f.operand = v
  OBVIOUS
<1> HIDE DEF f, opcode
<1>7. \A word2 : Decode(prog[a], word2)
        = [am |-> am, opcode |-> opcode, rz |-> 0, rx |-> 0, operand |-> word2]
  <2>1. prog[a] = word1(f, opcode)
    BY <1>2, <1>3
  <2>2. f.am \in 0 .. 3 /\ f.rz \in 0 .. 15 /\ f.rx \in 0 .. 15
    BY <1>5, <1>6
  <2>3. ASSUME NEW word2
        PROVE  Decode(word1(f, opcode), word2)
                 = [am |-> f.am, opcode |-> opcode, rz |-> f.rz, rx |-> f.rx, operand |-> word2]
    BY <1>5, <2>2, FieldsOfWord
  <2> QED BY <1>6, <2>1, <2>3
<1>8. FirstOf(prog[a]) <=> am = am_immediate
  <2>1. Decode(prog[a], 0) = [am |-> am, opcode |-> opcode, rz |-> 0, rx |-> 0, operand |-> 0]
    BY <1>7
  <2>2. Decode(prog[a], 0).am = am
    BY <2>1
  <2> QED BY <1>5, <2>2 DEF FirstOf
<1>9. am = am_immediate => prog[Plus(a, 1)] = v
  <2> SUFFICES ASSUME am = am_immediate PROVE prog[Plus(a, 1)] = v
    OBVIOUS
  <2>1. a \in Pcs /\ a + 1 \in Pcs /\ prog[a + 1] = v
    BY <1>2, <1>3, <1>5, <1>6
  <2>2. a \in Nat /\ a + 1 < PcSize /\ PcSize \in Nat
    BY <2>1, Sizes DEF Pcs
  <2>3. (a + 1) % PcSize = a + 1
    BY ONLY <2>2
  <2> QED BY <2>1, <2>3 DEF Plus
<1>10. (IF FirstOf(prog[a]) THEN prog[Plus(a, 1)] ELSE 0) = v
  <2>1. CASE am = am_immediate
    BY <1>8, <1>9, <2>1
  <2>2. CASE am = am_inherent
    BY <1>8, <2>2 DEF am_inherent, am_immediate
  <2> QED BY <2>1, <2>2
<1> QED BY <1>3, <1>4, <1>7, <1>10 DEF InstructionAt, opcode

(* The second words of the instructions. *)
StartUpWord(a) == CASE a = 1 -> 37120 [] a = 3 -> 4
                    [] a = 5 -> 37504 [] a = 7 -> 36
                    [] a = 9 -> 41728 [] a = 11 -> 2 [] OTHER -> 0

(* At every place at which an instruction of the start-up program begins,  *)
(* and behind it to the end of the memory: what it is, as far as it        *)
(* matters here. Ones are SEOT, and zeros are LDR in inherent mode.        *)
StartUpStarts == {0, 1, 3, 5, 7, 9, 11, 13, 15, 17} \cup 18 .. PcSize - 1
Behaves(a) ==
  LET i == InstructionAt(a)
  IN  /\ a \in {1, 5, 9, 13} => i.am = am_immediate /\ i.opcode = ldr /\ i.rz = 0
      /\ a \in {3, 7, 11, 15} => i.am = am_immediate /\ i.opcode = datacall2 /\ i.rx = 0
      /\ a \in {1, 3, 5, 7, 9, 11, 13, 15} => i.operand = StartUpWord(a)
      /\ a \in {0, 17} => i.am = am_inherent /\ i.opcode = noop
      /\ a >= 18 => \/ i.am = am_register /\ i.opcode = seot
                    \/ i.am = am_inherent /\ i.opcode = ldr

LEMMA StartUpMemory ==
  ASSUME source = AsmInit, SourceInv, Len(assemble(AsmInit)) <= PcSize
  PROVE  18 <= PcSize /\ \A a \in StartUpStarts : Behaves(a)
<1>1. /\ StartUpPlaces[1] = 0 /\ StartUpPlaces[10] = 17
      /\ StartUpPlaces[2] = 1 /\ StartUpPlaces[4] = 5 /\ StartUpPlaces[6] = 9
      /\ StartUpPlaces[8] = 13
      /\ StartUpPlaces[3] = 3 /\ StartUpPlaces[5] = 7 /\ StartUpPlaces[7] = 11
      /\ StartUpPlaces[9] = 15
  BY DEF StartUpPlaces
<1>2. opcodes["NOOP"] = noop /\ opcodes["LDR"] = ldr /\ opcodes["DATACALL2"] = datacall2
      /\ {"NOOP", "LDR", "DATACALL2"} \subseteq DOMAIN opcodes
  BY DEF opcodes, noop, ldr, datacall2
<1>3. ASSUME NEW i \in {1, 10}
      PROVE  /\ 18 <= PcSize
             /\ InstructionAt(StartUpPlaces[i])
                  = [am |-> am_inherent, opcode |-> noop, rz |-> 0, rx |-> 0, operand |-> 0]
  <2>1. source[i] = I("NOOP", <<>>) /\ i \in 1 .. 10
    <3>1. source[1] = I("NOOP", <<>>) /\ source[10] = I("NOOP", <<>>)
      BY StartUpLines
    <3>2. i = 1 \/ i = 10
      OBVIOUS
    <3> QED BY <3>1, <3>2
  <2>2. /\ source[i].mnemonic = "NOOP" /\ IsInstruction(source[i])
        /\ Fields(source, source[i]) = [am |-> am_inherent, rz |-> 0, rx |-> 0, operand |-> 0]
    BY <2>1, BareLine
  <2> QED BY <2>1, <2>2, <1>2, StartUpLineAt
<1>4. ASSUME NEW m \in {"LDR", "DATACALL2"}, NEW i \in 1 .. 10, NEW v \in Nat,
             source[i] = I(m, <<Reg(0), Imm(v)>>)
      PROVE  InstructionAt(StartUpPlaces[i])
               = [am |-> am_immediate, opcode |-> opcodes[m], rz |-> 0, rx |-> 0, operand |-> v]
  <2>1. /\ source[i].mnemonic = m /\ IsInstruction(source[i])
        /\ Fields(source, source[i]) = [am |-> am_immediate, rz |-> 0, rx |-> 0, operand |-> v]
    BY <1>4, ImmediateLine
  <2>2. am_immediate # am_inherent
    BY DEF am_immediate, am_inherent
  <2> QED BY <2>1, <2>2, <1>2, StartUpLineAt
<1>5. ASSUME NEW i \in {2, 4, 6, 8}
      PROVE  InstructionAt(StartUpPlaces[i])
               = [am |-> am_immediate, opcode |-> ldr, rz |-> 0, rx |-> 0,
                  operand |-> StartUpOperands[i]]
  <2>1. StartUpOperands[i] \in Nat /\ source[i] = I("LDR", <<Reg(0), Imm(StartUpOperands[i])>>)
    BY StartUpLines
  <2>2. i \in 1 .. 10
    OBVIOUS
  <2> QED BY <2>1, <2>2, <1>2, <1>4
<1>6. ASSUME NEW i \in {3, 5, 7, 9}
      PROVE  InstructionAt(StartUpPlaces[i])
               = [am |-> am_immediate, opcode |-> datacall2, rz |-> 0, rx |-> 0,
                  operand |-> StartUpOperands[i]]
  <2>1. /\ StartUpOperands[i] \in Nat
        /\ source[i] = I("DATACALL2", <<Reg(0), Imm(StartUpOperands[i])>>)
    BY StartUpLines
  <2>2. i \in 1 .. 10
    OBVIOUS
  <2> QED BY <2>1, <2>2, <1>2, <1>4
<1>7. \A i \in 2 .. 9 : StartUpOperands[i] = StartUpWord(StartUpPlaces[i])
  BY DEF StartUpOperands, StartUpPlaces, StartUpWord
<1>8. Len(assemble(source)) = 18
  <2>0. PICK T : source \in Seq(T)
    BY StartUpIsSequence
  <2>1. /\ source \in Seq(T) /\ DOMAIN source = 1 .. 12 /\ Len(source) = 12
        /\ \A j \in DOMAIN source : ~ Rejected(source[j])
    BY <2>0, StartUpLines, StartUpWords
  <2>2. 1 \in DOMAIN source /\ IsInstruction(source[1])
    <3>1. source[1] = I("NOOP", <<>>)
      BY StartUpLines
    <3> QED BY <2>1, <3>1, BareLine
  <2>3. Len(assemble(source)) = WordsBefore(Len(source) + 1)
    BY <2>1, <2>2, LinePlaces DEF SourceInv
  <2>4. WordsBefore(13) = 18
    BY StartUpPlaced DEF StartUpPlaces
  <2> QED BY <2>1, <2>3, <2>4
<1>9. ASSUME NEW a \in 18 .. PcSize - 1
      PROVE  \/ InstructionAt(a).am = am_register /\ InstructionAt(a).opcode = seot
             \/ InstructionAt(a).am = am_inherent /\ InstructionAt(a).opcode = ldr
  <2>1. a \in 0 .. PcSize - 1 /\ ~ (a < 18)
    BY Sizes
  <2>2. prog[a] = 2^16 - 1 \/ prog[a] = 0
    BY <1>8, <2>1 DEF SourceInv, write_mif
  <2>3. 2^16 = 65536 /\ 2^14 = 16384
    OBVIOUS
  <2>4. 65535 \div 16384 = 3 /\ (65535 \div 256) % 64 = 63
        /\ 0 \div 16384 = 0 /\ (0 \div 256) % 64 = 0
    OBVIOUS
  <2>5. CASE prog[a] = 65535
    <3>1. \A w : Decode(prog[a], w).am = 3 /\ Decode(prog[a], w).opcode = 63
      BY <2>3, <2>4, <2>5 DEF Decode
    <3> QED BY <3>1 DEF InstructionAt, am_register, seot
  <2>6. CASE prog[a] = 0
    <3>1. \A w : Decode(prog[a], w).am = 0 /\ Decode(prog[a], w).opcode = 0
      BY <2>3, <2>4, <2>6 DEF Decode
    <3> QED BY <3>1 DEF InstructionAt, am_inherent, ldr
  <2> QED BY <2>2, <2>3, <2>5, <2>6
<1>10. ASSUME NEW a \in {1, 5, 9, 13}
       PROVE  /\ InstructionAt(a).am = am_immediate /\ InstructionAt(a).opcode = ldr
              /\ InstructionAt(a).rz = 0 /\ InstructionAt(a).operand = StartUpWord(a)
  <2>1. PICK i \in {2, 4, 6, 8} : a = StartUpPlaces[i]
    BY <1>1
  <2>2. StartUpOperands[i] = StartUpWord(a)
    BY <1>7, <2>1
  <2>3. InstructionAt(a) = [am |-> am_immediate, opcode |-> ldr, rz |-> 0, rx |-> 0,
                            operand |-> StartUpOperands[i]]
    BY <2>1, <1>5
  <2> QED BY <2>2, <2>3
<1>11. ASSUME NEW a \in {3, 7, 11, 15}
       PROVE  /\ InstructionAt(a).am = am_immediate /\ InstructionAt(a).opcode = datacall2
              /\ InstructionAt(a).rx = 0 /\ InstructionAt(a).operand = StartUpWord(a)
  <2>1. PICK i \in {3, 5, 7, 9} : a = StartUpPlaces[i]
    BY <1>1
  <2>2. StartUpOperands[i] = StartUpWord(a)
    BY <1>7, <2>1
  <2>3. InstructionAt(a) = [am |-> am_immediate, opcode |-> datacall2, rz |-> 0, rx |-> 0,
                            operand |-> StartUpOperands[i]]
    BY <2>1, <1>6
  <2> QED BY <2>2, <2>3
<1>12. ASSUME NEW a \in {0, 17}
       PROVE  InstructionAt(a).am = am_inherent /\ InstructionAt(a).opcode = noop
  <2>1. PICK i \in {1, 10} : a = StartUpPlaces[i]
    BY <1>1
  <2> QED BY <2>1, <1>3
<1>13. 18 <= PcSize
  BY <1>3
<1>14. ASSUME NEW a \in StartUpStarts PROVE Behaves(a)
  <2>1. \/ a \in {1, 5, 9, 13} \/ a \in {3, 7, 11, 15} \/ a \in {0, 17}
        \/ a \in 18 .. PcSize - 1
    BY DEF StartUpStarts
  <2>2. CASE a \in {1, 5, 9, 13}
    BY <1>10, <2>2 DEF Behaves
  <2>3. CASE a \in {3, 7, 11, 15}
    BY <1>11, <2>3 DEF Behaves
  <2>4. CASE a \in {0, 17}
    BY <1>12, <2>4 DEF Behaves
  <2>5. CASE a \in 18 .. PcSize - 1
    <3>0. a \in Int /\ a >= 18
      BY <2>5
    <3>1. a \notin {0, 1, 3, 5, 7, 9, 11, 13, 15, 17}
      BY ONLY <3>0
    <3> QED BY <1>9, <2>5, <3>1 DEF Behaves
  <2> QED BY <2>1, <2>2, <2>3, <2>4, <2>5
<1> QED BY <1>13, <1>14

(* Edges since the instruction began. *)
Edges ==
  IF cu.state = "T0" THEN IF cu.next_state = "T0" THEN 14 ELSE 0
  ELSE IF cu.state = "T1" /\ cu.next_state = "T1"
  THEN IF fetch.fetched THEN 8
       ELSE IF fetch.state = "IDLE" THEN IF fetch.next_state = "IDLE" THEN 1 ELSE 2
       ELSE IF fetch.state = "FETCH_1" THEN IF fetch.next_state = "FETCH_1" THEN 3 ELSE 4
       ELSE IF fetch.state = "FETCH_2" THEN IF fetch.next_state = "FETCH_2" THEN 5 ELSE 6
       ELSE 7
  ELSE IF cu.state = "T1" THEN 9
  ELSE IF cu.state = "T2" THEN IF cu.next_state = "T2" THEN 10 ELSE 11
  ELSE IF cu.next_state = "T3" THEN 12 ELSE 13

EdgesAre ==
  /\ Unit("T0", "T1") => Edges = 0
  /\ Unit("T1", "T1") /\ fetch.fetched = FALSE =>
       /\ Fetching("IDLE", "IDLE") => Edges = 1
       /\ Fetching("IDLE", "FETCH_1") => Edges = 2
       /\ Fetching("FETCH_1", "FETCH_1") => Edges = 3
       /\ Fetching("FETCH_1", "FETCH_2") => Edges = 4
       /\ Fetching("FETCH_2", "FETCH_2") => Edges = 5
       /\ Fetching("FETCH_2", "FETCH_3") => Edges = 6
       /\ Fetching("FETCH_3", "FETCH_3") => Edges = 7
  /\ Unit("T1", "T1") /\ fetch.fetched = TRUE => Edges = 8
  /\ Unit("T1", "T2") => Edges = 9
  /\ Unit("T2", "T2") => Edges = 10
  /\ Unit("T2", "T3") => Edges = 11
  /\ Unit("T3", "T3") => Edges = 12
  /\ Unit("T3", "T0") => Edges = 13
  /\ Unit("T0", "T0") => Edges = 14

LEMMA EdgesCounted == EdgesAre /\ EdgesAre'
BY DEF EdgesAre, Edges, Unit, Fetching

(* The longest instruction takes fifteen edges: each of its edges but the  *)
(* last leads to a later one.                                              *)
LEMMA EdgesPass ==
  ASSUME ReCOPInv, Step, UNCHANGED prog, Sends, ~ Unit("T0", "T0")
  PROVE  /\ Edges \in 0 .. 13 /\ Edges' \in Edges + 1 .. 14
         /\ pc'.out = pc.out \/ Ending
         /\ Unit("T0", "T0")' => Ending
         /\ Ending => Unit("T0", "T0")'
<1>1. WidthsOK /\ ControlOK /\ FetchOK /\ FetchNext
      /\ (Fresh \/ Asked \/ Answered \/ Executing \/ Ending)
  BY DEF ReCOPInv, WidthsOK, Phase, Ended, Step
<1>0. EdgesAre /\ EdgesAre'
  BY EdgesCounted
<1>2. CASE Fresh
  <2>1. Asked' /\ cu.pc_write = FALSE
    BY <1>1, <1>2, FreshStep DEF Fresh, NothingWritten
  <2>2. Edges = 0 /\ Edges' \in 1 .. 7
    BY <1>2, <2>1, <1>0 DEF Fresh, Asked, EdgesAre
  <2>3. pc'.out = pc.out
    BY <1>1, <2>1, WhatStays
  <2>4. ~ Ending /\ ~ Unit("T0", "T0")'
    BY <1>2, <2>1 DEF Fresh, Asked, Ending, Unit
  <2> QED BY <2>2, <2>3, <2>4
<1>3. CASE Asked
  <2>1. (Asked \/ Answered)' /\ cu.pc_write = FALSE /\ Unit("T1", "T1") /\ fetch.fetched = FALSE
    BY <1>1, <1>3, AskedStep DEF Asked, NothingWritten
  <2>2. Unit("T1", "T1")' /\ pc'.out = pc.out
    BY <1>1, <2>1, WhatStays DEF Asked, Answered
  <2>3. Answered' => Edges' = 8
    BY <1>0 DEF Answered, EdgesAre
  <2>4. Edges \in 1 .. 7
    BY <1>3, <1>0 DEF Asked, EdgesAre
  <2>5. CASE Answered'
    BY <2>1, <2>2, <2>3, <2>4, <2>5 DEF Ending, Unit
  <2>6. CASE Asked'
    <3>1. fetch'.fetched = FALSE
      BY <2>6 DEF Asked
    <3>2. Edges' \in Edges + 1 .. 7
      <4>1. CASE Fetching("IDLE", "IDLE") /\ cu.ir_fetch_start = TRUE
        <5>1. Fetching("IDLE", "FETCH_1")'
          BY <1>1, <4>1, FetchDoes DEF Fetching
        <5> QED BY <2>1, <2>2, <3>1, <4>1, <5>1, <1>0 DEF EdgesAre
      <4>2. CASE Fetching("IDLE", "FETCH_1")
        <5>1. fetch'.state = "FETCH_1"
          BY <1>1, <4>2, FetchDoes DEF Fetching
        <5>2. Edges' \in {3, 4}
          BY <2>6, <5>1, <1>0 DEF Asked, Fetching, EdgesAre
        <5> QED BY <2>1, <4>2, <5>2, <1>0 DEF EdgesAre
      <4>3. CASE Fetching("FETCH_1", "FETCH_1")
        <5>1. Fetching("FETCH_1", "FETCH_2")'
          BY <1>1, <4>3, FetchDoes DEF Fetching
        <5> QED BY <2>1, <2>2, <3>1, <4>3, <5>1, <1>0 DEF EdgesAre
      <4>4. CASE Fetching("FETCH_1", "FETCH_2")
        <5>1. Fetching("FETCH_2", "FETCH_2")'
          BY <1>1, <4>4, FetchDoes DEF Fetching
        <5> QED BY <2>1, <2>2, <3>1, <4>4, <5>1, <1>0 DEF EdgesAre
      <4>5. CASE Fetching("FETCH_2", "FETCH_2")
        <5>1. fetch'.state = "FETCH_2" /\ fetch'.next_state \in {"FETCH_3", "IDLE"}
          BY <1>1, <4>5, FetchDoes DEF Fetching
        <5>2. Fetching("FETCH_2", "FETCH_3")'
          BY <2>6, <5>1 DEF Asked, Fetching
        <5> QED BY <2>1, <2>2, <3>1, <4>5, <5>2, <1>0 DEF EdgesAre
      <4>6. CASE Fetching("FETCH_2", "FETCH_3")
        <5>1. fetch'.state = "FETCH_3"
          BY <1>1, <4>6, FetchDoes DEF Fetching
        <5>2. Fetching("FETCH_3", "FETCH_3")'
          BY <2>6, <5>1 DEF Asked, Fetching
        <5> QED BY <2>1, <2>2, <3>1, <4>6, <5>2, <1>0 DEF EdgesAre
      <4>7. CASE Fetching("FETCH_3", "FETCH_3")
        <5>1. fetch'.fetched = TRUE
          BY <1>1, <4>7, FetchDoes DEF Fetching
        <5> QED BY <3>1, <5>1
      <4> QED BY <1>3, <4>1, <4>2, <4>3, <4>4, <4>5, <4>6, <4>7 DEF Asked
    <3> QED BY <2>1, <2>2, <2>4, <3>2 DEF Ending, Unit
  <2> QED BY <2>1, <2>5, <2>6
<1>4. CASE Answered
  <2>1. Executing' /\ cu.pc_write = FALSE
    BY <1>1, <1>4, AnsweredStep DEF Answered, NothingWritten
  <2>2. Edges = 8 /\ Edges' \in 9 .. 12
    BY <1>4, <2>1, <1>0 DEF Answered, Executing, EdgesAre
  <2>3. pc'.out = pc.out
    BY <1>1, <2>1, WhatStays
  <2>4. ~ Ending /\ ~ Unit("T0", "T0")'
    BY <1>4, <2>1 DEF Answered, Executing, Ending, Unit
  <2> QED BY <2>2, <2>3, <2>4
<1>5. CASE Executing
  <2>1. pc'.out = pc.out
    BY <1>1, <1>5, WhatStays DEF Executing, NothingWritten
  <2>2. CASE Unit("T1", "T2")
    <3>1. Unit("T2", "T2")'
      BY <1>1, <2>2, ControlDoes, InT1 DEF Unit
    <3> QED BY <2>1, <2>2, <3>1, <1>0 DEF Unit, Ending, EdgesAre
  <2>3. CASE Unit("T2", "T2") \/ Unit("T2", "T3")
    <3>1. cu'.state = cu.next_state /\ cu'.next_state = "T3"
      BY <1>1, <2>3, ControlDoes, InT2 DEF Unit
    <3>2. /\ Unit("T2", "T2") => Unit("T2", "T3")' /\ Edges = 10 /\ Edges' = 11
          /\ Unit("T2", "T3") => Unit("T3", "T3")' /\ Edges = 11 /\ Edges' = 12
      BY <3>1, <1>0 DEF Unit, EdgesAre
    <3> QED BY <2>1, <2>3, <3>1, <3>2 DEF Unit, Ending
  <2>4. CASE Unit("T3", "T3")
    <3>1. Unit("T3", "T0")'
      BY <1>1, <2>4, ControlDoes, InT3 DEF Unit
    <3> QED BY <2>1, <2>4, <3>1, <1>0 DEF Unit, Ending, EdgesAre
  <2> QED BY <1>5, <2>2, <2>3, <2>4 DEF Executing
<1>6. CASE Ending
  <2>1. Unit("T0", "T0")'
    BY <1>1, <1>6, EndingStep DEF Ended
  <2> QED BY <1>6, <2>1, <1>0 DEF Ending, EdgesAre
<1> QED BY <1>1, <1>2, <1>3, <1>4, <1>5, <1>6

(* What the instructions of the start-up program do.                       *)
StartUpMoves(a) == (a + (IF a \in {1, 3, 5, 7, 9, 11, 13, 15} THEN 2 ELSE 1)) % PcSize

LEMMA StartUpMeaning ==
  ASSUME arch.pc \in StartUpStarts, Behaves(arch.pc)
  PROVE  /\ ISA!Known
         /\ ISA!Next_pc = StartUpMoves(arch.pc)
         /\ ISA!Execute =>
              /\ arch'.pc = StartUpMoves(arch.pc)
              /\ arch'.dpcr = IF arch.pc \in {3, 7, 11, 15}
                              THEN <<arch.regs[0], StartUpWord(arch.pc)>> ELSE arch.dpcr
              /\ arch.pc \in {1, 5, 9, 13} =>
                   arch'.regs = [arch.regs EXCEPT ![0] = StartUpWord(arch.pc)]
<1> DEFINE a == arch.pc
           i == InstructionAt(a)
<1>1. ISA!ir = i
  BY DEF ISA!ir, ISA!Decode, Decode, ISA!Fat, Fat, FirstOf, InstructionAt, Plus,
         ISA!am_immediate, am_immediate, ISA!am_direct, am_direct
<1>2. /\ a \in {1, 5, 9, 13} => i.am = am_immediate /\ i.opcode = ldr /\ i.rz = 0
      /\ a \in {3, 7, 11, 15} => i.am = am_immediate /\ i.opcode = datacall2 /\ i.rx = 0
      /\ a \in {1, 3, 5, 7, 9, 11, 13, 15} => i.operand = StartUpWord(a)
      /\ a \in {0, 17} => i.am = am_inherent /\ i.opcode = noop
      /\ a >= 18 => \/ i.am = am_register /\ i.opcode = seot
                    \/ i.am = am_inherent /\ i.opcode = ldr
  BY DEF Behaves
<1>3. \/ a \in {1, 5, 9, 13} \/ a \in {3, 7, 11, 15} \/ a \in {0, 17}
      \/ a \in Int /\ a >= 18
  BY DEF StartUpStarts
<1>4. \/ a \in {1, 5, 9, 13} /\ i.opcode = ldr /\ i.am = am_immediate /\ i.rz = 0
      \/ a \in {3, 7, 11, 15} /\ i.opcode = datacall2 /\ i.am = am_immediate /\ i.rx = 0
      \/ a \in {0, 17} /\ i.opcode = noop /\ i.am = am_inherent
      \/ a \in Int /\ a >= 18 /\ i.opcode = seot /\ i.am = am_register
      \/ a \in Int /\ a >= 18 /\ i.opcode = ldr /\ i.am = am_inherent
  BY <1>2, <1>3
<1>5. a \in {1, 3, 5, 7, 9, 11, 13, 15} => i.operand = StartUpWord(a)
  BY <1>2
<1> HIDE DEF i
<1>6. ISA!Known
  BY <1>1, <1>4, Numbers DEF ISA!Known, ldr, str, jmp, datacall2, noop, seot,
     am_inherent, am_immediate, am_register
<1>7. ISA!Next_pc = StartUpMoves(a)
  <2>1. i.opcode \notin {jmp, present, sz}
    BY <1>4 DEF ldr, datacall2, noop, seot, jmp, present, sz
  <2>2. Fat(i.am) <=> a \in {1, 3, 5, 7, 9, 11, 13, 15}
    BY <1>4 DEF Fat, am_immediate, am_direct, am_inherent, am_register
  <2> QED BY <1>1, <2>1, <2>2, Numbers DEF ISA!Next_pc, StartUpMoves
<1>8. ASSUME ISA!Execute
      PROVE  /\ arch'.pc = ISA!Next_pc
             /\ \E v \in ISA!Loadable : arch'.regs = ISA!Registers(v)
             /\ arch'.dpcr = IF i.opcode = datacall THEN <<ISA!rx, arch.regs[7]>>
                             ELSE IF i.opcode = datacall2 THEN <<ISA!rx, i.operand>>
                             ELSE arch.dpcr
  BY <1>1, <1>8, Numbers DEF ISA!Execute
<1>9. ASSUME ISA!Execute
      PROVE  arch'.dpcr = IF a \in {3, 7, 11, 15}
                          THEN <<arch.regs[0], StartUpWord(a)>> ELSE arch.dpcr
  <2>1. CASE a \in {3, 7, 11, 15}
    <3>1. i.opcode = datacall2 /\ i.rx = 0 /\ datacall2 # datacall
      BY <1>4, <2>1 DEF datacall, datacall2
    <3>2. ISA!rx = arch.regs[0] /\ i.operand = StartUpWord(a)
      BY <1>1, <1>5, <2>1, <3>1 DEF ISA!rx
    <3> QED BY <1>8, <1>9, <2>1, <3>1, <3>2
  <2>2. CASE a \notin {3, 7, 11, 15}
    <3>1. i.opcode \notin {datacall, datacall2}
      BY <1>4, <2>2 DEF ldr, noop, seot, datacall, datacall2
    <3> QED BY <1>8, <1>9, <2>2, <3>1
  <2> QED BY <2>1, <2>2
<1>10. ASSUME ISA!Execute, a \in {1, 5, 9, 13}
       PROVE  arch'.regs = [arch.regs EXCEPT ![0] = StartUpWord(a)]
  <2>1. i.opcode = ldr /\ i.am = am_immediate /\ i.rz = 0 /\ i.operand = StartUpWord(a)
    BY <1>4, <1>5, <1>10
  <2>2. ~ ISA!Calculates
    BY <1>1, <2>1, Numbers DEF ISA!Calculates, ldr, andr, orr, addr, subr, subvr
  <2>3. ISA!Loadable = {StartUpWord(a)}
    BY <1>1, <2>1, Numbers DEF ISA!Loadable
  <2> QED BY <1>1, <1>8, <1>10, <2>1, <2>2, <2>3, Numbers DEF ISA!Registers
<1> QED BY <1>6, <1>7, <1>8, <1>9, <1>10

LEMMA StartUpPath ==
  ASSUME 18 <= PcSize, NEW a \in StartUpStarts
  PROVE  /\ a \in Nat
         /\ StartUpMoves(a) = CASE a = 0 -> 1
                                [] a \in {1, 3, 5, 7, 9, 11, 13, 15} -> a + 2
                                [] OTHER -> IF a + 1 = PcSize THEN 0 ELSE a + 1
         /\ StartUpMoves(a) \in StartUpStarts
         /\ a >= 17 => StartUpMoves(a) = 0 \/ StartUpMoves(a) >= 18
<1>0. PcSize \in Nat \ {0} /\ PcSize % PcSize = 0
  <2>1. PICK size \in Nat \ {0} : size = PcSize
    BY Sizes
  <2>2. size % size = 0
    BY ONLY size \in Nat \ {0}
  <2> QED BY <2>1, <2>2
<1>1. ASSUME NEW n \in Nat, n < PcSize PROVE n % PcSize = n
  BY ONLY <1>0, <1>1
<1>2. PcSize \in Nat /\ \A n \in 0 .. 17 : n % PcSize = n
  BY <1>0, <1>1
<1>3. \A n \in 0 .. PcSize - 1 : n % PcSize = n
  BY <1>0, <1>1
<1>4. CASE a \in {0, 1, 3, 5, 7, 9, 11, 13, 15}
  BY <1>2, <1>4 DEF StartUpMoves, StartUpStarts
<1>5. CASE a = 17 \/ a \in 18 .. PcSize - 1
  <2>1. a \in Int /\ a >= 17 /\ a <= PcSize - 1
    BY <1>0, <1>5
  <2>2. StartUpMoves(a) = (a + 1) % PcSize
    BY <2>1 DEF StartUpMoves
  <2>3. CASE a + 1 = PcSize
    BY <1>0, <2>1, <2>2, <2>3 DEF StartUpStarts
  <2>4. CASE a + 1 # PcSize
    <3>1. a + 1 \in 18 .. PcSize - 1
      BY <1>0, <2>1, <2>4
    <3>2. StartUpMoves(a) = a + 1
      BY <1>3, <2>2, <3>1
    <3> QED BY <2>1, <2>4, <3>1, <3>2 DEF StartUpStarts
  <2> QED BY <2>3, <2>4
<1> QED BY <1>4, <1>5 DEF StartUpStarts

(* The calls that the program leaves in DPCR; the last one is no call. *)
StartUpCalls == {<<37120, 4>>, <<37504, 36>>, <<41728, 2>>, <<0, 0>>}

LEMMA StartUpCallsAre ==
  /\ \A a \in {3, 7, 11, 15} : <<StartUpWord(a - 2), StartUpWord(a)>> \in StartUpCalls
  /\ Empty(<<0, 0>>) /\ <<StartUpWord(13), StartUpWord(15)>> = <<0, 0>>
  /\ \A c \in StartUpCalls : Empty(c) \/ Configures(Packet(c))
<1>1. ASSUME NEW a \in {3, 7, 11, 15}
      PROVE  <<StartUpWord(a - 2), StartUpWord(a)>> \in StartUpCalls
  <2>1. a = 3 \/ a = 7 \/ a = 11 \/ a = 15
    OBVIOUS
  <2>2. /\ StartUpWord(1) = 37120 /\ StartUpWord(3) = 4 /\ StartUpWord(5) = 37504
        /\ StartUpWord(7) = 36 /\ StartUpWord(9) = 41728 /\ StartUpWord(11) = 2
        /\ StartUpWord(13) = 0 /\ StartUpWord(15) = 0
    BY DEF StartUpWord
  <2>3. 3 - 2 = 1 /\ 7 - 2 = 5 /\ 11 - 2 = 9 /\ 15 - 2 = 13
    OBVIOUS
  <2> QED BY <2>1, <2>2, <2>3 DEF StartUpCalls
<1>2. 2^12 = 4096
  OBVIOUS
<1>3. Empty(<<0, 0>>)
  <2>1. 0 \div 4096 = 0
    OBVIOUS
  <2> QED BY <1>2, <2>1 DEF Empty
<1>4. <<StartUpWord(13), StartUpWord(15)>> = <<0, 0>>
  BY DEF StartUpWord
<1>5. ASSUME NEW c \in StartUpCalls PROVE Empty(c) \/ Configures(Packet(c))
  <2>1. /\ Packet(c).addr = (c[1] \div 256) % 16 /\ Packet(c).type = c[1] \div 4096
        /\ Packet(c).high = c[1] % 256
    BY <1>2 DEF Packet
  <2>2. CASE c = <<37120, 4>>
    <3>1. (37120 \div 256) % 16 = 1 /\ 37120 \div 4096 = 9 /\ 37120 % 256 = 0
      OBVIOUS
    <3> QED BY <2>1, <2>2, <3>1 DEF Configures
  <2>3. CASE c = <<37504, 36>>
    <3>1. (37504 \div 256) % 16 = 2 /\ 37504 \div 4096 = 9 /\ 37504 % 256 = 128
      OBVIOUS
    <3> QED BY <2>1, <2>3, <3>1 DEF Configures
  <2>4. CASE c = <<41728, 2>>
    <3>1. (41728 \div 256) % 16 = 3 /\ 41728 \div 4096 = 10
      OBVIOUS
    <3> QED BY <2>1, <2>4, <3>1 DEF Configures
  <2> QED BY <1>3, <2>2, <2>3, <2>4 DEF StartUpCalls
<1> QED BY <1>1, <1>3, <1>4, <1>5

(* Between two instructions of the start-up program, and what it has sent  *)
(* by then: nothing until the first call is in DPCR, at most one word at   *)
(* each edge until the call of zeros empties it, and nothing afterwards.   *)
StartUpAt ==
  /\ arch.pc \in StartUpStarts
  /\ arch.pc \in {3, 7, 11, 15} => arch.regs[0] = StartUpWord(arch.pc - 2)
  /\ arch.dpcr \in StartUpCalls
  /\ arch.pc \notin 5 .. 15 => Empty(arch.dpcr)

StartUpSent ==
  /\ copies \in Nat
  /\ arch.pc < 5 => copies = 0
  /\ arch.pc \in 5 .. 15 => copies <= 8 * (arch.pc - 5) + 1 + Edges
  /\ arch.pc > 15 => copies <= 97
  /\ reset => copies = 0
  /\ Unit("T0", "T0") /\ pc.out = 0 => copies = 0

LEMMA StartUpExecuted ==
  ASSUME 18 <= PcSize, StartUpAt, Behaves(arch.pc), ISA!Execute, DOMAIN arch'.regs = 0 .. 15
  PROVE  /\ StartUpAt'
         /\ arch'.pc = StartUpMoves(arch.pc)
         /\ arch.pc \in {0, 1, 15} \/ arch.pc >= 17 => Empty(arch'.dpcr)
<1>1. /\ arch.pc \in StartUpStarts /\ arch'.pc = StartUpMoves(arch.pc)
      /\ arch'.dpcr = IF arch.pc \in {3, 7, 11, 15}
                      THEN <<StartUpWord(arch.pc - 2), StartUpWord(arch.pc)>> ELSE arch.dpcr
      /\ arch.pc \in {1, 5, 9, 13} =>
           arch'.regs = [arch.regs EXCEPT ![0] = StartUpWord(arch.pc)]
  BY StartUpMeaning DEF StartUpAt
<1>2. /\ arch.pc \in Nat /\ arch'.pc \in StartUpStarts
      /\ arch'.pc = CASE arch.pc = 0 -> 1
                      [] arch.pc \in {1, 3, 5, 7, 9, 11, 13, 15} -> arch.pc + 2
                      [] OTHER -> IF arch.pc + 1 = PcSize THEN 0 ELSE arch.pc + 1
      /\ arch.pc >= 17 => arch'.pc = 0 \/ arch'.pc >= 18
  BY <1>1, StartUpPath
<1>3. \/ arch.pc \in {0, 1, 3, 5, 7, 9, 11, 13, 15} \/ arch.pc >= 17
  BY DEF StartUpAt, StartUpStarts
<1>4. arch.pc \in {0, 1} \/ arch.pc >= 17 => Empty(arch'.dpcr)
  <2> SUFFICES ASSUME arch.pc \in {0, 1} \/ arch.pc >= 17 PROVE Empty(arch'.dpcr)
    OBVIOUS
  <2>1. arch.pc \notin 5 .. 15 /\ arch.pc \notin {3, 7, 11, 15}
    BY <1>2
  <2> QED BY <1>1, <2>1 DEF StartUpAt
<1>5. arch.pc = 15 => Empty(arch'.dpcr)
  <2> SUFFICES ASSUME arch.pc = 15 PROVE Empty(arch'.dpcr)
    OBVIOUS
  <2>1. arch'.dpcr = <<StartUpWord(13), StartUpWord(15)>>
    BY <1>1
  <2> QED BY <2>1, StartUpCallsAre
<1>6. arch'.pc \in {3, 7, 11, 15} => arch'.regs[0] = StartUpWord(arch'.pc - 2)
  <2> SUFFICES ASSUME arch'.pc \in {3, 7, 11, 15}
               PROVE  arch'.regs[0] = StartUpWord(arch'.pc - 2)
    OBVIOUS
  <2>1. arch.pc \in {1, 5, 9, 13} /\ arch.pc = arch'.pc - 2
    BY <1>2, <1>3
  <2>2. arch'.regs = [arch.regs EXCEPT ![0] = StartUpWord(arch.pc)]
    BY <1>1, <2>1
  <2>3. 0 \in DOMAIN arch.regs
    BY <2>2
  <2> QED BY <2>1, <2>2, <2>3
<1>8. arch'.dpcr \in StartUpCalls
  <2>1. CASE arch.pc \in {3, 7, 11, 15}
    BY <1>1, <2>1, StartUpCallsAre
  <2>2. CASE arch.pc \notin {3, 7, 11, 15}
    BY <1>1, <2>2 DEF StartUpAt
  <2> QED BY <2>1, <2>2
<1>7. arch'.pc \notin 5 .. 15 => Empty(arch'.dpcr)
  <2> SUFFICES ASSUME arch'.pc \notin 5 .. 15 PROVE Empty(arch'.dpcr)
    OBVIOUS
  <2>1. arch.pc \in {0, 1, 15} \/ arch.pc >= 17
    BY <1>2, <1>3
  <2> QED BY <1>4, <1>5, <2>1
<1> QED BY <1>1, <1>2, <1>4, <1>5, <1>6, <1>7, <1>8 DEF StartUpAt

(* Until an instruction is written, the machine shows what the programmer  *)
(* sees.                                                                   *)
LEMMA SameUntilWritten ==
  ASSUME ReCOPInv, Seen, ISA!Known, ~ Unit("T0", "T0")
  PROVE  Same
BY DEF ReCOPInv, Seen, Phase, Fresh, Asked, Answered, Executing, Ending, Ended, Unit,
       Idling, Begun, EndingSeen

LEMMA StartUpGoesOn ==
  ASSUME ReCOPInv, Seen, 18 <= PcSize, StartUpAt, Behaves(arch.pc), StartUpSent,
         NEW pressed, NEW sw, Running(pressed, sw), Observe, ~ Unit("T0", "T0")
  PROVE  (StartUpAt /\ StartUpSent)'
<1>1. /\ Step /\ UNCHANGED prog /\ Sends /\ ~ reset' /\ ~ reset
      /\ arch' = IF cu.state = "T0" THEN Visible' ELSE arch
      /\ copies' = IF pc.out # 0 /\ pc'.out = 0 THEN 0
                   ELSE IF Empty(dpcr) THEN copies ELSE copies + 1
  BY RunningSends DEF Running, Observe
<1>2. arch' = arch
  <2>1. CASE cu.state = "T0"
    <3>1. Unit("T0", "T1")
      BY <2>1 DEF ReCOPInv, Phase, Fresh, Asked, Answered, Executing, Ending, Ended, Unit
    <3> QED BY <1>1, <2>1, <3>1, FreshSeen
  <2> QED BY <1>1, <2>1
<1>3. Same
  BY StartUpMeaning, SameUntilWritten DEF StartUpAt
<1>4. Edges \in 0 .. 13 /\ Edges' \in Edges + 1 .. 14
  BY <1>1, EdgesPass
<1>5. StartUpAt'
  BY <1>2 DEF StartUpAt
<1>6. /\ arch.pc \in Nat /\ copies' \in Nat /\ copies \in Nat
      /\ copies' <= copies + 1
      /\ Empty(arch.dpcr) => copies' <= copies
      /\ pc.out # 0 /\ pc'.out = 0 => copies' = 0
  <2>1. arch.pc \in Nat
    BY StartUpPath DEF StartUpAt
  <2> QED BY <1>1, <1>3, <2>1 DEF Same, StartUpSent
<1>7. arch.pc \notin 5 .. 15 => copies' <= copies
  BY <1>6 DEF StartUpAt
<1>8. Unit("T0", "T0")' /\ pc'.out = 0 => copies' = 0
  <2>1. CASE pc.out = 0
    BY <1>3, <1>6, <1>7, <2>1 DEF Same, StartUpSent
  <2>2. CASE pc.out # 0
    BY <1>6, <2>2
  <2> QED BY <2>1, <2>2
<1>9. /\ arch'.pc < 5 => copies' = 0
      /\ arch'.pc \in 5 .. 15 => copies' <= 8 * (arch'.pc - 5) + 1 + Edges'
      /\ arch'.pc > 15 => copies' <= 97
  <2>1. CASE arch.pc < 5
    BY <1>2, <1>6, <1>7, <2>1 DEF StartUpSent
  <2>2. CASE arch.pc \in 5 .. 15
    BY <1>2, <1>4, <1>6, <2>2 DEF StartUpSent
  <2>3. CASE arch.pc > 15
    BY <1>2, <1>6, <1>7, <2>3 DEF StartUpSent
  <2> QED BY <1>6, <2>1, <2>2, <2>3
<1> QED BY <1>1, <1>5, <1>6, <1>8, <1>9 DEF StartUpSent

LEMMA StartUpGoesTo ==
  ASSUME ReCOPInv, ReCOPInv', Seen, 18 <= PcSize, StartUpAt, Behaves(arch.pc), StartUpSent,
         NEW pressed, NEW sw, Running(pressed, sw), Observe, Unit("T0", "T0")
  PROVE  (StartUpAt /\ StartUpSent)'
<1>1. /\ Step /\ UNCHANGED prog /\ Sends /\ ~ reset' /\ ~ reset
      /\ arch' = Visible'
      /\ copies' = IF pc.out # 0 /\ pc'.out = 0 THEN 0
                   ELSE IF Empty(dpcr) THEN copies ELSE copies + 1
  BY RunningSends DEF Running, Observe, Unit
<1>2. ISA!Known /\ ISA!Execute
  BY <1>1, StartUpMeaning, EndedIsExecuted DEF StartUpAt
<1>3. DOMAIN arch'.regs = 0 .. 15 /\ arch'.pc = pc'.out /\ arch'.dpcr = dpcr'
  <2>1. arch'.regs = regs' /\ arch'.pc = pc'.out /\ arch'.dpcr = dpcr'
    BY <1>1 DEF Visible
  <2> QED BY <2>1 DEF ReCOPInv, WidthsOK, PathOK
<1>4. /\ StartUpAt' /\ arch'.pc = StartUpMoves(arch.pc)
      /\ arch.pc \in {0, 1, 15} \/ arch.pc >= 17 => Empty(arch'.dpcr)
  BY <1>2, <1>3, StartUpExecuted
<1>5. dpcr' = dpcr /\ Unit("T0", "T1")'
  <2>1. Ended /\ WidthsOK
    BY DEF ReCOPInv, Phase, Fresh, Asked, Answered, Executing, Ending, Unit
  <2> QED BY <1>1, <2>1, EndedStep DEF Fresh
<1>6. pc'.out = pc.out
  <2>1. EndedSeen
    BY <1>2 DEF Seen
  <2> QED BY <1>1, <2>1, PathDoes DEF EndedSeen
<1>7. /\ arch.pc \in Nat
      /\ arch'.pc = CASE arch.pc = 0 -> 1
                      [] arch.pc \in {1, 3, 5, 7, 9, 11, 13, 15} -> arch.pc + 2
                      [] OTHER -> IF arch.pc + 1 = PcSize THEN 0 ELSE arch.pc + 1
      /\ arch.pc >= 17 => arch'.pc = 0 \/ arch'.pc >= 18
  BY <1>4, StartUpPath DEF StartUpAt
<1>8. /\ copies' \in Nat /\ copies \in Nat /\ copies' <= copies + 1
      /\ arch.pc \in {0, 1, 15} \/ arch.pc >= 17 => copies' = copies
  <2>1. copies' = IF Empty(dpcr) THEN copies ELSE copies + 1
    BY <1>1, <1>6
  <2>2. Empty(arch'.dpcr) <=> Empty(dpcr)
    BY <1>3, <1>5
  <2>3. copies \in Nat
    BY DEF StartUpSent
  <2> QED BY <1>4, <2>1, <2>2, <2>3
<1>9. Edges = 14 /\ Edges' = 0
  BY <1>5, EdgesCounted DEF EdgesAre
<1>10. /\ arch'.pc < 5 => copies' = 0
       /\ arch'.pc \in 5 .. 15 => copies' <= 8 * (arch'.pc - 5) + 1 + Edges'
       /\ arch'.pc > 15 => copies' <= 97
  <2>1. CASE arch.pc \in {0, 1}
    BY <1>7, <1>8, <2>1 DEF StartUpSent
  <2>2. CASE arch.pc = 3
    BY <1>7, <1>8, <1>9, <2>2 DEF StartUpSent
  <2>3. CASE arch.pc \in {5, 7, 9, 11, 13}
    BY <1>7, <1>8, <1>9, <2>3 DEF StartUpSent
  <2>4. CASE arch.pc = 15
    BY <1>7, <1>8, <1>9, <2>4 DEF StartUpSent
  <2>5. CASE arch.pc >= 17
    <3>1. arch'.pc = 0 => copies = 0
      BY <1>3, <1>6 DEF StartUpSent
    <3>2. copies' = copies /\ copies <= 97
      BY <1>7, <1>8, <2>5 DEF StartUpSent
    <3> QED BY <1>7, <1>8, <2>5, <3>1, <3>2
  <2> QED BY <2>1, <2>2, <2>3, <2>4, <2>5 DEF StartUpAt, StartUpStarts
<1>11. ~ Unit("T0", "T0")'
  BY <1>5 DEF Unit
<1> QED BY <1>1, <1>4, <1>8, <1>10, <1>11 DEF StartUpSent

(* A reset starts the program anew, and drops what is in DPCR.             *)
LEMMA StartUpAgain ==
  ASSUME ReCOPInv, 18 <= PcSize, StartUpSent, NEW pressed, NEW sw, Resetting(pressed, sw),
         Observe
  PROVE  (StartUpAt /\ StartUpSent)'
<1>1. /\ Reset /\ (reset' \/ reset) /\ arch' = Visible'
      /\ copies' = IF reset' \/ (pc.out # 0 /\ pc'.out = 0) THEN 0
                   ELSE IF Empty(dpcr) THEN copies ELSE copies + 1
  BY DEF Resetting, Observe
<1>2. /\ pc'.out = 0 /\ dpcr' = <<0, 0>> /\ cu' = ControlReset
  BY <1>1 DEF Reset
<1>3. arch'.pc = 0 /\ arch'.dpcr = <<0, 0>>
  BY <1>1, <1>2 DEF Visible
<1>4. Empty(<<0, 0>>)
  BY StartUpCallsAre
<1>5. copies' = 0
  BY <1>1, <1>4 DEF ReCOPInv, StartUpSent
<1>6. StartUpAt'
  BY <1>3, <1>4 DEF StartUpAt, StartUpStarts, StartUpCalls
<1> QED BY <1>3, <1>5, <1>6 DEF StartUpSent

LEMMA StartUpInit == RInit => StartUpAt /\ StartUpSent
<1> SUFFICES ASSUME NEW s \in Sources, StartOf(s) PROVE StartUpAt /\ StartUpSent
  BY DEF RInit
<1>1. arch.pc = 0 /\ arch.dpcr = <<0, 0>> /\ copies = 0
  BY DEF StartOf, Init, Visible
<1>2. Empty(<<0, 0>>)
  BY StartUpCallsAre
<1> QED BY <1>1, <1>2 DEF StartUpAt, StartUpStarts, StartUpCalls, StartUpSent

(* What is on the send port while the start-up program runs.               *)
StartUpPort == sendSignal = Silent \/ Configures(sendSignal)

LEMMA KeysConfigure ==
  ASSUME NEW pressed, NEW sw
  PROVE  KeyPacket(pressed, sw) = Silent \/ Configures(KeyPacket(pressed, sw))
BY DEF KeyPacket, Configures

LEMMA StartUpSends ==
  ASSUME ReCOPInv, ReCOPInv', Seen, 18 <= PcSize, StartUpAt, Behaves(arch.pc), StartUpPort,
         StartUpAt', NEW pressed, NEW sw, Clock(pressed, sw), Observe
  PROVE  StartUpPort'
<1>1. CASE UNCHANGED sendSignal \/ sendSignal' = Silent
  BY <1>1 DEF StartUpPort
<1>2. CASE sendSignal' # sendSignal /\ sendSignal' # Silent
  <2>0. sendSignal' = Send(pressed, sw)
    BY <1>2 DEF Clock, Running, Resetting, Supervise
  <2>1. Empty(dpcr) \/ dpcr \in StartUpCalls
    <3>1. CASE Resetting(pressed, sw)
      <4>1. reset
        BY <1>2, <3>1 DEF Resetting, Supervise
      <4> QED BY <4>1, StartUpCallsAre DEF ReCOPInv
    <3>2. CASE Running(pressed, sw) /\ ~ Unit("T0", "T0")
      <4>1. Same
        BY <3>2, StartUpMeaning, SameUntilWritten DEF StartUpAt
      <4> QED BY <4>1 DEF Same, StartUpAt
    <3>3. CASE Running(pressed, sw) /\ Unit("T0", "T0")
      <4>1. Step /\ UNCHANGED prog /\ Sends /\ arch' = Visible'
        BY <3>3, RunningSends DEF Running, Observe, Unit
      <4>2. Ended /\ WidthsOK
        BY <3>3 DEF ReCOPInv, Phase, Fresh, Asked, Answered, Executing, Ending, Unit
      <4>3. dpcr' = dpcr /\ arch'.dpcr = dpcr'
        BY <4>1, <4>2, EndedStep DEF Visible
      <4> QED BY <4>3 DEF StartUpAt
    <3> QED BY <3>1, <3>2, <3>3 DEF Clock
  <2>2. CASE Empty(dpcr)
    BY <2>0, <2>2, KeysConfigure DEF Send, StartUpPort
  <2>3. CASE ~ Empty(dpcr)
    BY <2>0, <2>1, <2>3, StartUpCallsAre DEF Send, StartUpPort
  <2> QED BY <2>2, <2>3
<1> QED BY <1>1, <1>2

StartUpInv == source = AsmInit => StartUpAt /\ StartUpSent /\ StartUpPort

LEMMA StartUpInvariant ==
  Len(assemble(AsmInit)) <= PcSize => (RSpec => []StartUpInv)
<1> SUFFICES ASSUME Len(assemble(AsmInit)) <= PcSize PROVE RSpec => []StartUpInv
  OBVIOUS
<1>1. RInit => SourceInv /\ Seen /\ StartUpInv
  <2>1. RInit => SourceInv /\ sendSignal = Silent
    BY DEF RInit, StartOf, Init, SourceInv
  <2> QED BY <2>1, SeenInit, StartUpInit DEF StartUpInv, StartUpPort
<1>2. ReCOPInv /\ SourceInv /\ Seen /\ StartUpInv /\ [Next]_allVars
        => ReCOPInv' /\ SourceInv' /\ Seen' /\ StartUpInv'
  <2> SUFFICES ASSUME ReCOPInv, SourceInv, Seen, StartUpInv, [Next]_allVars
               PROVE  ReCOPInv' /\ SourceInv' /\ Seen' /\ StartUpInv'
    OBVIOUS
  <2>1. source' = source /\ SourceInv'
    <3>1. source' = source /\ prog' = prog
      BY DEF Next, Observe, Clock, Running, Resetting, allVars, vars
    <3> QED BY <3>1 DEF SourceInv
  <2>2. ReCOPInv' /\ Seen'
    BY InvStep, SeenStep
  <2>3. ASSUME source = AsmInit PROVE (StartUpAt /\ StartUpSent /\ StartUpPort)'
    <3>1. StartUpAt /\ StartUpSent /\ StartUpPort /\ 18 <= PcSize /\ Behaves(arch.pc)
      BY <2>3, StartUpMemory DEF StartUpInv, StartUpAt
    <3>2. CASE UNCHANGED allVars
      BY <3>1, <3>2 DEF allVars, vars, path, top, StartUpAt, StartUpSent, StartUpPort, Edges,
                        Unit, Empty
    <3>3. ASSUME NEW pressed, NEW sw, Clock(pressed, sw), Observe
          PROVE  (StartUpAt /\ StartUpSent /\ StartUpPort)'
      <4>1. (StartUpAt /\ StartUpSent)'
        BY <2>2, <3>1, <3>3, StartUpGoesOn, StartUpGoesTo, StartUpAgain DEF Clock
      <4> QED BY <2>2, <3>1, <3>3, <4>1, StartUpSends
    <3> QED BY <3>2, <3>3 DEF Next
  <2> QED BY <2>1, <2>2, <2>3 DEF StartUpInv
<1> QED BY <1>1, <1>2, InitInv, PTL DEF RSpec

(* From its beginning to its end, the start-up program sends no more than  *)
(* 97 words, with keys and resets at any edge: the three calls that it     *)
(* leaves in DPCR are there for six instructions, none of which takes more *)
(* than fifteen edges, and the call of zeros takes the last of them away.  *)
(* The queue of ReCOP's interface holds them all (StartUpFits), if the     *)
(* program fits the memory.                                                *)
THEOREM StartUpFitsQueue ==
  Len(assemble(AsmInit)) <= PcSize => (RSpec => []StartUpFits)
<1>1. StartUpInv => StartUpFits
  <2> SUFFICES ASSUME StartUpAt, StartUpSent PROVE copies <= 256
    BY DEF StartUpInv, StartUpFits, Fits
  <2>1. arch.pc \in StartUpStarts /\ copies \in Nat
    BY DEF StartUpAt, StartUpSent
  <2>2. Edges \in 0 .. 14
    BY DEF Edges
  <2>3. arch.pc \in {0, 1, 3} \/ arch.pc \in 5 .. 15 \/ arch.pc > 15
    BY <2>1 DEF StartUpStarts
  <2>4. CASE arch.pc \in {0, 1, 3}
    BY <2>4 DEF StartUpSent
  <2>5. CASE arch.pc \in 5 .. 15
    <3>1. PICK a \in 5 .. 15 : a = arch.pc
      BY <2>5
    <3>2. copies <= 8 * (a - 5) + 1 + Edges
      BY <2>5, <3>1 DEF StartUpSent
    <3>3. PICK c \in Nat, e \in 0 .. 14 : c = copies /\ e = Edges
      BY <2>1, <2>2
    <3>4. c <= 256
      <4>1. c <= 8 * (a - 5) + 1 + e
        BY <3>2, <3>3
      <4> QED BY ONLY <4>1
    <3> QED BY <3>3, <3>4
  <2>6. CASE arch.pc > 15
    BY <2>1, <2>6 DEF StartUpSent
  <2> QED BY <2>3, <2>4, <2>5, <2>6
<1>2. (RSpec => []StartUpInv) => (RSpec => []StartUpFits)
  BY <1>1, PTL
<1> QED BY <1>2, StartUpInvariant

(* While ReCOP runs the start-up program, with any keys pressed and resets *)
(* at any edge, the sampling, the averaging and the correlation ASP are    *)
(* sent configurations of their own and nothing else is sent               *)
(* (OnlyConfigures), if the program fits the memory: what the proofs about *)
(* the signal path assume of ReCOP.                                        *)
THEOREM StartUpConfigures ==
  Len(assemble(AsmInit)) <= PcSize => (RSpec => []OnlyConfigures)
<1>1. StartUpInv => OnlyConfigures
  BY DEF StartUpInv, StartUpPort, OnlyConfigures
<1>2. (RSpec => []StartUpInv) => (RSpec => []OnlyConfigures)
  BY <1>1, PTL
<1> QED BY <1>2, StartUpInvariant
=============================================================================
