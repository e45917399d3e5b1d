------------------------- MODULE ReCOPInstructions -------------------------
(***************************************************************************)
(* The instruction words of ReCOP, |AM(2)|OP(6)|Rz(4)|Rx(4)|, with the     *)
(* numbers of opcodes.vhd. A word whose addressing mode is immediate or    *)
(* direct has a second word behind it.                                     *)
(***************************************************************************)
EXTENDS Integers, Functions

am_inherent  == 0
am_immediate == 1
am_direct    == 2
am_register  == 3

ldr          == 0
str          == 2
jmp          == 24
present      == 28
andr         == 8
orr          == 12
addr         == 56
subr         == 4
subvr        == 3
clfz         == 16
cer          == 60
ceot         == 62
seot         == 63
noop         == 52
sz           == 20
ler          == 54
ssvop        == 59
ssop         == 58
lsip         == 55
datacall     == 40
datacall2    == 41
max          == 30
strpc        == 29
sres         == 42

Word == 0 .. 2^16 - 1

(* The bits that are set in a word, and the word of a set of bits. *)
Ones(word)   == {k \in 0 .. 15 : (word \div 2^k) % 2 = 1}
WordOf(bits) == SumFunctionOnSet([k \in 0 .. 15 |-> 2^k], bits)

And(a, b) == WordOf(Ones(a) \cap Ones(b))
Or(a, b)  == WordOf(Ones(a) \cup Ones(b))

Fat(am) == am \in {am_immediate, am_direct}

(* What the fields of the instruction register hold for two words. *)
Decode(word1, word2) ==
  [am |-> word1 \div 2^14, opcode |-> (word1 \div 256) % 64,
   rz |-> (word1 \div 16) % 16, rx |-> word1 % 16, operand |-> word2]
============================================================================
