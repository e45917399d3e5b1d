---------------------------- MODULE TdmaMinTypes ----------------------------
(***************************************************************************)
(* The arithmetic of the TDMA-MIN generics: how many stages a number of    *)
(* ports needs, and a number as the bit vector the hardware uses.          *)
(***************************************************************************)
EXTENDS Naturals

(* The while loop of log2Ceil, as a function of its counter i. *)
Log2Ceil(x) ==
  LET loop[i \in 0 .. 31] == IF 2^i < x /\ i < 31 THEN loop[i + 1] ELSE i
  IN  loop[0]

(* to_unsigned(n, size): bit k of n. *)
ToUnsigned(n, size) == [k \in 0 .. size - 1 |-> (n \div 2^k) % 2 = 1]
=============================================================================
