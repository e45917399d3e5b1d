----------------------------- MODULE AlarmClock -----------------------------
(***************************************************************************)
(* What a program may expect of alarms: one that is started rings after as *)
(* many ticks as were asked for, and then again after as many as its       *)
(* callback returned, until it is stopped or the callback returns zero. No *)
(* tick passes over an alarm that is due. AltAlarms implements this.       *)
(***************************************************************************)
EXTENDS Integers

CONSTANTS
  Alarms,
  Delays,    \* What a program asks for.
  Periods    \* What a callback returns.

VARIABLE left   \* Of every alarm, the ticks until it rings, or Off.

Off == -1

Init == left = [a \in Alarms |-> Off]

(* The running tick does not count. *)
Start(a) ==
  left[a] = Off /\ \E n \in Delays : left' = [left EXCEPT ![a] = n + 1]

Stop(a) == left[a] # Off /\ left' = [left EXCEPT ![a] = Off]

Tick ==
  /\ \A a \in Alarms : left[a] # 0
  /\ left' = [a \in Alarms |-> IF left[a] = Off THEN Off ELSE left[a] - 1]

Ring(a) ==
  /\ left[a] = 0
  /\ \E n \in Periods : left' = [left EXCEPT ![a] = IF n = 0 THEN Off ELSE n]

Next == Tick \/ \E a \in Alarms : Start(a) \/ Stop(a) \/ Ring(a)

Spec == Init /\ [][Next]_left
=============================================================================
