---------------------------- MODULE NiosRuntime ----------------------------
(***************************************************************************)
(* The whole run-time of the Nios: files and alarms under one main, and    *)
(* the timer's interrupt in between. Main is in one call at a time; the    *)
(* interrupt comes at any step, also of a read or write of the console.    *)
(***************************************************************************)
EXTENDS NiosFiles, AltAlarms

runtimeVars == <<vars, timeVars>>

RuntimeInit == Init /\ TimeInit

MainRuns == boot = "up" /\ call = NoCall /\ isr = NoInterrupt

(* alt_main: the interrupts, the timer, then the console and the streams.  *)
StartUp ==
  \/ Boot /\ UNCHANGED vars
  \/ MainRuns /\ (AltSysInit \/ AltIoRedirect) /\ UNCHANGED timeVars
FileCall == MainRuns /\ (Call \/ Poll) /\ UNCHANGED timeVars
Finish   == MainRuns /\ (MainReturns \/ Exit) /\ UNCHANGED timeVars
Host     == (HostTakes \/ HostTypes) /\ UNCHANGED timeVars
Clock    == (Expire \/ TakeInterrupt \/ Interrupt) /\ UNCHANGED vars
AlarmCall ==
  /\ \/ Calls /\ \E a \in Alarms :
          alt_alarm_stop(a) \/ \E n \in Delays : alt_alarm_start(a, n)
     \/ CallRuns
  /\ UNCHANGED vars

RuntimeNext == StartUp \/ FileCall \/ Finish \/ Host \/ Clock \/ AlarmCall

RuntimeSpec == RuntimeInit /\ [][RuntimeNext]_runtimeVars

(* The timer's period is far longer than its handler and than a step of a  *)
(* call: the handler returns and main goes on with the call it is in. The  *)
(* host reads its terminal.                                                *)
FileFairness ==
  /\ []<>(isr = NoInterrupt)
  /\ SF_runtimeVars(MainRuns /\ Poll /\ UNCHANGED timeVars)
  /\ WF_runtimeVars(HostTakes /\ UNCHANGED timeVars)

(* The timer runs, and an interrupt that is pending is taken although main *)
(* turns interrupts off again and again: the processor takes it before the *)
(* next instruction of main.                                               *)
ClockFairness ==
  /\ WF_runtimeVars(Expire /\ UNCHANGED vars)
  /\ WF_runtimeVars(Interrupt /\ UNCHANGED vars)
  /\ WF_runtimeVars(CallRuns /\ UNCHANGED vars)
  /\ SF_runtimeVars(TakeInterrupt /\ UNCHANGED vars)

FairRuntime ==
  RuntimeSpec /\ WF_runtimeVars(StartUp) /\ FileFairness /\ ClockFairness

----------------------------------------------------------------------------
(* An alarm is in the list when its predecessor points to it.              *)
Listed(a) == previous[a] \notin {Null, a} /\ next[previous[a]] = a

(* The ticks until an alarm rings. *)
Left(a) == IF Listed(a) THEN (time[a] - nticks) % Wrap ELSE -1

(* Except while main is between the writes of an insertion or a removal,   *)
(* the list is a ring through its head: forwards and backwards links       *)
(* agree, and a walk from the head meets every alarm in it, as what the    *)
(* walk meets is closed under next. Interrupts remove alarms as well, and  *)
(* main may remove one a second time (alt_llist_insert, alt_llist_remove,  *)
(* alt_irq_disable_all).                                                   *)
Nodes == {Head} \cup {a \in Alarms : Listed(a)}
ListIntact ==
  (call = NoCall \/ call.at \in {"disable", "time", "restore"}) =>
    /\ \A x \in Nodes : next[x] \in Nodes /\ previous[next[x]] = x
    /\ \A met \in SUBSET Nodes :
         Head \in met /\ (\A x \in met : next[x] \in met) => met = Nodes

Alarm == INSTANCE AlarmClock WITH left <- [a \in Alarms |-> Left(a)]

(* Every alarm rings at its tick, neither early nor late, also when the    *)
(* tick counter wraps before (alt_tick, alt_alarm_start rollover).         *)
ImplementsAlarmClock == Alarm!Spec

(* A running alarm rings or is stopped: interrupts do not stay off.        *)
StartedAlarmRings == \A a \in Alarms : Left(a) > 0 ~> Left(a) <= 0
=============================================================================
