----------------------------- MODULE AltAlarms -----------------------------
(***************************************************************************)
(* Alarms and the system clock of the Nios program's run-time library: the *)
(* list of alarms, the calls of main on it, the timer, and the interrupt   *)
(* that walks the list. Main and the interrupt share the list; main turns  *)
(* interrupts off while it changes it. A callback is its return value.     *)
(***************************************************************************)
EXTENDS Integers

CONSTANTS
  Alarms,    \* The structures that main and the library know.
  Wrap,      \* The tick counter and times count modulo Wrap, 2^32 in the code.
  Delays,    \* Ticks that main starts an alarm for.
  Periods    \* Ticks that a callback returns.

Head == "alt_alarm_list"
Null == "null"   \* In a structure that was never started.

(* With a delay of Wrap - 1 the code rings at the next tick. *)
ASSUME AlarmsAssumption ==
  /\ Head \notin Alarms /\ Null \notin Alarms
  /\ Wrap \in Nat \ {0} /\ Delays \subseteq 0 .. Wrap - 2 /\ Periods \subseteq 0 .. Wrap - 1

VARIABLES
  nticks,           \* _alt_nticks.
  next, previous,   \* The links of the list and of its head.
  time, rollover,   \* When an alarm rings; the counter wraps before.
  call,             \* The call of main on an alarm, and how far it is.
  isr,              \* The interrupt, and the alarm it looks at.
  boot,             \* How far the start of the system clock is.
  pie, ienable,     \* Interrupts are on, in the processor and for the timer.
  timer             \* "stopped", "running" or "expired": it asks for an interrupt.
list == <<next, previous, time, rollover>>
irqs == <<isr, boot, pie, ienable, timer>>
timeVars == <<nticks, list, call, irqs>>

NoCall      == [op |-> "none"]
NoInterrupt == [at |-> "none", alarm |-> Head]

TimeInit ==
  /\ nticks = 0
  /\ next = [x \in Alarms \cup {Head} |-> IF x = Head THEN Head ELSE Null]
  /\ previous = next
  /\ time = [a \in Alarms |-> 0] /\ rollover = [a \in Alarms |-> FALSE]
  /\ call = NoCall /\ isr = NoInterrupt /\ boot = "alt_irq_init"
  /\ pie = FALSE /\ ienable = FALSE /\ timer = "stopped"

----------------------------------------------------------------------------
(* The start: interrupts on in the processor and off for all devices, then *)
(* the timer runs, then its handler is registered and its interrupt on.    *)
BootStep(now, then) == boot = now /\ boot' = then /\ UNCHANGED <<nticks, list, call, isr>>

alt_irq_init ==
  /\ BootStep("alt_irq_init", "alt_avalon_timer_sc_init")
  /\ ienable' = FALSE /\ pie' = TRUE /\ UNCHANGED timer

alt_avalon_timer_sc_init ==
  /\ BootStep("alt_avalon_timer_sc_init", "alt_iic_isr_register")
  /\ timer' = "running" /\ UNCHANGED <<pie, ienable>>

alt_iic_isr_register ==
  /\ BootStep("alt_iic_isr_register", "up")
  /\ ienable' = TRUE /\ UNCHANGED <<pie, timer>>

Boot == alt_irq_init \/ alt_avalon_timer_sc_init \/ alt_iic_isr_register

(* A timeout before the last one was acknowledged has no effect.           *)
Expire ==
  /\ timer = "running" /\ timer' = "expired"
  /\ UNCHANGED <<nticks, list, call, isr, boot, pie, ienable>>

----------------------------------------------------------------------------
(* The new value of the PIE bit.                                           *)
alt_irq_disable_none == pie              \* mutant: interrupts stay on
alt_irq_disable_all  == FALSE
alt_irq_enable_never(context) == FALSE   \* mutant: they stay off
alt_irq_enable_all(context) == context

Before(t, now) == t < now

Detached_not(links, a) == links   \* mutant: the entry keeps its links
Detached(links, a) == [links EXCEPT ![a] = a]

(* alt_llist_insert, at the head, in two steps; alt_llist_remove.          *)
InsertEntry(a) ==
  previous' = [previous EXCEPT ![a] = Head] /\ next' = [next EXCEPT ![a] = next[Head]]
InsertLinks(a) ==
  previous' = [previous EXCEPT ![next[Head]] = a] /\ next' = [next EXCEPT ![Head] = a]
RemoveLinks(a) ==
  /\ previous' = [previous EXCEPT ![next[a]] = previous[a]]
  /\ next' = [next EXCEPT ![previous[a]] = next[a]]
RemoveEntry(a) == previous' = Detached(previous, a) /\ next' = Detached(next, a)

----------------------------------------------------------------------------
(* Calls of main. It starts an alarm that is not in the list and stops one *)
(* that it has started, which may have left the list on its own since.     *)
Begin(op, a, delay) ==
  /\ call = NoCall /\ isr = NoInterrupt /\ boot = "up"
  /\ call' = [op |-> op, alarm |-> a, delay |-> delay, at |-> "disable", context |-> FALSE]
  /\ UNCHANGED <<nticks, list, irqs>>

alt_alarm_start(a, delay) == next[a] \in {Null, a} /\ Begin("start", a, delay)
alt_alarm_stop(a)         == next[a] # Null /\ Begin("stop", a, 0)

(* One step of the call.                                                   *)
CallStep(now, then) ==
  /\ call # NoCall /\ isr = NoInterrupt
  /\ call.at = now /\ call' = [call EXCEPT !.at = then]
  /\ UNCHANGED <<nticks, isr, boot, ienable, timer>>

Disable ==
  /\ call # NoCall /\ isr = NoInterrupt /\ call.at = "disable"
  /\ call' = [call EXCEPT !.at = IF call.op = "start" THEN "time" ELSE "links", !.context = pie]
  /\ pie' = alt_irq_disable_all /\ UNCHANGED <<nticks, list, isr, boot, ienable, timer>>

SetTime ==
  /\ CallStep("time", "entry")
  /\ LET t == (call.delay + nticks + 1) % Wrap
     IN  /\ time' = [time EXCEPT ![call.alarm] = t]
         /\ rollover' = [rollover EXCEPT ![call.alarm] = Before(t, nticks)]
  /\ UNCHANGED <<next, previous, pie>>

(* Inserting writes the entry first, removing writes it last.              *)
WriteEntry ==
  /\ CallStep("entry", IF call.op = "start" THEN "links" ELSE "restore")
  /\ IF call.op = "start" THEN InsertEntry(call.alarm) ELSE RemoveEntry(call.alarm)
  /\ UNCHANGED <<time, rollover, pie>>

WriteLinks ==
  /\ CallStep("links", IF call.op = "start" THEN "restore" ELSE "entry")
  /\ IF call.op = "start" THEN InsertLinks(call.alarm) ELSE RemoveLinks(call.alarm)
  /\ UNCHANGED <<time, rollover, pie>>

Restore ==
  /\ call # NoCall /\ isr = NoInterrupt /\ call.at = "restore"
  /\ call' = NoCall /\ pie' = alt_irq_enable_all(call.context)
  /\ UNCHANGED <<nticks, list, isr, boot, ienable, timer>>

CallRuns == Disable \/ SetTime \/ WriteEntry \/ WriteLinks \/ Restore

----------------------------------------------------------------------------
(* The interrupt, from the entry of the exception to its return.           *)
Pending == timer = "expired" /\ ienable

TakeInterrupt ==
  /\ isr = NoInterrupt /\ pie /\ Pending
  /\ isr' = [isr EXCEPT !.at = "acknowledge"] /\ pie' = FALSE
  /\ UNCHANGED <<nticks, list, call, boot, ienable, timer>>

Acknowledge ==
  /\ isr.at = "acknowledge" /\ isr' = [isr EXCEPT !.at = "alt_tick"]
  /\ timer' = "running"
  /\ UNCHANGED <<nticks, list, call, boot, pie, ienable>>

alt_tick ==
  /\ isr.at = "alt_tick" /\ isr' = [at |-> "walk", alarm |-> next[Head]]
  /\ nticks' = (nticks + 1) % Wrap
  /\ UNCHANGED <<list, call, boot, pie, ienable, timer>>

(* The flag is cleared when the counter wraps, before it is looked at.     *)
StillAhead_ever(a) == rollover[a]   \* mutant: it stays for ever
StillAhead(a) == rollover[a] /\ nticks # 0
Due(a) == time[a] <= nticks /\ ~StillAhead(a)

Walking(a) ==
  /\ isr.at = "walk" /\ a = isr.alarm /\ a # Head
  /\ isr' = [isr EXCEPT !.alarm = next[a]]
  /\ UNCHANGED <<nticks, call, boot, pie, ienable, timer>>

Pass(a) ==
  /\ Walking(a) /\ ~Due(a)
  /\ rollover' = [rollover EXCEPT ![a] = StillAhead(a)]
  /\ UNCHANGED <<next, previous, time>>

(* The callback returns a period, or zero: alt_alarm_stop.                 *)
RingAgain(a, period) ==
  /\ Walking(a) /\ Due(a) /\ period # 0
  /\ LET t == (time[a] + period) % Wrap
     IN  time' = [time EXCEPT ![a] = t] /\ rollover' = [rollover EXCEPT ![a] = Before(t, nticks)]
  /\ UNCHANGED <<next, previous>>

RingLast(a) ==
  /\ Walking(a) /\ Due(a)
  /\ rollover' = [rollover EXCEPT ![a] = FALSE]
  /\ next' = Detached([next EXCEPT ![previous[a]] = next[a]], a)
  /\ previous' = Detached([previous EXCEPT ![next[a]] = previous[a]], a)
  /\ UNCHANGED time

(* alt_irq_handler goes on while an interrupt is pending, then returns.    *)
Leave ==
  /\ isr.at = "walk" /\ isr.alarm = Head
  /\ isr' = [isr EXCEPT !.at = IF Pending THEN "acknowledge" ELSE "none"]
  /\ pie' = ~Pending
  /\ UNCHANGED <<nticks, list, call, boot, ienable, timer>>

Interrupt ==
  \/ Acknowledge \/ alt_tick \/ Leave
  \/ \E a \in Alarms : \/ Pass(a)
                       \/ 0 \in Periods /\ RingLast(a)
                       \/ \E n \in Periods : RingAgain(a, n)
=============================================================================
