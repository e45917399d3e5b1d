------------------------ MODULE MCSignalPathTriggers ------------------------
(***************************************************************************)
(* TLC instance of the signal path with a history variable that no ASP     *)
(* reads: the triggers of the averaging ASP that no correlation has been   *)
(* started for yet. ReCOP may set the delay to a sample every 32 clocks.   *)
(***************************************************************************)
EXTENDS MCSignalPath

MCSlowConfigs == {AdcConfig(5)}

VARIABLE owed
triggerVars == <<vars, owed>>

Triggers == avg_ready' /\ corr_calculate' /\ Avg!IsSample(recv[AvgPort].data)
Starts   == state = "S0" /\ state' = "S1"

TriggerInit == Init /\ owed = 0

TriggerNext == /\ Next
               /\ owed' = owed + One(Triggers) - One(Starts)

TriggerSpec == TriggerInit /\ [][TriggerNext]_triggerVars

----------------------------------------------------------------------------
(* A correlation is computed for a trigger, and not for one that has       *)
(* already had its correlation (AvgAsp "Trigger Correlation Calculation",  *)
(* AvgAsp_RAM "Reset Previous Correlation Calculate Flag").                *)
CorrelationsAreTriggered == owed >= 0
=============================================================================
