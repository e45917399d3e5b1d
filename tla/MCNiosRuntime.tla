--------------------------- MODULE MCNiosRuntime ---------------------------
(***************************************************************************)
(* TLC instance of the run-time: programs that use files, programs that    *)
(* use alarms, and programs that print to the console while an alarm runs, *)
(* so that the timer interrupts their writes. The timer does not expire    *)
(* for a program without alarms.                                           *)
(***************************************************************************)
EXTENDS NiosRuntime

MCDevices == {"/dev/null", "/dev/jtag_uart_0"}
MCModes   == {<<"O_RDWR", FALSE>>, <<"O_WRONLY", TRUE>>}

VARIABLE program   \* What main uses.
mcVars == <<runtimeVars, program>>

Prints == FileCall /\ held' = {} /\ io'.op # "read" /\ UNCHANGED files
OneAlarm == AlarmCall /\ (call' # NoCall => call'.alarm = "a1")

MCInit == RuntimeInit /\ program \in {"files", "alarms", "both"}

MCNext ==
  /\ UNCHANGED program
  /\ \/ StartUp \/ Finish
     \/ program = "files"  /\ (FileCall \/ Host)
     \/ program = "alarms" /\ (Clock \/ AlarmCall)
     \/ program = "both"   /\ (Prints \/ (Host /\ UNCHANGED rx) \/ Clock \/ OneAlarm)

MCSpec ==
  /\ MCInit /\ [][MCNext]_mcVars
  /\ WF_runtimeVars(StartUp)
  /\ (program # "alarms" => FileFairness)
  /\ (program # "files"  => ClockFairness)
============================================================================
