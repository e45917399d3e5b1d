------------------------------ MODULE NiosFiles ------------------------------
(***************************************************************************)
(* The Nios from reset to the end of main, as far as files are concerned:  *)
(* alt_main registers the devices, redirects the standard streams to the   *)
(* console and calls main; main makes any calls on descriptors it holds,   *)
(* in any order; the console is the JTAG UART with the driver that polls   *)
(* (ALT_USE_SMALL_DRIVERS), its queues and the host behind it.             *)
(***************************************************************************)
EXTENDS AltFiles

CONSTANTS
  TxSize,     \* Room of the UART's queue to the host, 64 in this system.
  RxSize,     \* Room of its queue from the host, 64 too.
  MaxCount,   \* Most bytes that main reads or writes in a call.
  Modes,      \* Access modes, with O_NONBLOCK or not, that main opens with.
  Tunable     \* Descriptors on which main sets or clears O_NONBLOCK.

ASSUME NiosAssumption ==
  /\ TxSize \in Nat /\ RxSize \in Nat /\ MaxCount \in Nat
  /\ Modes \subseteq Access \X BOOLEAN

VARIABLES
  phase,       \* How far alt_main is.
  held,        \* Descriptors that main has opened and not closed.
  io,          \* The call of the console driver that runs, or Idle.
  tx,          \* Number of bytes in the queue to the host.
  rx,          \* Number of bytes in the queue from the host.
  woverflow    \* A byte was written into a full queue, and lost.
main == <<phase, held>>
uart == <<tx, rx, woverflow>>
vars == <<files, main, io, uart>>

Idle == [op |-> "idle"]

Init ==
  /\ FilesInit
  /\ phase = "alt_sys_init" /\ held = {} /\ io = Idle
  /\ tx = 0 /\ rx = 0 /\ woverflow = FALSE

----------------------------------------------------------------------------
(* alt_main: alt_sys_init registers the console, alt_io_redirect opens it  *)
(* three times; then main runs.                                            *)
AltSysInit ==
  /\ phase = "alt_sys_init" /\ phase' = "stdout"
  /\ alt_dev_reg(Console) /\ UNCHANGED <<held, io, uart>>

Redirect(now, next, standard, acc) ==
  /\ phase = now /\ phase' = next
  /\ alt_open_fd(standard, Console, acc) /\ UNCHANGED <<held, io, uart>>

AltIoRedirect ==
  \/ Redirect("stdout", "stdin", 1, "O_WRONLY")
  \/ Redirect("stdin", "stderr", 0, "O_RDONLY")
  \/ Redirect("stderr", "main", 2, "O_WRONLY")

(* After main, alt_main closes the standard output; exit spins for ever.   *)
MainReturns ==
  /\ phase = "main" /\ io = Idle /\ phase' = "exit"
  /\ alt_close(1) /\ UNCHANGED <<held, io, uart>>

Exit == phase = "exit" /\ UNCHANGED vars

----------------------------------------------------------------------------
Calls == phase = "main" /\ io = Idle
Usable == held \cup Standard

Open(name, acc, nonblock) ==
  /\ Calls
  /\ \E fd \in Descriptor : alt_open(name, acc, nonblock, fd) /\ held' = held \cup {fd}
  /\ UNCHANGED <<phase, io, uart>>

OpenFails(name) ==
  Calls /\ alt_open_fails(name) /\ UNCHANGED <<main, io, uart>>

Close(fd) ==
  /\ Calls
  /\ alt_close(fd) /\ held' = held \ {fd}
  /\ UNCHANGED <<phase, io, uart>>

Ioctl(fd) ==
  /\ Calls
  /\ alt_fd_lock(fd) \/ alt_fd_unlock(fd)
  /\ UNCHANGED <<main, io, uart>>

Fcntl(fd, nonblock) ==
  Calls /\ alt_fcntl(fd, nonblock) /\ UNCHANGED <<main, io, uart>>

(* A write to the null device is over at once. *)
Write(fd, count) ==
  /\ Calls /\ MayWrite(fd) /\ alt_fd_list[fd].dev = Console
  /\ io' = [op |-> "write", left |-> count, room |-> FALSE]
  /\ UNCHANGED <<files, main, uart>>

Read(fd, count) ==
  /\ Calls /\ MayRead(fd)
  /\ io' = [op |-> "read", left |-> count, any |-> FALSE,
            nonblock |-> alt_fd_list[fd].nonblock]
  /\ UNCHANGED <<files, main, uart>>

----------------------------------------------------------------------------
(* altera_avalon_jtag_uart_write: poll the room in the queue, then write a *)
(* byte. The driver does not look at O_NONBLOCK.                           *)
PollOther ==     \* mutant: the poll reads the register of the other queue
  /\ io.op = "write" /\ io.left > 0 /\ ~io.room
  /\ io' = [io EXCEPT !.room = rx > 0 /\ tx < TxSize] /\ UNCHANGED <<files, main, uart>>
PollRoom ==
  /\ io.op = "write" /\ io.left > 0 /\ ~io.room
  /\ io' = [io EXCEPT !.room = tx < TxSize] /\ UNCHANGED <<files, main, uart>>

PutByte ==
  /\ io.op = "write" /\ io.room
  /\ io' = [io EXCEPT !.left = @ - 1, !.room = FALSE]
  /\ IF tx < TxSize THEN tx' = tx + 1 /\ UNCHANGED woverflow
                    ELSE woverflow' = TRUE /\ UNCHANGED tx
  /\ UNCHANGED <<files, main, rx>>

GetByteBlindly ==   \* mutant: RVALID is not looked at
  /\ io.op = "read" /\ io.left > 0
  /\ rx' = rx - 1
  /\ io' = [io EXCEPT !.left = @ - 1, !.any = TRUE]
  /\ UNCHANGED <<files, main, tx, woverflow>>
(* altera_avalon_jtag_uart_read: an access takes a byte if there is one.   *)
GetByte ==
  /\ io.op = "read" /\ io.left > 0 /\ rx > 0
  /\ rx' = rx - 1
  /\ io' = [io EXCEPT !.left = @ - 1, !.any = TRUE]
  /\ UNCHANGED <<files, main, tx, woverflow>>

(* An access that finds no byte ends the call if it has some already or    *)
(* may not wait.                                                           *)
GiveUp == io.any \/ io.nonblock
PollEmpty ==
  /\ io.op = "read" /\ io.left > 0 /\ rx = 0
  /\ io' = (IF GiveUp THEN Idle ELSE io)
  /\ UNCHANGED <<files, main, uart>>

Return ==
  /\ io.op \in {"read", "write"} /\ io.left = 0
  /\ io' = Idle /\ UNCHANGED <<files, main, uart>>

Poll == PollRoom \/ PutByte \/ GetByte \/ PollEmpty \/ Return

(* The host takes bytes and types some, up to the room in the queue.       *)
HostTakes == tx > 0 /\ tx' = tx - 1 /\ UNCHANGED <<files, main, io, rx, woverflow>>
HostTypes == rx < RxSize /\ rx' = rx + 1 /\ UNCHANGED <<files, main, io, tx, woverflow>>

Call ==
  \/ \E name \in Devices \cup {"/dev/none"} :
       OpenFails(name) \/ \E m \in Modes : Open(name, m[1], m[2])
  \/ \E fd \in Usable :
       \/ Close(fd) \/ Ioctl(fd)
       \/ fd \in Tunable /\ \E n \in BOOLEAN : Fcntl(fd, n)
       \/ \E count \in 0 .. MaxCount : Write(fd, count) \/ Read(fd, count)

Next ==
  \/ AltSysInit \/ AltIoRedirect \/ Call \/ MainReturns \/ Exit
  \/ Poll \/ HostTakes \/ HostTypes

Spec == Init /\ [][Next]_vars

----------------------------------------------------------------------------
TypeOK ==
  /\ alt_dev_list \subseteq Devices
  /\ alt_fd_list \in [Descriptor ->
       [dev : Devices \cup {"none"}, acc : Access, nonblock : BOOLEAN,
        excl : BOOLEAN, is_dev : BOOLEAN]]
  /\ alt_max_fd \in -1 .. ALT_MAX_FD - 1
  /\ held \subseteq Descriptor \ Standard
  /\ tx \in 0 .. TxSize /\ rx \in 0 .. RxSize

(* No descriptor leaks: outside the three standard ones, main holds all    *)
(* that are in use, also after opens that failed half-way.                 *)
NoDescriptorLeaks ==
  \A fd \in Descriptor \ Standard : ~Free(fd) <=> fd \in held

(* Exclusive access: as long as a descriptor has the lock of its device,   *)
(* no other open descriptor references the device (the comment of          *)
(* alt_fd_lock: it grants the lock if there is no other, and open fails    *)
(* until the lock is released).                                            *)
OneOwner ==
  \A fd, other \in Descriptor :
    fd # other /\ alt_fd_list[fd].excl => alt_fd_list[other].dev # alt_fd_list[fd].dev

(* While a device is exclusive, no descriptor of it is opened.             *)
NoOpenWhileExclusive ==
  [][\A fd \in Descriptor :
       alt_fd_list[fd].excl =>
         \A other \in Descriptor :
           Free(other) => alt_fd_list'[other].dev # alt_fd_list[fd].dev]_vars

(* The program starts with the standard streams on the console and keeps   *)
(* them there, whatever it closes.                                         *)
ConsoleStays ==
  phase \in {"main", "exit"} =>
    \A fd \in Standard : alt_fd_list[fd].dev = Console /\ ~alt_fd_list[fd].excl

(* The polling driver never writes into a full queue.                      *)
NoByteLost == ~woverflow

(* A write of any length ends while the host reads its terminal, however   *)
(* small the queue (altera_avalon_jtag_uart_write).                        *)
WriteEnds == io.op = "write" ~> io.op # "write"

Table == INSTANCE FileTable WITH
           Limit <- ALT_MAX_FD,
           table <- [fd \in Descriptor |->
                       [dev |-> alt_fd_list[fd].dev, acc |-> alt_fd_list[fd].acc]]

(* The calls implement the table of descriptors.                           *)
ImplementsTable == Table!Spec
=============================================================================
