------------------------------ MODULE AltFiles ------------------------------
(***************************************************************************)
(* The file descriptors of the Nios program's run-time library: the table  *)
(* alt_fd_list and the calls that change it. The system is built without   *)
(* threads (ALT_SINGLE_THREADED), so that a call is one step. No file      *)
(* system is registered: alt_find_file never finds one. No device of this  *)
(* build has an open, close, ioctl or fstat function of its own.           *)
(***************************************************************************)
EXTENDS Integers

CONSTANTS
  ALT_MAX_FD,   \* Entries of the table, 32 in this build.
  Devices,      \* All device names; "/dev/null" is one of them.
  Console       \* The device of the standard streams.

ASSUME FilesAssumption ==
  /\ ALT_MAX_FD \in Nat /\ ALT_MAX_FD > 3
  /\ "/dev/null" \in Devices /\ Console \in Devices
  /\ Console # "/dev/null" /\ "none" \notin Devices

VARIABLES
  alt_dev_list,   \* The devices that are registered.
  alt_fd_list,    \* The table.
  alt_max_fd      \* The highest descriptor that was ever in use.
files == <<alt_dev_list, alt_fd_list, alt_max_fd>>

Standard   == 0 .. 2
Descriptor == 0 .. ALT_MAX_FD - 1
Access     == {"O_RDONLY", "O_WRONLY", "O_RDWR"}

(* The flags are the access mode, O_NONBLOCK, ALT_FD_EXCL and ALT_FD_DEV.  *)
Entry(dev, acc, nonblock, is_dev) ==
  [dev |-> dev, acc |-> acc, nonblock |-> nonblock, excl |-> FALSE,
   is_dev |-> is_dev]
Released == Entry("none", "O_RDONLY", FALSE, FALSE)

FilesInit ==
  /\ alt_dev_list = {"/dev/null"}
  /\ alt_fd_list = [fd \in Descriptor |->
                      IF fd \in Standard
                      THEN Entry("/dev/null", "O_RDONLY", FALSE, FALSE)
                      ELSE Released]
  /\ alt_max_fd = -1

alt_dev_reg(dev) ==
  /\ alt_dev_list' = alt_dev_list \cup {dev}
  /\ UNCHANGED <<alt_fd_list, alt_max_fd>>

----------------------------------------------------------------------------
Free(fd) == alt_fd_list[fd].dev = "none"

alt_get_fd_next(fd) == fd = alt_max_fd + 1   \* mutant: entries are not reused
(* alt_get_fd takes the lowest free entry. *)
alt_get_fd(fd) == Free(fd) /\ \A lower \in 0 .. fd - 1 : ~Free(lower)

MaxWith(fd) == IF fd > alt_max_fd THEN fd ELSE alt_max_fd

(* Mutant: the search stops below the highest descriptor. *)
alt_file_locked_short(fd, dev) ==
  \E other \in 0 .. MaxWith(fd) - 1 :
    other # fd /\ alt_fd_list[other].dev = dev /\ alt_fd_list[other].excl
(* Another descriptor holds the device for itself. *)
alt_file_locked(fd, dev) ==
  \E other \in 0 .. MaxWith(fd) :
    other # fd /\ alt_fd_list[other].dev = dev /\ alt_fd_list[other].excl

alt_release_fd(list, fd) ==
  IF fd > 2 THEN [list EXCEPT ![fd] = Released] ELSE list

(* Mutant of a failed open: the entry stays taken. *)
AbandonKept(fd, dev) == [alt_fd_list EXCEPT ![fd].dev = dev]
Abandon(fd, dev) == alt_release_fd(alt_fd_list, fd)

(* A successful open. *)
alt_open(name, acc, nonblock, fd) ==
  /\ name \in alt_dev_list
  /\ alt_get_fd(fd)
  /\ ~alt_file_locked(fd, name)
  /\ alt_fd_list' = [alt_fd_list EXCEPT ![fd] = Entry(name, acc, nonblock, TRUE)]
  /\ alt_max_fd' = MaxWith(fd)
  /\ UNCHANGED alt_dev_list

(* The open fails: no such device, no free entry, or the device is held.   *)
(* In the last case the highest descriptor may have grown.                 *)
alt_open_fails(name) ==
  \/ /\ \/ name \notin alt_dev_list
        \/ \A fd \in Descriptor : ~Free(fd)
     /\ UNCHANGED files
  \/ \E fd \in Descriptor :
       /\ name \in alt_dev_list
       /\ alt_get_fd(fd)
       /\ alt_file_locked(fd, name)
       /\ alt_fd_list' = Abandon(fd, name)
       /\ alt_max_fd' = MaxWith(fd)
       /\ UNCHANGED alt_dev_list

(* Open a device, copy the entry to a standard descriptor, release it. If  *)
(* the open fails, the standard descriptor keeps its device.               *)
alt_open_fd(standard, name, acc) ==
  \/ \E old \in Descriptor :
       /\ name \in alt_dev_list
       /\ alt_get_fd(old)
       /\ ~alt_file_locked(old, name)
       /\ alt_fd_list' =
            alt_release_fd([alt_fd_list EXCEPT
                              ![standard] = Entry(name, acc, FALSE, TRUE)], old)
       /\ alt_max_fd' = MaxWith(old)
       /\ UNCHANGED alt_dev_list
  \/ alt_open_fails(name)

alt_close(fd) ==
  /\ alt_fd_list' = alt_release_fd(alt_fd_list, fd)
  /\ UNCHANGED <<alt_dev_list, alt_max_fd>>

(* ioctl(fd, TIOCEXCL), which does not look at the highest descriptor, and *)
(* ioctl(fd, TIOCNXCL). Other requests, and these on an entry without      *)
(* ALT_FD_DEV, fail and change nothing.                                    *)
alt_fd_lock(fd) ==
  /\ alt_fd_list[fd].is_dev
  /\ \A other \in 0 .. alt_max_fd - 1 :
       other # fd => alt_fd_list[other].dev # alt_fd_list[fd].dev
  /\ alt_fd_list' = [alt_fd_list EXCEPT ![fd].excl = TRUE]
  /\ UNCHANGED <<alt_dev_list, alt_max_fd>>

alt_fd_unlock(fd) ==
  /\ alt_fd_list[fd].is_dev
  /\ alt_fd_list' = [alt_fd_list EXCEPT ![fd].excl = FALSE]
  /\ UNCHANGED <<alt_dev_list, alt_max_fd>>

(* fcntl(fd, F_SETFL, flags). *)
alt_fcntl(fd, nonblock) ==
  /\ alt_fd_list' = [alt_fd_list EXCEPT ![fd].nonblock = nonblock]
  /\ UNCHANGED <<alt_dev_list, alt_max_fd>>

(* read() and write() reach the driver only with the right access mode; a  *)
(* null device has no read function.                                       *)
MayRead(fd)  == alt_fd_list[fd].acc # "O_WRONLY" /\ alt_fd_list[fd].dev # "/dev/null"
MayWrite(fd) == alt_fd_list[fd].acc # "O_RDONLY"
=============================================================================
