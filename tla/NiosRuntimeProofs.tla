-------------------------- MODULE NiosRuntimeProofs --------------------------
(***************************************************************************)
(* The run-time of the Nios program. For any number of descriptors,        *)
(* devices and modes, and queues of any size, the files keep their         *)
(* promises and the polling driver loses no byte. For any number of        *)
(* alarms, any delays and periods, the interrupt leaves files alone, it    *)
(* never comes while main changes the list of alarms, the list stays a     *)
(* ring through its head, and alarms ring at their ticks.                  *)
(***************************************************************************)
EXTENDS NiosRuntime, TLAPS

----------------------------------------------------------------------------
(* Files: descriptors and the console driver.                              *)

Booting == {"stdout", "stdin", "stderr"}

EntryType == [dev : Devices \cup {"none"}, acc : Access, nonblock : BOOLEAN,
              excl : BOOLEAN, is_dev : BOOLEAN]

TableType ==
  /\ alt_dev_list \subseteq Devices
  /\ alt_fd_list \in [Descriptor -> EntryType]
  /\ alt_max_fd \in -1 .. ALT_MAX_FD - 1
  /\ held \subseteq Descriptor \ Standard
  /\ phase \in {"alt_sys_init", "main", "exit"} \cup Booting

(* Entries are released whole, and the standard ones never.                *)
FreeIsReleased ==
  \A fd \in Descriptor : Free(fd) => alt_fd_list[fd] = Released /\ fd \notin Standard

(* alt_fd_lock and alt_file_locked see every descriptor that main opened,  *)
(* but for the highest one.                                                *)
InUseBelow ==
  /\ \A fd \in Descriptor \ Standard : ~Free(fd) => fd <= alt_max_fd
  /\ phase \in {"main", "exit"} => alt_max_fd >= 3

(* How far alt_io_redirect is.                                             *)
BeforeMain ==
  phase \in {"alt_sys_init"} \cup Booting =>
    /\ held = {}
    /\ \A fd \in Descriptor : ~alt_fd_list[fd].excl
    /\ phase \in {"stdin", "stderr"} => alt_fd_list[1].dev = Console /\ alt_max_fd >= 3
    /\ phase = "stderr" => alt_fd_list[0].dev = Console
    /\ phase # "alt_sys_init" => Console \in alt_dev_list

(* What alt_fd_lock leaves of exclusive access, as it does not look at the *)
(* highest descriptor: an exclusive descriptor shares its device only with *)
(* descriptors above it, and none of them is exclusive.                    *)
SharerAbove ==
  \A fd, other \in Descriptor :
    /\ fd # other /\ alt_fd_list[fd].excl
    /\ alt_fd_list[fd].dev = alt_fd_list[other].dev
    => fd < other /\ ~alt_fd_list[other].excl

FilesInv ==
  /\ TableType /\ FreeIsReleased /\ InUseBelow /\ BeforeMain
  /\ NoDescriptorLeaks /\ SharerAbove /\ ConsoleStays

----------------------------------------------------------------------------
USE DEF Standard

LEMMA StandardIn == Standard \subseteq Descriptor
BY FilesAssumption DEF Descriptor

LEMMA ReleasedType == Released \in EntryType
BY FilesAssumption DEF Released, Entry, EntryType, Access

LEMMA EntryIsEntry ==
  ASSUME NEW dev \in Devices, NEW acc \in Access, NEW nonblock \in BOOLEAN, NEW is_dev \in BOOLEAN
  PROVE  /\ Entry(dev, acc, nonblock, is_dev) \in EntryType
         /\ Entry(dev, acc, nonblock, is_dev).dev = dev
         /\ Entry(dev, acc, nonblock, is_dev).acc = acc
         /\ ~Entry(dev, acc, nonblock, is_dev).excl
BY DEF Entry, EntryType

(* The invariant at the start of alt_main.                                 *)
LEMMA FilesInitially == Init => FilesInv
<1> SUFFICES ASSUME Init PROVE FilesInv
    OBVIOUS
<1> USE FilesAssumption DEF Init, FilesInit
<1>1. TableType
  BY DEF TableType, EntryType, Entry, Released, Access, Descriptor
<1>2. FreeIsReleased
  BY DEF FreeIsReleased, Free, Entry, Released, Descriptor
<1>3. InUseBelow /\ BeforeMain /\ NoDescriptorLeaks /\ ConsoleStays
  BY DEF InUseBelow, BeforeMain, NoDescriptorLeaks, ConsoleStays, Free, Entry, Released, Descriptor, Booting
<1>4. SharerAbove
  BY DEF SharerAbove, Entry, Released, Descriptor
<1> QED BY <1>1, <1>2, <1>3, <1>4 DEF FilesInv

(* Steps that leave the table, the devices and main's part alone.          *)
LEMMA FilesStutter == FilesInv /\ UNCHANGED <<files, main>> => FilesInv'
BY DEF FilesInv, files, main, TableType, FreeIsReleased, InUseBelow, BeforeMain,
       NoDescriptorLeaks, SharerAbove, ConsoleStays, Free

(* A successful open takes a free entry above the standard ones.           *)
LEMMA OpenKeeps ==
  ASSUME FilesInv, NEW name \in Devices, NEW acc \in Access, NEW nonblock \in BOOLEAN,
         Open(name, acc, nonblock)
  PROVE  FilesInv'
<1> USE FilesAssumption
<1>1. PICK fd \in Descriptor : alt_open(name, acc, nonblock, fd) /\ held' = held \cup {fd}
  BY DEF Open
<1> DEFINE e == Entry(name, acc, nonblock, TRUE)
<1>2. /\ e \in EntryType /\ e.dev = name /\ ~e.excl /\ name # "none"
  BY EntryIsEntry
<1>3. /\ alt_fd_list' = [alt_fd_list EXCEPT ![fd] = e]
      /\ alt_max_fd' = MaxWith(fd) /\ alt_dev_list' = alt_dev_list
      /\ alt_fd_list[fd].dev = "none" /\ phase' = phase /\ phase = "main"
  BY <1>1 DEF alt_open, alt_get_fd, Free, Open, Calls
<1>4. TableType /\ alt_fd_list \in [Descriptor -> EntryType]
  BY DEF FilesInv, TableType
<1>5. fd \notin Standard /\ alt_fd_list[fd] = Released
  BY <1>3 DEF FilesInv, FreeIsReleased, Free
<1>6. /\ alt_fd_list'[fd] = e
      /\ \A other \in Descriptor : other # fd => alt_fd_list'[other] = alt_fd_list[other]
  BY <1>3, <1>4
<1>7. /\ alt_max_fd \in Int /\ alt_max_fd' \in Int /\ fd \in Int /\ alt_max_fd' >= alt_max_fd
      /\ alt_max_fd' >= fd /\ alt_max_fd' \in -1 .. ALT_MAX_FD - 1
  BY <1>3, <1>4 DEF TableType, MaxWith, Descriptor
<1>8. TableType'
  BY <1>1, <1>2, <1>3, <1>4, <1>5, <1>7 DEF TableType
<1>9. FreeIsReleased'
  BY <1>2, <1>6 DEF FilesInv, FreeIsReleased, Free
<1>10. InUseBelow'
  <2>1. ASSUME NEW other \in Descriptor \ Standard, alt_fd_list'[other].dev # "none"
        PROVE  other <= alt_max_fd'
    <3>1. CASE other = fd
      BY <3>1, <1>7
    <3>2. CASE other # fd
      BY <3>2, <2>1, <1>6, <1>7 DEF FilesInv, InUseBelow, Free, Descriptor
    <3> QED BY <3>1, <3>2
  <2>2. alt_max_fd >= 3
    BY <1>3 DEF FilesInv, InUseBelow
  <2>3. alt_max_fd' >= 3
    BY <2>2, <1>7
  <2> QED BY <2>1, <2>3 DEF InUseBelow, Free
<1>11. BeforeMain'
  BY <1>3 DEF BeforeMain, Booting
<1>12. NoDescriptorLeaks'
  BY <1>1, <1>2, <1>5, <1>6 DEF FilesInv, NoDescriptorLeaks, Free
<1>13. \A other \in Descriptor : alt_fd_list[other].excl => alt_fd_list[other].dev # name
  <2> SUFFICES ASSUME NEW other \in Descriptor, alt_fd_list[other].excl,
                      alt_fd_list[other].dev = name
               PROVE  FALSE
    OBVIOUS
  <2>1. other # fd
    BY <1>5 DEF Released, Entry
  <2>2. other \in 0 .. MaxWith(fd)
    BY <1>2, <1>3, <1>7 DEF FilesInv, InUseBelow, Free, Descriptor
  <2> QED BY <1>1, <2>1, <2>2 DEF alt_open, alt_file_locked
<1>14. SharerAbove'
  <2> SUFFICES ASSUME NEW a \in Descriptor, NEW b \in Descriptor, a # b,
                      alt_fd_list'[a].excl, alt_fd_list'[a].dev = alt_fd_list'[b].dev
               PROVE  a < b /\ ~alt_fd_list'[b].excl
    BY DEF SharerAbove
  <2>1. a # fd /\ alt_fd_list'[a] = alt_fd_list[a]
    BY <1>2, <1>6
  <2>2. b # fd /\ alt_fd_list'[b] = alt_fd_list[b]
    BY <1>2, <1>6, <1>13, <2>1
  <2> QED BY <2>1, <2>2 DEF FilesInv, SharerAbove
<1>15. ConsoleStays'
  <2> SUFFICES ASSUME NEW s \in Standard
               PROVE  alt_fd_list'[s].dev = Console /\ ~alt_fd_list'[s].excl
    BY DEF ConsoleStays
  <2>1. alt_fd_list'[s] = alt_fd_list[s]
    BY StandardIn, <1>5, <1>6
  <2> QED BY <2>1, <1>3 DEF FilesInv, ConsoleStays
<1> QED BY <1>8, <1>9, <1>10, <1>11, <1>12, <1>14, <1>15 DEF FilesInv

(* A failed open may raise the highest descriptor, and changes no entry.   *)
LEMMA OpenFailsKeeps ==
  ASSUME FilesInv, NEW name, alt_open_fails(name), UNCHANGED main
  PROVE  FilesInv' /\ alt_fd_list' = alt_fd_list
<1> USE FilesAssumption
<1>1. CASE UNCHANGED files
  BY <1>1, FilesStutter DEF files
<1>2. ASSUME NEW fd \in Descriptor, alt_get_fd(fd), alt_fd_list' = Abandon(fd, name),
             alt_max_fd' = MaxWith(fd), alt_dev_list' = alt_dev_list
      PROVE  FilesInv' /\ alt_fd_list' = alt_fd_list
  <2>1. alt_fd_list[fd] = Released /\ fd \notin Standard
    BY <1>2 DEF FilesInv, FreeIsReleased, alt_get_fd
  <2>2. alt_fd_list' = alt_fd_list
    BY <1>2, <2>1 DEF Abandon, alt_release_fd, FilesInv, TableType
  <2>3. alt_max_fd \in Int /\ alt_max_fd' \in -1 .. ALT_MAX_FD - 1 /\ alt_max_fd' >= alt_max_fd
    BY <1>2 DEF FilesInv, TableType, MaxWith, Descriptor
  <2>4. TableType' /\ FreeIsReleased' /\ NoDescriptorLeaks' /\ SharerAbove' /\ ConsoleStays'
    BY <2>2, <2>3, <1>2 DEF FilesInv, TableType, FreeIsReleased, NoDescriptorLeaks,
       SharerAbove, ConsoleStays, Free, main
  <2>5. InUseBelow' /\ BeforeMain'
    BY <2>2, <2>3, <1>2 DEF FilesInv, InUseBelow, BeforeMain, Free, main, Descriptor
  <2> QED BY <2>2, <2>4, <2>5 DEF FilesInv
<1> QED BY <1>1, <1>2 DEF alt_open_fails

(* Closing releases an entry of main's; a standard entry stays.            *)
LEMMA CloseKeeps ==
  ASSUME FilesInv, NEW fd \in Descriptor, alt_close(fd), held' = held \ {fd},
         phase = "main", phase' \in {"main", "exit"}
  PROVE  FilesInv'
<1> USE FilesAssumption
<1>1. CASE fd \in Standard
  <2>1. alt_fd_list' = alt_fd_list /\ held' = held
    BY <1>1 DEF alt_close, alt_release_fd, FilesInv, TableType
  <2> QED BY <2>1 DEF alt_close, FilesInv, TableType, FreeIsReleased, InUseBelow, BeforeMain,
       NoDescriptorLeaks, SharerAbove, ConsoleStays, Free, Booting
<1>2. CASE fd \notin Standard
  <2>1. fd > 2
    BY <1>2 DEF Descriptor
  <2>2. alt_fd_list' = [alt_fd_list EXCEPT ![fd] = Released] /\ alt_fd_list \in [Descriptor -> EntryType]
    BY <2>1 DEF alt_close, alt_release_fd, FilesInv, TableType
  <2>3. /\ alt_fd_list'[fd] = Released
        /\ \A other \in Descriptor : other # fd => alt_fd_list'[other] = alt_fd_list[other]
    BY <2>2
  <2>4. Released.dev = "none" /\ ~Released.excl
    BY DEF Released, Entry
  <2>5. TableType'
    BY <2>2, ReleasedType DEF alt_close, FilesInv, TableType
  <2>6. FreeIsReleased' /\ InUseBelow' /\ BeforeMain' /\ NoDescriptorLeaks'
    BY <1>2, <2>3, <2>4 DEF alt_close, FilesInv, FreeIsReleased, InUseBelow, BeforeMain,
       NoDescriptorLeaks, Free, Booting
  <2>7. SharerAbove'
    <3> SUFFICES ASSUME NEW a \in Descriptor, NEW b \in Descriptor, a # b,
                        alt_fd_list'[a].excl, alt_fd_list'[a].dev = alt_fd_list'[b].dev
                 PROVE  a < b /\ ~alt_fd_list'[b].excl
      BY DEF SharerAbove
    <3>1. a # fd /\ alt_fd_list'[a] = alt_fd_list[a]
      BY <2>3, <2>4
    <3>2. b # fd
      <4> SUFFICES ASSUME b = fd PROVE FALSE
        OBVIOUS
      <4>1. alt_fd_list[a].dev = "none"
        BY <3>1, <2>3, <2>4
      <4> QED BY <4>1, <3>1, <2>4 DEF FilesInv, FreeIsReleased, Free
    <3> QED BY <3>1, <3>2, <2>3 DEF FilesInv, SharerAbove
  <2>8. ConsoleStays'
    BY <1>2, <2>3 DEF FilesInv, ConsoleStays, Descriptor
  <2> QED BY <2>5, <2>6, <2>7, <2>8 DEF FilesInv
<1> QED BY <1>1, <1>2

(* A lock: the descriptors that alt_fd_lock does not look at are above.    *)
LEMMA LockKeeps ==
  ASSUME FilesInv, NEW fd \in Descriptor, alt_fd_lock(fd), phase = "main",
         fd \in held \cup Standard, UNCHANGED main
  PROVE  FilesInv'
<1> USE FilesAssumption
<1>1. /\ alt_fd_list' = [alt_fd_list EXCEPT ![fd].excl = TRUE]
      /\ alt_fd_list \in [Descriptor -> EntryType] /\ phase' = phase /\ held' = held
      /\ alt_max_fd' = alt_max_fd /\ alt_dev_list' = alt_dev_list
  BY DEF alt_fd_lock, FilesInv, TableType, main
<1>2. /\ alt_fd_list'[fd] = [alt_fd_list[fd] EXCEPT !.excl = TRUE]
      /\ \A other \in Descriptor : other # fd => alt_fd_list'[other] = alt_fd_list[other]
  BY <1>1
<1>3. alt_fd_list[fd].dev # "none"
  BY DEF FilesInv, NoDescriptorLeaks, ConsoleStays, Free, TableType
<1>4. \A other \in Descriptor : alt_fd_list'[other].dev = alt_fd_list[other].dev
  BY <1>1, <1>2 DEF EntryType
<1>5. TableType'
  BY <1>1 DEF FilesInv, TableType, EntryType
<1>6. FreeIsReleased'
  BY <1>2, <1>3, <1>4 DEF FilesInv, FreeIsReleased, Free
<1>7. InUseBelow' /\ BeforeMain' /\ NoDescriptorLeaks'
  BY <1>1, <1>4 DEF FilesInv, InUseBelow, BeforeMain, NoDescriptorLeaks, Free, Booting
<1>8. alt_max_fd \in Int /\ alt_max_fd >= 3
  BY DEF FilesInv, TableType, InUseBelow
<1>9. ASSUME NEW other \in Descriptor, other # fd, alt_fd_list[other].dev = alt_fd_list[fd].dev
      PROVE  other = alt_max_fd
  <2>1. ~(other < alt_max_fd)
    BY <1>9, <1>8 DEF alt_fd_lock, Descriptor
  <2>2. other \notin Standard
    BY <2>1, <1>8
  <2>3. other <= alt_max_fd
    BY <1>3, <1>9, <2>2 DEF FilesInv, InUseBelow, Free
  <2> QED BY <2>1, <2>3, <1>8 DEF Descriptor
<1>10. fd < alt_max_fd \/ fd = alt_max_fd
  BY <1>3, <1>8 DEF FilesInv, InUseBelow, Free, Descriptor
<1>11. SharerAbove'
  <2> SUFFICES ASSUME NEW a \in Descriptor, NEW b \in Descriptor, a # b,
                      alt_fd_list'[a].excl, alt_fd_list[a].dev = alt_fd_list[b].dev
               PROVE  a < b /\ ~alt_fd_list'[b].excl
    BY <1>4 DEF SharerAbove
  <2>1. CASE a = fd
    <3>1. b = alt_max_fd
      BY <2>1, <1>9
    <3>2. a < b
      BY <2>1, <3>1, <1>10
    <3>3. ~alt_fd_list[b].excl
      BY <2>1, <3>2, <1>8 DEF FilesInv, SharerAbove, Descriptor
    <3> QED BY <2>1, <3>2, <3>3, <1>2
  <2>2. CASE b = fd
    <3>1. a = alt_max_fd
      BY <2>2, <1>9
    <3>2. alt_fd_list[a].excl
      BY <2>2, <1>2
    <3>3. a < b
      BY <2>2, <3>2 DEF FilesInv, SharerAbove
    <3> QED BY <2>2, <3>1, <3>3, <1>10, <1>8 DEF Descriptor
  <2>3. CASE a # fd /\ b # fd
    BY <2>3, <1>2 DEF FilesInv, SharerAbove
  <2> QED BY <2>1, <2>2, <2>3
<1>12. fd \notin Standard
  <2> SUFFICES ASSUME fd \in Standard PROVE FALSE
    OBVIOUS
  <2>1. PICK other \in Standard : other # fd
    OBVIOUS
  <2>2. other \in Descriptor /\ alt_fd_list[other].dev = alt_fd_list[fd].dev
    BY DEF FilesInv, ConsoleStays, Descriptor
  <2> QED BY <2>1, <2>2, <1>9, <1>8
<1>13. ConsoleStays'
  BY <1>1, <1>2, <1>12 DEF FilesInv, ConsoleStays, Descriptor
<1> QED BY <1>5, <1>6, <1>7, <1>11, <1>13 DEF FilesInv

(* Releasing the device and changing the flags leave the devices alone.    *)
LEMMA FlagsKeep ==
  ASSUME FilesInv, NEW fd \in Descriptor, NEW nonblock \in BOOLEAN, phase = "main",
         fd \in held \cup Standard, UNCHANGED main,
         alt_fd_unlock(fd) \/ alt_fcntl(fd, nonblock)
  PROVE  FilesInv'
<1> USE FilesAssumption
<1>1. /\ \/ alt_fd_list' = [alt_fd_list EXCEPT ![fd].excl = FALSE]
         \/ alt_fd_list' = [alt_fd_list EXCEPT ![fd].nonblock = nonblock]
      /\ alt_fd_list \in [Descriptor -> EntryType] /\ phase' = phase /\ held' = held
      /\ alt_max_fd' = alt_max_fd /\ alt_dev_list' = alt_dev_list
  BY DEF alt_fd_unlock, alt_fcntl, FilesInv, TableType, main
<1>2. TableType'
  <2>1. [alt_fd_list EXCEPT ![fd].excl = FALSE] \in [Descriptor -> EntryType]
    BY <1>1 DEF EntryType
  <2>2. [alt_fd_list EXCEPT ![fd].nonblock = nonblock] \in [Descriptor -> EntryType]
    BY <1>1 DEF EntryType
  <2> QED BY <1>1, <2>1, <2>2 DEF FilesInv, TableType
<1>3. /\ \A other \in Descriptor :
           /\ alt_fd_list'[other].dev = alt_fd_list[other].dev
           /\ alt_fd_list'[other].excl => alt_fd_list[other].excl
           /\ other # fd => alt_fd_list'[other] = alt_fd_list[other]
  BY <1>1 DEF EntryType
<1>4. alt_fd_list[fd].dev # "none"
  BY DEF FilesInv, NoDescriptorLeaks, ConsoleStays, Free, TableType
<1>5. FreeIsReleased'
  BY <1>3, <1>4 DEF FilesInv, FreeIsReleased, Free
<1>6. InUseBelow' /\ BeforeMain' /\ NoDescriptorLeaks'
  BY <1>1, <1>3 DEF FilesInv, InUseBelow, BeforeMain, NoDescriptorLeaks, Free, Booting
<1>7. SharerAbove'
  BY <1>3 DEF FilesInv, SharerAbove
<1>8. ConsoleStays'
  <2> SUFFICES ASSUME NEW s \in Standard
               PROVE  alt_fd_list'[s].dev = Console /\ ~alt_fd_list'[s].excl
    BY DEF ConsoleStays
  <2>1. alt_fd_list[s].dev = Console /\ ~alt_fd_list[s].excl
    BY DEF FilesInv, ConsoleStays
  <2> QED BY <2>1, <1>3, StandardIn
<1> QED BY <1>2, <1>5, <1>6, <1>7, <1>8 DEF FilesInv

Redirected(standard, acc) ==
  /\ alt_fd_list' = [alt_fd_list EXCEPT ![standard] = Entry(Console, acc, FALSE, TRUE)]
  /\ \A fd \in Descriptor \ Standard : alt_fd_list[fd] = Released

(* alt_io_redirect: a standard descriptor gets the console, for no other   *)
(* descriptor is open.                                                     *)
LEMMA RedirectKeeps ==
  ASSUME FilesInv, NEW now \in Booting, NEW follower \in Booting \cup {"main"},
         NEW standard \in Standard, NEW acc \in Access, Redirect(now, follower, standard, acc),
         \/ now = "stdout" /\ follower = "stdin" /\ standard = 1
         \/ now = "stdin" /\ follower = "stderr" /\ standard = 0
         \/ now = "stderr" /\ follower = "main" /\ standard = 2
  PROVE  FilesInv' /\ Redirected(standard, acc)
<1> USE FilesAssumption
<1> DEFINE e == Entry(Console, acc, FALSE, TRUE)
<1>1. /\ e \in EntryType /\ e.dev = Console /\ ~e.excl /\ Console # "none"
  BY EntryIsEntry
<1>2. phase = now /\ phase' = follower /\ held = {} /\ held' = {} /\ Console \in alt_dev_list
  BY DEF Redirect, FilesInv, BeforeMain, Booting
<1>3. TableType /\ alt_fd_list \in [Descriptor -> EntryType] /\ alt_max_fd \in Int
  BY DEF FilesInv, TableType
<1>4. \A fd \in Descriptor : ~alt_fd_list[fd].excl
  BY <1>2 DEF FilesInv, BeforeMain
<1>5. \A fd \in Descriptor \ Standard : Free(fd) /\ alt_fd_list[fd] = Released
  BY <1>2 DEF FilesInv, NoDescriptorLeaks, FreeIsReleased
<1>6. 3 \in Descriptor \ Standard
  BY DEF Descriptor
<1>7. ~ alt_open_fails(Console)
  <2>1. ~ \A fd \in Descriptor : ~Free(fd)
    BY <1>5, <1>6
  <2>2. \A fd \in Descriptor : ~alt_file_locked(fd, Console)
    <3> SUFFICES ASSUME NEW fd \in Descriptor, NEW other \in 0 .. MaxWith(fd),
                        alt_fd_list[other].excl
                 PROVE  FALSE
      BY DEF alt_file_locked
    <3>1. MaxWith(fd) \in Int /\ MaxWith(fd) <= ALT_MAX_FD - 1
      BY DEF FilesInv, TableType, MaxWith, Descriptor
    <3>2. other \in Descriptor
      BY <3>1 DEF Descriptor
    <3> QED BY <1>4, <3>2
  <2> QED BY <1>2, <2>1, <2>2 DEF alt_open_fails
<1>8. PICK old \in Descriptor :
        /\ alt_get_fd(old)
        /\ alt_fd_list' = alt_release_fd([alt_fd_list EXCEPT ![standard] = e], old)
        /\ alt_max_fd' = MaxWith(old) /\ alt_dev_list' = alt_dev_list
  BY <1>7 DEF Redirect, alt_open_fd
<1>9. old \notin Standard /\ alt_fd_list[old] = Released
  BY <1>8 DEF alt_get_fd, FilesInv, FreeIsReleased
<1>10. alt_fd_list' = [alt_fd_list EXCEPT ![standard] = e]
  BY <1>3, <1>8, <1>9, StandardIn DEF alt_release_fd
<1>11. /\ alt_fd_list'[standard] = e
       /\ \A other \in Descriptor : other # standard => alt_fd_list'[other] = alt_fd_list[other]
  BY <1>3, <1>10, StandardIn
<1>12. alt_max_fd' \in -1 .. ALT_MAX_FD - 1 /\ alt_max_fd' >= old /\ old >= 3
  BY <1>3, <1>8, <1>9 DEF MaxWith, TableType, Descriptor
<1>13. TableType'
  BY <1>1, <1>2, <1>3, <1>8, <1>10, <1>12 DEF TableType, Booting
<1>14. FreeIsReleased'
  BY <1>1, <1>11 DEF FilesInv, FreeIsReleased, Free
<1>15. \A fd \in Descriptor \ Standard : alt_fd_list'[fd].dev = "none"
  BY <1>5, <1>11 DEF Free
<1>16. NoDescriptorLeaks'
  BY <1>2, <1>15 DEF NoDescriptorLeaks, Free
<1>17. \A fd \in Descriptor : ~alt_fd_list'[fd].excl
  BY <1>1, <1>4, <1>11
<1>18. SharerAbove'
  BY <1>17 DEF SharerAbove
<1>19. alt_max_fd' >= 3
  BY <1>12 DEF Descriptor
<1>20. InUseBelow'
  BY <1>15, <1>19 DEF InUseBelow, Free
<1>21. /\ phase \in {"stdin", "stderr"} => alt_fd_list[1].dev = Console
       /\ phase = "stderr" => alt_fd_list[0].dev = Console
  BY <1>2 DEF FilesInv, BeforeMain
<1>22. BeforeMain'
  <2>1. phase' \in {"stdin", "stderr"} => alt_fd_list'[1].dev = Console
    <3>1. CASE now = "stdout"
      BY <3>1, <1>1, <1>11
    <3>2. CASE now = "stdin"
      <4>1. alt_fd_list[1].dev = Console /\ standard = 0
        BY <3>2, <1>2, <1>21
      <4> QED BY <4>1, <1>11, StandardIn
    <3>3. CASE now = "stderr"
      BY <3>3, <1>2
    <3> QED BY <3>1, <3>2, <3>3 DEF Booting
  <2>2. phase' = "stderr" => alt_fd_list'[0].dev = Console
    BY <1>1, <1>2, <1>11, StandardIn DEF Booting
  <2> QED BY <1>2, <1>8, <1>17, <1>19, <2>1, <2>2 DEF BeforeMain, Booting
<1>23. ConsoleStays'
  <2> SUFFICES ASSUME phase' \in {"main", "exit"}, NEW s \in Standard
               PROVE  alt_fd_list'[s].dev = Console /\ ~alt_fd_list'[s].excl
    BY DEF ConsoleStays
  <2>1. now = "stderr" /\ standard = 2
    BY <1>2 DEF Booting
  <2>2. s = 2 \/ alt_fd_list'[s] = alt_fd_list[s]
    BY <2>1, <1>11, StandardIn
  <2>3. s = 2 \/ alt_fd_list[s].dev = Console
    BY <2>1, <1>2, <1>21
  <2>4. alt_fd_list'[s].dev = Console
    BY <1>1, <1>11, <2>1, <2>2, <2>3
  <2> QED BY <1>17, <2>4, StandardIn
<1> QED BY <1>5, <1>10, <1>13, <1>14, <1>16, <1>18, <1>20, <1>22, <1>23 DEF FilesInv, Redirected

(* Every step of the system.                                               *)
LEMMA FilesStep == FilesInv /\ [Next]_vars => FilesInv'
<1> SUFFICES ASSUME FilesInv, [Next]_vars PROVE FilesInv'
    OBVIOUS
<1>1. CASE UNCHANGED vars
  BY <1>1, FilesStutter DEF vars
<1>2. CASE AltSysInit
  <2>1. /\ phase = "alt_sys_init" /\ phase' = "stdout" /\ held' = held
        /\ alt_dev_list' = alt_dev_list \cup {Console}
        /\ alt_fd_list' = alt_fd_list /\ alt_max_fd' = alt_max_fd
    BY <1>2 DEF AltSysInit, alt_dev_reg
  <2>2. TableType'
    BY <2>1, FilesAssumption DEF FilesInv, TableType, Booting
  <2>3. BeforeMain'
    BY <2>1 DEF FilesInv, BeforeMain, Booting
  <2> QED BY <2>1, <2>2, <2>3 DEF FilesInv, FreeIsReleased, InUseBelow, NoDescriptorLeaks,
          SharerAbove, ConsoleStays, Free
<1>3. CASE AltIoRedirect
  <2>1. CASE Redirect("stdout", "stdin", 1, "O_WRONLY")
    BY <2>1, RedirectKeeps DEF Booting, Access
  <2>2. CASE Redirect("stdin", "stderr", 0, "O_RDONLY")
    BY <2>2, RedirectKeeps DEF Booting, Access
  <2>3. CASE Redirect("stderr", "main", 2, "O_WRONLY")
    BY <2>3, RedirectKeeps DEF Booting, Access
  <2> QED BY <1>3, <2>1, <2>2, <2>3 DEF AltIoRedirect
<1>4. CASE MainReturns
  <2>1. held' = held \ {1}
    BY <1>4 DEF MainReturns, FilesInv, TableType
  <2> QED BY <1>4, <2>1, CloseKeeps, StandardIn DEF MainReturns
<1>5. CASE Exit
  BY <1>5, FilesStutter DEF Exit, vars
<1>6. CASE Poll \/ HostTakes \/ HostTypes
  BY <1>6, FilesStutter DEF Poll, PollRoom, PutByte, GetByte, PollEmpty, Return, HostTakes, HostTypes
<1>7. CASE Call
  <2>1. ASSUME NEW name \in Devices \cup {"/dev/none"}, OpenFails(name)
        PROVE  FilesInv'
    BY <2>1, OpenFailsKeeps DEF OpenFails
  <2>2. ASSUME NEW name \in Devices \cup {"/dev/none"}, NEW m \in Modes, Open(name, m[1], m[2])
        PROVE  FilesInv'
    <3>1. m[1] \in Access /\ m[2] \in BOOLEAN
      BY NiosAssumption
    <3>2. name \in Devices
      BY <2>2 DEF Open, alt_open, FilesInv, TableType
    <3> QED BY <2>2, <3>1, <3>2, OpenKeeps
  <2>3. ASSUME NEW fd \in Usable,
               \/ Close(fd) \/ Ioctl(fd)
               \/ fd \in Tunable /\ \E n \in BOOLEAN : Fcntl(fd, n)
               \/ \E count \in 0 .. MaxCount : Write(fd, count) \/ Read(fd, count)
        PROVE  FilesInv'
    <3>1. fd \in Descriptor /\ fd \in held \cup Standard
      BY StandardIn DEF Usable, FilesInv, TableType
    <3>2. CASE Close(fd)
      BY <3>1, <3>2, CloseKeeps DEF Close, Calls
    <3>3. CASE Ioctl(fd)
      BY <3>1, <3>3, LockKeeps, FlagsKeep DEF Ioctl, Calls
    <3>4. CASE \E n \in BOOLEAN : Fcntl(fd, n)
      BY <3>1, <3>4, FlagsKeep DEF Fcntl, Calls
    <3>5. CASE \E count \in 0 .. MaxCount : Write(fd, count) \/ Read(fd, count)
      BY <3>5, FilesStutter DEF Write, Read
    <3> QED BY <2>3, <3>2, <3>3, <3>4, <3>5
  <2> QED BY <1>7, <2>1, <2>2, <2>3 DEF Call
<1> QED BY <1>1, <1>2, <1>3, <1>4, <1>5, <1>6, <1>7 DEF Next

LEMMA FilesInvariant == Spec => []FilesInv
BY FilesInitially, FilesStep, PTL DEF Spec

----------------------------------------------------------------------------
(* The console driver: a poll that found room is not out of date when the  *)
(* byte is written, because only the host takes bytes meanwhile.           *)
Writing == [op : {"write"}, left : Int, room : BOOLEAN]
Reading == [op : {"read"}, left : Int, any : BOOLEAN, nonblock : BOOLEAN]
IoType  == io \in {Idle} \cup Writing \cup Reading

UartInv ==
  /\ IoType
  /\ tx \in 0 .. TxSize /\ rx \in 0 .. RxSize
  /\ io.op = "write" /\ io.room => tx < TxSize
  /\ ~woverflow

LEMMA IoByOp ==
  ASSUME IoType
  PROVE  /\ io.op = "write" => io \in Writing
         /\ io.op = "read" => io \in Reading
<1>1. CASE io = Idle
  BY <1>1 DEF Idle
<1>2. CASE io \in Writing
  BY <1>2 DEF Writing
<1>3. CASE io \in Reading
  BY <1>3 DEF Reading
<1> QED BY <1>1, <1>2, <1>3 DEF IoType

LEMMA WritingUpdates ==
  ASSUME NEW w \in Writing, NEW l \in Int, NEW b \in BOOLEAN
  PROVE  /\ [w EXCEPT !.room = b] \in Writing /\ [w EXCEPT !.room = b].room = b
         /\ [w EXCEPT !.left = l, !.room = b] \in Writing
         /\ [w EXCEPT !.left = l, !.room = b].room = b
<1> USE DEF Writing
<1>1. [w EXCEPT !.room = b] \in Writing
  BY Zenon
<1>2. [w EXCEPT !.room = b].room = b
  BY Zenon
<1>3. [w EXCEPT !.left = l, !.room = b] \in Writing
  BY Zenon
<1>4. [w EXCEPT !.left = l, !.room = b].room = b
  BY Zenon
<1> QED BY <1>1, <1>2, <1>3, <1>4

LEMMA ReadingUpdates ==
  ASSUME NEW r \in Reading, NEW l \in Int, NEW b \in BOOLEAN
  PROVE  [r EXCEPT !.left = l, !.any = b] \in Reading
BY Zenon DEF Reading

LEMMA UartInitially == Init => UartInv
BY NiosAssumption DEF Init, UartInv, IoType, Idle

LEMMA UartStutter == UartInv /\ UNCHANGED <<io, uart>> => UartInv'
BY DEF UartInv, IoType, uart

LEMMA UartStep == FilesInv /\ UartInv /\ [Next]_vars => UartInv'
<1> SUFFICES ASSUME FilesInv, UartInv, [Next]_vars PROVE UartInv'
    OBVIOUS
<1> USE NiosAssumption
<1>1. CASE UNCHANGED vars
  BY <1>1, UartStutter DEF vars
<1>2. CASE AltSysInit \/ AltIoRedirect \/ MainReturns \/ Exit
  BY <1>2, UartStutter DEF AltSysInit, AltIoRedirect, Redirect, MainReturns, Exit, vars
<1>3. CASE Call
  <2>1. CASE UNCHANGED <<io, uart>>
    BY <2>1, UartStutter
  <2>2. ASSUME NEW fd \in Usable, NEW count \in 0 .. MaxCount, Write(fd, count)
        PROVE  UartInv'
    BY <2>2 DEF Write, UartInv, IoType, Writing, Reading, uart
  <2>3. ASSUME NEW fd \in Usable, NEW count \in 0 .. MaxCount, Read(fd, count)
        PROVE  UartInv'
    <3>1. alt_fd_list[fd].nonblock \in BOOLEAN
      BY StandardIn DEF FilesInv, TableType, EntryType, Usable
    <3> QED BY <2>3, <3>1 DEF Read, UartInv, IoType, Writing, Reading, uart
  <2> QED BY <1>3, <2>1, <2>2, <2>3 DEF Call, OpenFails, Open, Close, Ioctl, Fcntl
<1>4. CASE PollRoom
  <2>1. io \in Writing
    BY <1>4, IoByOp DEF PollRoom, UartInv
  <2>2. io' \in Writing /\ io'.room = (tx < TxSize)
    <3>1. io' = [io EXCEPT !.room = tx < TxSize]
      BY <1>4 DEF PollRoom
    <3>2. (tx < TxSize) \in BOOLEAN /\ 0 \in Int
      OBVIOUS
    <3> QED BY <2>1, <3>1, <3>2, WritingUpdates, Zenon
  <2> QED BY <1>4, <2>2 DEF PollRoom, UartInv, IoType, uart
<1>5. CASE PutByte
  <2>1. io \in Writing /\ io.room = TRUE
    BY <1>5, IoByOp DEF PutByte, UartInv, Writing
  <2>2. tx < TxSize /\ tx' = tx + 1 /\ rx' = rx /\ woverflow' = woverflow
    BY <1>5, <2>1 DEF PutByte, UartInv
  <2>3. io' \in Writing /\ io'.room = FALSE
    <3>1. io.left - 1 \in Int
      BY <2>1 DEF Writing
    <3>2. io' = [io EXCEPT !.left = io.left - 1, !.room = FALSE] /\ FALSE \in BOOLEAN
      BY <1>5 DEF PutByte
    <3> QED BY <2>1, <3>1, <3>2, WritingUpdates, Zenon
  <2> QED BY <2>2, <2>3 DEF UartInv, IoType
<1>6. CASE GetByte
  <2>1. io \in Reading
    BY <1>6, IoByOp DEF GetByte, UartInv
  <2>2. io' \in Reading
    <3>1. io.left - 1 \in Int
      BY <2>1 DEF Reading
    <3>2. io' = [io EXCEPT !.left = io.left - 1, !.any = TRUE] /\ TRUE \in BOOLEAN
      BY <1>6 DEF GetByte
    <3> QED BY <2>1, <3>1, <3>2, ReadingUpdates, Zenon
  <2>3. io'.op # "write"
    BY <2>2 DEF Reading
  <2>4. rx' \in 0 .. RxSize /\ tx' = tx /\ woverflow' = woverflow
    BY <1>6 DEF GetByte, UartInv
  <2> QED BY <2>2, <2>3, <2>4 DEF UartInv, IoType
<1>7. CASE PollEmpty
  <2>1. CASE UNCHANGED <<io, uart>>
    BY <2>1, UartStutter
  <2>2. CASE io' = Idle /\ UNCHANGED uart
    BY <2>2 DEF UartInv, IoType, uart, Idle
  <2> QED BY <1>7, <2>1, <2>2 DEF PollEmpty
<1>8. CASE Return
  BY <1>8 DEF Return, UartInv, IoType, uart, Idle
<1>9. CASE HostTakes
  BY <1>9 DEF HostTakes, UartInv, IoType
<1>10. CASE HostTypes
  BY <1>10 DEF HostTypes, UartInv, IoType
<1> QED BY <1>1, <1>2, <1>3, <1>4, <1>5, <1>6, <1>7, <1>8, <1>9, <1>10 DEF Next, Poll

LEMMA UartInvariant == Spec => []UartInv
BY UartInitially, UartStep, FilesInvariant, PTL DEF Spec

----------------------------------------------------------------------------
(* The table, the state of main and the queues keep their types.           *)
THEOREM FilesTypeCorrect == Spec => []TypeOK
<1>1. FilesInv /\ UartInv => TypeOK
  BY DEF FilesInv, TableType, EntryType, UartInv, TypeOK
<1> QED BY <1>1, FilesInvariant, UartInvariant, PTL

(* Outside the standard streams, exactly main's descriptors are in use:    *)
(* alt_open releases the entry of every open that fails.                   *)
THEOREM DescriptorsDoNotLeak == Spec => []NoDescriptorLeaks
<1>1. FilesInv => NoDescriptorLeaks
  BY DEF FilesInv
<1> QED BY <1>1, FilesInvariant, PTL

(* alt_fd_lock never makes two descriptors of a device exclusive, and a   *)
(* sharer it has overlooked is above the exclusive descriptor.             *)
THEOREM ExclusiveOnce == Spec => []SharerAbove
<1>1. FilesInv => SharerAbove
  BY DEF FilesInv
<1> QED BY <1>1, FilesInvariant, PTL

(* The standard streams are on the console from the start of main.         *)
THEOREM StreamsStayOnConsole == Spec => []ConsoleStays
<1>1. FilesInv => ConsoleStays
  BY DEF FilesInv
<1> QED BY <1>1, FilesInvariant, PTL

(* The driver that polls never writes into a full queue.                   *)
THEOREM PollingLosesNoByte == Spec => []NoByteLost
<1>1. UartInv => NoByteLost
  BY DEF UartInv, NoByteLost
<1> QED BY <1>1, UartInvariant, PTL

----------------------------------------------------------------------------
(* The table as FileTable sees it.                                         *)
Row(fd) == [dev |-> alt_fd_list[fd].dev, acc |-> alt_fd_list[fd].acc]
Rows == [fd \in Descriptor |-> Row(fd)]

LEMMA SameNames ==
  /\ Table!Descriptor = Descriptor /\ Table!Standard = Standard
  /\ Table!Closed = [dev |-> "none", acc |-> "O_RDONLY"]
  /\ Table!Opened = [dev : Devices, acc : Access]
BY DEF Table!Descriptor, Table!Standard, Table!Closed, Table!Opened, Table!Access,
       Descriptor, Access

LEMMA RowsAreRows == \A fd \in Descriptor : Rows[fd] = Row(fd)
BY DEF Rows

(* A row is closed exactly when its entry is free.                         *)
LEMMA ClosedIsFree ==
  ASSUME FilesInv, NEW fd \in Descriptor
  PROVE  (Row(fd) = Table!Closed) <=> Free(fd)
<1>1. CASE Free(fd)
  BY <1>1, SameNames DEF FilesInv, FreeIsReleased, Free, Row, Released, Entry
<1>2. CASE ~Free(fd)
  BY <1>2, SameNames DEF Free, Row
<1> QED BY <1>1, <1>2

(* Where an entry is replaced by one of another device or access mode,     *)
(* just its row is.                                                        *)
LEMMA RowReplaced ==
  ASSUME NEW fd \in Descriptor, NEW e \in EntryType, alt_fd_list \in [Descriptor -> EntryType],
         alt_fd_list' = [alt_fd_list EXCEPT ![fd] = e]
  PROVE  Rows' = [Rows EXCEPT ![fd] = [dev |-> e.dev, acc |-> e.acc]]
<1>1. Rows' = [f \in Descriptor |-> [dev |-> alt_fd_list'[f].dev, acc |-> alt_fd_list'[f].acc]]
  BY DEF Rows, Row
<1>2. \A f \in Descriptor :
        [dev |-> alt_fd_list'[f].dev, acc |-> alt_fd_list'[f].acc]
          = IF f = fd THEN [dev |-> e.dev, acc |-> e.acc] ELSE Row(f)
  BY DEF Row
<1> QED BY <1>1, <1>2 DEF Rows

LEMMA RowsStay ==
  ASSUME alt_fd_list' = alt_fd_list
  PROVE  Rows' = Rows
BY DEF Rows, Row

LEMMA RowsInitially == FilesInv /\ Init => Table!Init
<1> SUFFICES ASSUME FilesInv, Init PROVE Table!Init
    OBVIOUS
<1> DEFINE o == [dev |-> "/dev/null", acc |-> "O_RDONLY"]
<1>1. o \in Table!Opened
  BY SameNames, FilesAssumption DEF Access
<1>2. \A fd \in Descriptor : Row(fd) = IF fd \in Standard THEN o ELSE Table!Closed
  BY SameNames DEF Init, FilesInit, Row, Entry, Released
<1>3. Rows = [fd \in Table!Descriptor |-> IF fd \in Table!Standard THEN o ELSE Table!Closed]
  BY <1>2, SameNames DEF Rows
<1> QED BY <1>1, <1>3 DEF Table!Init, Rows, Row

LEMMA OpenRefines ==
  ASSUME FilesInv, NEW name \in Devices, NEW acc \in Access, NEW nonblock \in BOOLEAN,
         Open(name, acc, nonblock)
  PROVE  Table!Next
<1>1. PICK fd \in Descriptor : alt_open(name, acc, nonblock, fd)
  BY DEF Open
<1> DEFINE e == Entry(name, acc, nonblock, TRUE)
           o == [dev |-> name, acc |-> acc]
<1>2. e \in EntryType /\ o \in Table!Opened /\ e.dev = name /\ e.acc = acc
  BY EntryIsEntry, SameNames
<1>3. Rows' = [Rows EXCEPT ![fd] = o]
  BY <1>1, <1>2, RowReplaced DEF alt_open, FilesInv, TableType
<1>4. Rows[fd] = Table!Closed
  BY <1>1, ClosedIsFree, RowsAreRows DEF alt_open, alt_get_fd
<1>5. ASSUME NEW lower \in 0 .. fd - 1 PROVE Rows[lower] # Table!Closed
  <2>1. lower \in Descriptor
    BY FilesAssumption DEF Descriptor
  <2> QED BY <1>1, <2>1, ClosedIsFree, RowsAreRows DEF alt_open, alt_get_fd
<1>6. Table!Lowest(fd)
  BY <1>4, <1>5 DEF Table!Lowest, Rows, Row
<1> QED BY <1>2, <1>3, <1>6, SameNames DEF Table!Next, Table!Open, Rows, Row

LEMMA CloseRefines ==
  ASSUME FilesInv, NEW fd \in Descriptor, alt_close(fd), phase = "main", fd \in held \cup Standard
  PROVE  Table!Next \/ Rows' = Rows
<1>1. CASE fd \in Standard
  BY <1>1, RowsStay DEF alt_close, alt_release_fd
<1>2. CASE fd \in held
  <2>1. fd \notin Standard /\ fd > 2
    BY <1>2, FilesAssumption DEF FilesInv, TableType, Descriptor
  <2>2. alt_fd_list' = [alt_fd_list EXCEPT ![fd] = Released]
    BY <2>1 DEF alt_close, alt_release_fd
  <2>3. [dev |-> Released.dev, acc |-> Released.acc] = Table!Closed
    BY SameNames DEF Released, Entry
  <2>4. Rows' = [Rows EXCEPT ![fd] = [dev |-> Released.dev, acc |-> Released.acc]]
    <3>1. alt_fd_list \in [Descriptor -> EntryType]
      BY DEF FilesInv, TableType
    <3> QED BY <2>2, <3>1, ReleasedType, RowReplaced
  <2>5. Rows[fd] # Table!Closed
    BY <1>2, <2>1, ClosedIsFree, RowsAreRows DEF FilesInv, NoDescriptorLeaks
  <2> QED BY <2>1, <2>3, <2>4, <2>5, SameNames DEF Table!Next, Table!Close, Rows, Row
<1> QED BY <1>1, <1>2

LEMMA RedirectRefines ==
  ASSUME FilesInv, AltIoRedirect
  PROVE  Table!Next
<1>1. ASSUME NEW standard \in Standard, NEW acc \in Access, Redirected(standard, acc)
      PROVE  Table!Next
  <2> DEFINE e == Entry(Console, acc, FALSE, TRUE)
             o == [dev |-> Console, acc |-> acc]
  <2>1. e \in EntryType /\ o \in Table!Opened /\ e.dev = Console /\ e.acc = acc
    BY EntryIsEntry, SameNames, FilesAssumption
  <2>2. Rows' = [Rows EXCEPT ![standard] = o]
    BY <1>1, <2>1, StandardIn, RowReplaced DEF Redirected, FilesInv, TableType
  <2>3. \A fd \in Descriptor \ Standard : Rows[fd] = Table!Closed
    <3>1. Released.dev = "none"
      BY DEF Released, Entry
    <3> QED BY <1>1, <3>1, ClosedIsFree, RowsAreRows DEF Free, Redirected
  <2> QED BY <2>1, <2>2, <2>3, SameNames DEF Table!Next, Table!Redirect, Rows, Row
<1>2. CASE Redirect("stdout", "stdin", 1, "O_WRONLY")
  <2>1. "O_WRONLY" \in Access /\ 1 \in Standard
    BY DEF Access
  <2>2. Redirected(1, "O_WRONLY")
    BY <1>2, <2>1, RedirectKeeps DEF Booting
  <2> QED BY <1>1, <2>1, <2>2
<1>3. CASE Redirect("stdin", "stderr", 0, "O_RDONLY")
  <2>1. "O_RDONLY" \in Access /\ 0 \in Standard
    BY DEF Access
  <2>2. Redirected(0, "O_RDONLY")
    BY <1>3, <2>1, RedirectKeeps DEF Booting
  <2> QED BY <1>1, <2>1, <2>2
<1>4. CASE Redirect("stderr", "main", 2, "O_WRONLY")
  <2>1. "O_WRONLY" \in Access /\ 2 \in Standard
    BY DEF Access
  <2>2. Redirected(2, "O_WRONLY")
    BY <1>4, <2>1, RedirectKeeps DEF Booting
  <2> QED BY <1>1, <2>1, <2>2
<1> QED BY <1>2, <1>3, <1>4 DEF AltIoRedirect

(* Locks and O_NONBLOCK are not in the rows.                               *)
LEMMA FlagsRefine ==
  ASSUME FilesInv, NEW fd \in Descriptor, NEW nonblock \in BOOLEAN,
         alt_fd_lock(fd) \/ alt_fd_unlock(fd) \/ alt_fcntl(fd, nonblock)
  PROVE  Rows' = Rows
<1>1. alt_fd_list \in [Descriptor -> EntryType]
  BY DEF FilesInv, TableType
<1>2. ASSUME NEW f \in Descriptor
      PROVE  alt_fd_list'[f].dev = alt_fd_list[f].dev /\ alt_fd_list'[f].acc = alt_fd_list[f].acc
  BY <1>1 DEF alt_fd_lock, alt_fd_unlock, alt_fcntl, EntryType
<1> QED BY <1>2 DEF Rows, Row

LEMMA RowsStep == FilesInv /\ [Next]_vars => [Table!Next]_Rows
<1> SUFFICES ASSUME FilesInv, [Next]_vars PROVE Table!Next \/ Rows' = Rows
    OBVIOUS
<1>1. CASE UNCHANGED vars \/ AltSysInit \/ Exit \/ Poll \/ HostTakes \/ HostTypes
  <2>1. alt_fd_list' = alt_fd_list
    BY <1>1 DEF vars, files, AltSysInit, alt_dev_reg, Exit, Poll, PollRoom, PutByte, GetByte,
       PollEmpty, Return, HostTakes, HostTypes
  <2> QED BY <2>1, RowsStay
<1>2. CASE AltIoRedirect
  BY <1>2, RedirectRefines
<1>3. CASE MainReturns
  BY <1>3, CloseRefines, StandardIn DEF MainReturns
<1>4. CASE Call
  <2>1. ASSUME NEW name \in Devices \cup {"/dev/none"}, OpenFails(name)
        PROVE  Rows' = Rows
    BY <2>1, OpenFailsKeeps, RowsStay DEF OpenFails
  <2>2. ASSUME NEW name \in Devices \cup {"/dev/none"}, NEW m \in Modes, Open(name, m[1], m[2])
        PROVE  Table!Next
    <3>1. m[1] \in Access /\ m[2] \in BOOLEAN
      BY NiosAssumption
    <3>2. name \in Devices
      BY <2>2 DEF Open, alt_open, FilesInv, TableType
    <3> QED BY <2>2, <3>1, <3>2, OpenRefines
  <2>3. ASSUME NEW fd \in Usable,
               \/ Close(fd) \/ Ioctl(fd)
               \/ fd \in Tunable /\ \E n \in BOOLEAN : Fcntl(fd, n)
               \/ \E count \in 0 .. MaxCount : Write(fd, count) \/ Read(fd, count)
        PROVE  Table!Next \/ Rows' = Rows
    <3>1. fd \in Descriptor /\ fd \in held \cup Standard
      BY StandardIn DEF Usable, FilesInv, TableType
    <3>2. CASE Close(fd)
      BY <3>1, <3>2, CloseRefines DEF Close, Calls
    <3>3. CASE Ioctl(fd)
      BY <3>1, <3>3, FlagsRefine DEF Ioctl
    <3>4. CASE \E n \in BOOLEAN : Fcntl(fd, n)
      BY <3>1, <3>4, FlagsRefine DEF Fcntl
    <3>5. CASE \E count \in 0 .. MaxCount : Write(fd, count) \/ Read(fd, count)
      BY <3>5, RowsStay DEF Write, Read, files
    <3> QED BY <2>3, <3>2, <3>3, <3>4, <3>5
  <2> QED BY <1>4, <2>1, <2>2, <2>3 DEF Call
<1> QED BY <1>1, <1>2, <1>3, <1>4 DEF Next

(* alt_open, alt_close, alt_io_redirect and the calls that change flags    *)
(* implement the table of descriptors of FileTable.                        *)
THEOREM FilesImplementTable == Spec => ImplementsTable
<1>1. FilesInv /\ Init => Table!Init
  BY RowsInitially
<1>2. FilesInv /\ [Next]_vars => [Table!Next]_Rows
  BY RowsStep
<1> QED BY <1>1, <1>2, FilesInvariant, PTL DEF Spec, ImplementsTable, Table!Spec, Rows, Row

----------------------------------------------------------------------------
(* A free entry stays free, but where alt_open takes it.                   *)
LEMMA FreeStays ==
  ASSUME FilesInv, [Next]_vars, NEW other \in Descriptor, Free(other)
  PROVE  \/ alt_fd_list'[other].dev = "none"
         \/ \E name \in Devices : ~alt_file_locked(other, name) /\ alt_fd_list'[other].dev = name
<1> USE FilesAssumption
<1>1. other \notin Standard /\ alt_fd_list[other].dev = "none"
  BY DEF FilesInv, FreeIsReleased, Free
<1>2. alt_fd_list \in [Descriptor -> EntryType]
  BY DEF FilesInv, TableType
<1>3. CASE alt_fd_list' = alt_fd_list
  BY <1>1, <1>3
<1>4. CASE AltIoRedirect
  <2>1. ASSUME NEW standard \in Standard, NEW acc \in Access, Redirected(standard, acc)
        PROVE  alt_fd_list'[other].dev = "none"
    BY <1>1, <1>2, <2>1 DEF Redirected
  <2>2. CASE Redirect("stdout", "stdin", 1, "O_WRONLY")
    BY <2>1, <2>2, RedirectKeeps DEF Booting, Access
  <2>3. CASE Redirect("stdin", "stderr", 0, "O_RDONLY")
    BY <2>1, <2>3, RedirectKeeps DEF Booting, Access
  <2>4. CASE Redirect("stderr", "main", 2, "O_WRONLY")
    BY <2>1, <2>4, RedirectKeeps DEF Booting, Access
  <2> QED BY <1>4, <2>2, <2>3, <2>4 DEF AltIoRedirect
<1>5. ASSUME NEW fd \in Descriptor, alt_close(fd)
      PROVE  alt_fd_list'[other].dev = "none"
  <2>1. Released.dev = "none"
    BY DEF Released, Entry
  <2> QED BY <1>1, <1>2, <1>5, <2>1 DEF alt_close, alt_release_fd
<1>6. ASSUME NEW fd \in Descriptor, NEW nonblock \in BOOLEAN,
             alt_fd_lock(fd) \/ alt_fd_unlock(fd) \/ alt_fcntl(fd, nonblock)
      PROVE  alt_fd_list'[other].dev = "none"
  BY <1>1, <1>2, <1>6 DEF alt_fd_lock, alt_fd_unlock, alt_fcntl, EntryType
<1>7. ASSUME NEW name \in Devices \cup {"/dev/none"}, NEW m \in Modes, Open(name, m[1], m[2])
      PROVE  \/ alt_fd_list'[other].dev = "none"
             \/ /\ name \in Devices /\ ~alt_file_locked(other, name)
                /\ alt_fd_list'[other].dev = name
  <2>1. PICK fd \in Descriptor : alt_open(name, m[1], m[2], fd)
    BY <1>7 DEF Open
  <2>2. Entry(name, m[1], m[2], TRUE).dev = name
    BY DEF Entry
  <2>3. name \in Devices
    BY <2>1 DEF alt_open, FilesInv, TableType
  <2>4. alt_fd_list'[other] = IF other = fd THEN Entry(name, m[1], m[2], TRUE) ELSE alt_fd_list[other]
    BY <1>2, <2>1 DEF alt_open
  <2> QED BY <1>1, <2>1, <2>2, <2>3, <2>4 DEF alt_open
<1>8. CASE Call
  <2>1. CASE \E name \in Devices \cup {"/dev/none"} : OpenFails(name)
    BY <1>3, <2>1, OpenFailsKeeps DEF OpenFails
  <2>2. CASE \E name \in Devices \cup {"/dev/none"} : \E m \in Modes : Open(name, m[1], m[2])
    BY <1>7, <2>2
  <2>3. ASSUME NEW fd \in Usable,
               \/ Close(fd) \/ Ioctl(fd)
               \/ fd \in Tunable /\ \E n \in BOOLEAN : Fcntl(fd, n)
        PROVE  alt_fd_list'[other].dev = "none"
    <3>1. fd \in Descriptor
      BY StandardIn DEF Usable, FilesInv, TableType
    <3> QED BY <1>5, <1>6, <2>3, <3>1 DEF Close, Ioctl, Fcntl
  <2>4. CASE \E fd \in Usable : \E count \in 0 .. MaxCount : Write(fd, count) \/ Read(fd, count)
    BY <1>3, <2>4 DEF Write, Read, files
  <2> QED BY <1>8, <2>1, <2>2, <2>3, <2>4 DEF Call
<1>9. CASE MainReturns
  BY <1>5, <1>9, StandardIn DEF MainReturns
<1>10. CASE UNCHANGED vars \/ AltSysInit \/ Exit \/ Poll \/ HostTakes \/ HostTypes
  BY <1>3, <1>10 DEF vars, files, AltSysInit, alt_dev_reg, Exit, Poll, PollRoom, PutByte, GetByte,
     PollEmpty, Return, HostTakes, HostTypes
<1> QED BY <1>4, <1>8, <1>9, <1>10 DEF Next

(* While a descriptor is exclusive, alt_open refuses its device.           *)
THEOREM ExclusiveMeansRefused == Spec => NoOpenWhileExclusive
<1> DEFINE Refused == \A fd \in Descriptor :
                        alt_fd_list[fd].excl =>
                          \A other \in Descriptor :
                            Free(other) => alt_fd_list'[other].dev # alt_fd_list[fd].dev
<1>1. FilesInv /\ [Next]_vars => Refused
  <2> SUFFICES ASSUME FilesInv, [Next]_vars, NEW fd \in Descriptor, alt_fd_list[fd].excl,
                      NEW other \in Descriptor, Free(other)
               PROVE  alt_fd_list'[other].dev # alt_fd_list[fd].dev
    OBVIOUS
  <2>1. ~Free(fd) /\ fd # other
    BY DEF FilesInv, FreeIsReleased, Released, Entry
  <2>2. ASSUME NEW name \in Devices, ~alt_file_locked(other, name)
        PROVE  alt_fd_list[fd].dev # name
    <3>1. alt_max_fd \in Int /\ other \in Int /\ other > 2
      BY FilesAssumption DEF FilesInv, TableType, FreeIsReleased, Descriptor
    <3>2. fd \in 0 .. MaxWith(other)
      BY <2>1, <3>1, FilesAssumption DEF FilesInv, InUseBelow, MaxWith, Descriptor
    <3> QED BY <2>1, <2>2, <3>2 DEF alt_file_locked
  <2> QED BY <2>1, <2>2, FreeStays DEF Free
<1> QED BY <1>1, FilesInvariant, PTL DEF Spec, NoOpenWhileExclusive
----------------------------------------------------------------------------
(* The list of alarms.                                                     *)

Boots  == {"alt_irq_init", "alt_avalon_timer_sc_init", "alt_iic_isr_register", "up"}
Stages == {"disable", "time", "entry", "links", "restore"}
Calling ==
  [op : {"start", "stop"}, alarm : Alarms, delay : Delays \cup {0}, at : Stages,
   context : BOOLEAN]

Item == Alarms \cup {Head}
Link == Item \cup {Null}

TimeType ==
  /\ next \in [Item -> Link] /\ previous \in [Item -> Link]
  /\ call \in {NoCall} \cup Calling
  /\ isr \in [at : {"none", "acknowledge", "alt_tick", "walk"}, alarm : Item]
  /\ pie \in BOOLEAN
  /\ boot \in Boots

(* Interrupts are off, and none runs, from the time main turned them off   *)
(* to the end of its call. Calls and interrupts come after the start.      *)
Alone ==
  /\ isr.at = "none" => isr.alarm = Head
  /\ isr.at # "none" => ~pie
  /\ call # NoCall /\ call.at # "disable" => ~pie /\ isr.at = "none"
  /\ call # NoCall \/ isr.at # "none" \/ ienable => boot = "up"

(* Both links of a node stay in the list, and each undoes the other.       *)
Ring ==
  \A x \in Nodes : /\ next[x] \in Nodes /\ previous[next[x]] = x
                   /\ previous[x] \in Nodes /\ next[previous[x]] = x

(* What a walk meets is the whole list.                                    *)
Closed(met) == Head \in met /\ \A x \in met : next[x] \in met
Whole == \A met \in SUBSET Nodes : Closed(met) => met = Nodes

(* An alarm outside the list was never in it, or points to itself, or is   *)
(* the one that main is inserting or removing.                             *)
InFlight(a) ==
  /\ call # NoCall /\ call.alarm = a
  /\ \/ call.op = "start" /\ call.at = "links"
     \/ call.op = "stop"  /\ call.at = "entry"
Outside ==
  \A a \in Alarms \ Nodes :
    \/ next[a] = Null /\ previous[a] = Null
    \/ next[a] = a /\ previous[a] = a
    \/ InFlight(a)

(* How far main's insertion or removal is.                                 *)
Started(a) ==
  /\ call.at # "restore" => a \notin Nodes
  /\ call.at = "links" => previous[a] = Head /\ next[a] = next[Head]
Stopped(a) ==
  /\ call.at # "time"
  /\ call.at \in {"disable", "links"} => next[a] # Null
  /\ call.at = "entry" => a \notin Nodes
Caller ==
  /\ call # NoCall /\ call.op = "start" => Started(call.alarm)
  /\ call # NoCall /\ call.op = "stop"  => Stopped(call.alarm)

Walker == isr.at = "walk" => isr.alarm \in Nodes

Linked == Ring /\ Whole
TimeInv == TimeType /\ Alone /\ Linked /\ Outside /\ Caller /\ Walker

----------------------------------------------------------------------------
LEMMA Names == Head \notin Alarms /\ Null \notin Item /\ Nodes \subseteq Item /\ Head \in Nodes
BY AlarmsAssumption DEF Item, Nodes, Head, Null

LEMMA Members ==
  /\ \A a \in Alarms : a \in Nodes <=> Listed(a)
  /\ \A a \in Nodes : a # Head => a \in Alarms
BY AlarmsAssumption DEF Nodes

(* Only the head may follow itself, and only it may be on both sides of an *)
(* alarm: the rest would be a list without it.                             *)
LEMMA NoSmallRing ==
  ASSUME TimeType, Linked, NEW a \in Nodes, a # Head
  PROVE  next[a] # a /\ previous[a] # a /\ (next[a] = previous[a] => next[a] = Head)
<1>1. next[a] # a
  <2>1. SUFFICES ASSUME next[a] = a PROVE FALSE
    OBVIOUS
  <2>2. Closed(Nodes \ {a})
    BY <2>1, Names DEF Linked, Ring, Closed
  <2> QED BY <2>2 DEF Linked, Whole
<1>2. previous[a] # a
  BY <1>1 DEF Linked, Ring
<1>3. ASSUME next[a] = previous[a], next[a] # Head PROVE FALSE
  <2>1. Closed(Nodes \ {a, next[a]})
    BY <1>3, Names DEF Linked, Ring, Closed
  <2> QED BY <2>1 DEF Linked, Whole
<1> QED BY <1>1, <1>2, <1>3

(* Writing into an alarm outside the list leaves the list alone.           *)
LEMMA OutsideWrite ==
  ASSUME TimeType, Linked, NEW a \in Alarms, a \notin Nodes,
         \A x \in Item \ {a} : next'[x] = next[x] /\ previous'[x] = previous[x],
         next'[a] \in Nodes \cup {a, Null}, previous'[a] \in Nodes \cup {a, Null}
  PROVE  Nodes' = Nodes /\ Linked'
<1> USE Names
<1>1. a # Head /\ a # Null /\ a \in Item
  BY AlarmsAssumption DEF Item
<1>2. \A x \in Nodes : /\ next[x] \in Nodes /\ next'[x] = next[x]
                       /\ previous[x] \in Nodes /\ previous'[x] = previous[x]
  BY DEF Linked, Ring
<1>3. ~Listed(a)'
  BY <1>1, <1>2 DEF Listed
<1>4. ASSUME NEW b \in Alarms, b # a PROVE Listed(b)' <=> Listed(b)
  <2>1. b \in Item /\ previous'[b] = previous[b] /\ previous[b] \in Link
    BY <1>4 DEF Item, TimeType
  <2>2. CASE previous[b] = a
    <3>1. ~Listed(b)
      BY <1>2, <2>2, Members, <1>4
    <3>2. next'[a] # b
      BY <3>1, <1>4, Members, AlarmsAssumption
    <3> QED BY <2>1, <2>2, <3>1, <3>2 DEF Listed
  <2>3. CASE previous[b] # a
    BY <2>1, <2>3 DEF Listed, Link
  <2> QED BY <2>2, <2>3
<1>5. Nodes' = Nodes
  BY <1>3, <1>4, Members DEF Nodes
<1>6. Ring'
  BY <1>2, <1>5 DEF Linked, Ring
<1>7. Whole'
  BY <1>2, <1>5 DEF Linked, Whole, Closed
<1> QED BY <1>5, <1>6, <1>7 DEF Linked

(* alt_llist_insert puts an alarm behind the head.                         *)
LEMMA Inserted ==
  ASSUME TimeType, Linked, NEW a \in Alarms, a \notin Nodes,
         next[a] = next[Head], previous[a] = Head, InsertLinks(a)
  PROVE  Nodes' = Nodes \cup {a} /\ Linked'
<1> USE Names
<1> DEFINE first == next[Head]
<1>1. a # Head /\ a \in Item /\ first \in Nodes /\ first # a
  BY AlarmsAssumption DEF Item, Linked, Ring
<1>2. /\ \A x \in Item : next'[x] = IF x = Head THEN a ELSE next[x]
      /\ \A x \in Item : previous'[x] = IF x = first THEN a ELSE previous[x]
  BY <1>1 DEF InsertLinks, TimeType
<1>3. Listed(a)'
  BY <1>1, <1>2, AlarmsAssumption DEF Listed, Item
<1>4. ASSUME NEW b \in Alarms, b # a PROVE Listed(b)' <=> Listed(b)
  <2>1. b \in Item /\ b # Head /\ previous[b] \in Link
    BY <1>4 DEF Item, TimeType
  <2>2. CASE b = first
    <3>1. Listed(b)
      BY <2>1, <2>2, <1>1, Members
    <3>2. previous'[b] = a /\ next'[a] = b
      BY <1>1, <1>2, <2>1, <2>2
    <3> QED BY <3>1, <3>2, <1>1, <1>4 DEF Listed
  <2>3. CASE b # first
    <3>1. previous'[b] = previous[b]
      BY <1>2, <2>1, <2>3
    <3>2. CASE previous[b] = Head
      BY <1>2, <2>3, <3>1, <3>2, <1>4 DEF Listed
    <3>3. CASE previous[b] # Head
      BY <1>2, <2>1, <3>1, <3>3 DEF Listed, Link
    <3> QED BY <3>2, <3>3
  <2> QED BY <2>2, <2>3
<1>5. Nodes' = Nodes \cup {a}
  BY <1>3, <1>4, Members DEF Nodes
<1>6. Ring'
  <2>1. \A x \in Nodes : /\ next[x] \in Nodes /\ previous[next[x]] = x /\ x \in Item
                         /\ previous[x] \in Nodes /\ next[previous[x]] = x
    BY DEF Linked, Ring
  <2>2. next'[a] = first /\ previous'[a] = Head /\ previous'[first] = a /\ next'[Head] = a
    BY <1>1, <1>2
  <2>3. \A x \in Nodes : next[x] = first => x = Head
    BY <2>1
  <2> QED BY <1>1, <1>2, <1>5, <2>1, <2>2, <2>3 DEF Ring
<1>7. Whole'
  <2>1. SUFFICES ASSUME NEW met \in SUBSET (Nodes \cup {a}),
                        Head \in met, \A x \in met : next'[x] \in met
                 PROVE  met = Nodes \cup {a}
    BY <1>5 DEF Whole, Closed
  <2>2. a \in met /\ first \in met
    BY <2>1, <1>1, <1>2
  <2>3. Closed(met \ {a})
    <3>1. ASSUME NEW x \in met \ {a}, x # Head PROVE next[x] \in met \ {a}
      BY <2>1, <1>1, <1>2, <3>1 DEF Linked, Ring
    <3> QED BY <1>1, <2>1, <2>2, <3>1 DEF Closed
  <2> QED BY <2>2, <2>3 DEF Linked, Whole
<1> QED BY <1>5, <1>6, <1>7 DEF Linked

(* alt_llist_remove and alt_alarm_stop join the neighbours of an alarm.    *)
LEMMA Removed ==
  ASSUME TimeType, Linked, NEW a \in Alarms, a \in Nodes,
         \A x \in Item \ {a} :
           /\ next'[x] = IF x = previous[a] THEN next[a] ELSE next[x]
           /\ previous'[x] = IF x = next[a] THEN previous[a] ELSE previous[x],
         next'[a] \in {a, next[a]}, previous'[a] \in {a, previous[a]}
  PROVE  Nodes' = Nodes \ {a} /\ Linked'
<1> USE Names
<1> DEFINE before == previous[a]
           after  == next[a]
<1>1. /\ a # Head /\ a \in Item /\ a # Null
      /\ before \in Nodes /\ after \in Nodes /\ before # a /\ after # a
      /\ (before = after => before = Head)
  BY AlarmsAssumption, NoSmallRing DEF Item, Linked, Ring
<1>2. \A x \in Nodes : /\ next[x] \in Nodes /\ previous[next[x]] = x /\ x \in Item
                       /\ previous[x] \in Nodes /\ next[previous[x]] = x
  BY DEF Linked, Ring
<1>3. next'[before] = after /\ previous'[after] = before
  BY <1>1, <1>2
<1>4. ~Listed(a)'
  BY <1>1, <1>3 DEF Listed
<1>5. ASSUME NEW b \in Alarms, b # a PROVE Listed(b)' <=> Listed(b)
  <2>1. b \in Item /\ b # Head /\ b # Null /\ previous[b] \in Link
    BY <1>5, AlarmsAssumption DEF Item, TimeType
  <2>2. CASE b = after
    <3>1. Listed(b)
      BY <2>1, <2>2, <1>1, Members
    <3>2. before # b /\ before # Null
      BY <1>1, <2>1, <2>2
    <3> QED BY <3>1, <3>2, <1>3, <2>2 DEF Listed
  <2>3. CASE b # after
    <3>1. previous'[b] = previous[b]
      BY <1>5, <2>1, <2>3
    <3>2. CASE b \in Nodes
      <4>1. Listed(b) /\ previous[b] # before /\ previous[b] # a /\ previous[b] \in Item
        BY <1>1, <1>2, <1>5, <2>1, <2>3, <3>2, Members
      <4>2. next'[previous[b]] = next[previous[b]]
        BY <4>1
      <4> QED BY <3>1, <4>1, <4>2 DEF Listed
    <3>3. CASE b \notin Nodes
      <4>1. ~Listed(b)
        BY <3>3, Members
      <4>2. CASE previous[b] = a
        BY <1>1, <1>5, <3>1, <3>3, <4>1, <4>2 DEF Listed
      <4>3. CASE previous[b] = before
        BY <1>1, <1>3, <3>1, <3>3, <4>1, <4>3 DEF Listed
      <4>4. CASE previous[b] # a /\ previous[b] # before
        BY <2>1, <3>1, <4>1, <4>4 DEF Listed, Link
      <4> QED BY <4>2, <4>3, <4>4
    <3> QED BY <3>2, <3>3
  <2> QED BY <2>2, <2>3
<1>6. Nodes' = Nodes \ {a}
  BY <1>1, <1>4, <1>5, Members DEF Nodes
<1>7. Ring'
  <2>1. \A x \in Nodes : /\ next[x] = a => x = before
                         /\ previous[x] = a => x = after
                         /\ next[x] = after => x = a
                         /\ previous[x] = before => x = a
    BY <1>1, <1>2
  <2>2. ASSUME NEW x \in Nodes \ {a}
        PROVE  next'[x] \in Nodes \ {a} /\ previous'[next'[x]] = x
    BY <1>1, <1>2, <1>3, <2>1
  <2>3. ASSUME NEW x \in Nodes \ {a}
        PROVE  previous'[x] \in Nodes \ {a} /\ next'[previous'[x]] = x
    BY <1>1, <1>2, <1>3, <2>1
  <2> QED BY <1>6, <2>2, <2>3 DEF Ring
<1>8. Whole'
  <2>1. SUFFICES ASSUME NEW met \in SUBSET (Nodes \ {a}),
                        Head \in met, \A x \in met : next'[x] \in met
                 PROVE  met = Nodes \ {a}
    BY <1>6 DEF Whole, Closed
  <2>2. \A x \in met : x \in Item \ {a} /\ x \in Nodes
    BY <2>1
  <2>3. CASE before \in met
    <3>1. after \in met
      BY <1>3, <2>1, <2>3
    <3>2. Closed(met \cup {a})
      BY <1>2, <2>1, <2>2, <3>1 DEF Closed
    <3> QED BY <1>1, <3>2, <2>1 DEF Linked, Whole
  <2>4. CASE before \notin met
    <3>1. Closed(met)
      BY <2>1, <2>2, <2>4 DEF Closed
    <3> QED BY <1>1, <2>4, <3>1, <2>1 DEF Linked, Whole
  <2> QED BY <2>3, <2>4
<1> QED BY <1>6, <1>7, <1>8 DEF Linked

----------------------------------------------------------------------------
LEMMA TimeInitially == TimeInit => TimeInv
<1> SUFFICES ASSUME TimeInit PROVE TimeInv
  OBVIOUS
<1> USE Names
<1>1. TimeType /\ Alone
  BY DEF TimeInit, TimeType, Alone, NoInterrupt, NoCall, Item, Link, Boots, irqs
<1>2. /\ \A x \in Item : next[x] = IF x = Head THEN Head ELSE Null
      /\ previous = next
  BY DEF TimeInit, Item
<1>3. Nodes = {Head}
  BY <1>2 DEF Nodes, Listed, Item
<1>4. Linked
  BY <1>2, <1>3 DEF Linked, Ring, Whole, Closed, Item
<1>5. Outside /\ Caller /\ Walker
  BY <1>2, <1>3 DEF TimeInit, Outside, Caller, Walker, NoInterrupt, Item
<1> QED BY <1>1, <1>4, <1>5 DEF TimeInv

(* Steps that leave the links alone.                                       *)
LEMMA SameLinks ==
  ASSUME UNCHANGED <<next, previous>>
  PROVE  Nodes' = Nodes /\ (Linked => Linked')
BY DEF Nodes, Listed, Linked, Ring, Whole, Closed

LEMMA TimeStutter == TimeInv /\ UNCHANGED timeVars => TimeInv'
<1> SUFFICES ASSUME TimeInv, UNCHANGED timeVars PROVE TimeInv'
  OBVIOUS
<1>1. UNCHANGED <<next, previous, call, isr, pie, boot, ienable>>
  BY DEF timeVars, list, irqs
<1>2. Nodes' = Nodes /\ Linked'
  BY <1>1, SameLinks DEF TimeInv
<1> QED BY <1>1, <1>2 DEF TimeInv, TimeType, Alone, Outside, InFlight, Caller, Started, Stopped,
     Walker

(* The start of the system clock, and the timer.                           *)
LEMMA BootKeeps == TimeInv /\ (Boot \/ Expire) => TimeInv'
<1> SUFFICES ASSUME TimeInv, Boot \/ Expire PROVE TimeInv'
  OBVIOUS
<1>1. UNCHANGED <<next, previous, call, isr>>
  BY DEF Boot, alt_irq_init, alt_avalon_timer_sc_init, alt_iic_isr_register, BootStep, Expire, list
<1>2. Nodes' = Nodes /\ Linked'
  BY <1>1, SameLinks DEF TimeInv
<1>3. TimeType'
  BY <1>1 DEF Boot, alt_irq_init, alt_avalon_timer_sc_init, alt_iic_isr_register, BootStep,
     Expire, TimeInv, TimeType, Boots
<1>4. Alone'
  BY <1>1 DEF Boot, alt_irq_init, alt_avalon_timer_sc_init, alt_iic_isr_register, BootStep,
     Expire, TimeInv, Alone
<1>5. Outside' /\ Caller' /\ Walker'
  BY <1>1, <1>2 DEF TimeInv, Outside, InFlight, Caller, Started, Stopped, Walker
<1> QED BY <1>2, <1>3, <1>4, <1>5 DEF TimeInv

(* The interrupt: main is not between the writes of a call.                *)
LEMMA Quiet ==
  ASSUME TimeInv, isr.at # "none" \/ pie
  PROVE  call = NoCall \/ call.at = "disable"
BY DEF TimeInv, Alone

IsrType == [at : {"none", "acknowledge", "alt_tick", "walk"}, alarm : Item]

LEMMA IsrMoves ==
  ASSUME TimeInv, isr.at # "none" \/ pie, boot = "up",
         UNCHANGED <<next, previous, call, boot>>,
         isr' \in IsrType, pie' \in BOOLEAN, isr'.at # "none" => ~pie',
         isr'.at = "none" => isr'.alarm = Head, isr'.at = "walk" => isr'.alarm \in Nodes
  PROVE  TimeInv'
<1>1. TimeType /\ Alone /\ Linked /\ Outside /\ Caller
  BY DEF TimeInv
<1>2. Nodes' = Nodes /\ Linked'
  BY <1>1, SameLinks
<1>3. call = NoCall \/ call.at = "disable"
  BY Quiet
<1>4. TimeType' /\ Alone'
  BY <1>1, <1>3 DEF TimeType, Alone, IsrType
<1>5. Outside' /\ Caller' /\ Walker'
  BY <1>1, <1>2 DEF Outside, InFlight, Caller, Started, Stopped, Walker
<1> QED BY <1>2, <1>4, <1>5 DEF TimeInv

LEMMA InterruptMoves ==
  ASSUME TimeInv, TakeInterrupt \/ Acknowledge \/ alt_tick \/ Leave
  PROVE  TimeInv'
<1>1. TimeType /\ Alone /\ Linked /\ Walker /\ isr \in IsrType
  BY DEF TimeInv, TimeType, IsrType
<1>2. UNCHANGED <<next, previous, call, boot>>
  BY DEF TakeInterrupt, Acknowledge, alt_tick, Leave, list
<1>3. Head \in Item /\ Head \in Nodes
  BY Names DEF Item
<1>4. CASE TakeInterrupt
  <2>1. pie /\ boot = "up" /\ pie' = FALSE
    BY <1>1, <1>4 DEF TakeInterrupt, Pending, Alone
  <2>2. isr' \in IsrType /\ isr'.at = "acknowledge"
    BY <1>3, <1>4 DEF TakeInterrupt, NoInterrupt, IsrType
  <2> QED BY <1>2, <2>1, <2>2, IsrMoves
<1>5. CASE Acknowledge
  <2>1. isr.at = "acknowledge" /\ boot = "up" /\ ~pie /\ pie' = pie
    BY <1>1, <1>5 DEF Acknowledge, Alone
  <2>2. isr' \in IsrType /\ isr'.at = "alt_tick"
    BY <1>1, <1>5 DEF Acknowledge, IsrType
  <2> QED BY <1>1, <1>2, <2>1, <2>2, IsrMoves DEF TimeType
<1>6. CASE alt_tick
  <2>1. isr.at = "alt_tick" /\ boot = "up" /\ ~pie /\ pie' = pie
    BY <1>1, <1>6 DEF alt_tick, Alone
  <2>2. next[Head] \in Nodes /\ next[Head] \in Item
    BY <1>1, <1>3, Names DEF Linked, Ring
  <2>3. isr' \in IsrType /\ isr'.at = "walk" /\ isr'.alarm \in Nodes
    BY <1>6, <2>2 DEF alt_tick, IsrType
  <2> QED BY <1>1, <1>2, <2>1, <2>3, IsrMoves DEF TimeType
<1>7. CASE Leave
  <2>1. isr.at = "walk" /\ isr.alarm = Head /\ boot = "up"
    BY <1>1, <1>7 DEF Leave, Alone
  <2>2. isr' \in IsrType /\ isr'.alarm = Head /\ isr'.at # "walk" /\ pie' \in BOOLEAN
    BY <1>1, <1>7, <2>1 DEF Leave, IsrType
  <2>3. isr'.at # "none" => ~pie'
    BY <1>1, <1>7 DEF Leave, IsrType
  <2> QED BY <1>2, <2>1, <2>2, <2>3, IsrMoves
<1> QED BY <1>4, <1>5, <1>6, <1>7

(* The alarm that the walk looks at is in the list.                        *)
LEMMA InWalk ==
  ASSUME TimeInv, NEW a \in Alarms, Walking(a)
  PROVE  /\ a \in Item /\ a # Head /\ a \in Nodes /\ isr.at = "walk" /\ a = isr.alarm
         /\ next[a] \in Nodes /\ next[a] \in Item /\ next[a] # a
         /\ previous[a] \in Nodes /\ previous[a] \in Item /\ previous[a] # a
         /\ boot = "up" /\ ~pie /\ (call = NoCall \/ call.at = "disable")
<1> USE Names
<1>1. TimeType /\ Alone /\ Linked /\ Walker /\ a \in Item /\ a # Head
  BY AlarmsAssumption DEF TimeInv, Item
<1>2. isr.at = "walk" /\ a = isr.alarm
  BY DEF Walking
<1> QED BY <1>1, <1>2, NoSmallRing, Quiet DEF Walker, Linked, Ring, Alone

LEMMA RingRemoves ==
  ASSUME TimeInv, NEW a \in Alarms, RingLast(a)
  PROVE  /\ next' \in [Item -> Link] /\ previous' \in [Item -> Link]
         /\ \A x \in Item \ {a} :
              /\ next'[x] = IF x = previous[a] THEN next[a] ELSE next[x]
              /\ previous'[x] = IF x = next[a] THEN previous[a] ELSE previous[x]
         /\ next'[a] = a /\ previous'[a] = a
         /\ Nodes' = Nodes \ {a} /\ Linked'
<1>1. TimeType /\ Linked /\ Walking(a)
  BY DEF TimeInv, RingLast
<1>2. /\ next' = [[next EXCEPT ![previous[a]] = next[a]] EXCEPT ![a] = a]
      /\ previous' = [[previous EXCEPT ![next[a]] = previous[a]] EXCEPT ![a] = a]
  BY DEF RingLast, Detached
<1>3. /\ next' \in [Item -> Link] /\ previous' \in [Item -> Link]
      /\ \A x \in Item \ {a} :
           /\ next'[x] = IF x = previous[a] THEN next[a] ELSE next[x]
           /\ previous'[x] = IF x = next[a] THEN previous[a] ELSE previous[x]
      /\ next'[a] = a /\ previous'[a] = a
  BY <1>1, <1>2, InWalk DEF TimeType, Link
<1>4. Nodes' = Nodes \ {a} /\ Linked'
  BY <1>1, <1>3, InWalk, Removed
<1> QED BY <1>3, <1>4

(* The walk: an alarm stays, or the one that has rung leaves the list.     *)
LEMMA WalkKeeps ==
  ASSUME TimeInv, NEW a \in Alarms,
         Pass(a) \/ RingLast(a) \/ \E n \in Periods : RingAgain(a, n)
  PROVE  TimeInv'
<1> USE Names
<1>1. TimeType /\ Alone /\ Linked /\ Outside /\ Caller /\ Walker /\ isr \in IsrType /\ Walking(a)
  BY DEF TimeInv, TimeType, IsrType, Pass, RingLast, RingAgain
<1>2. UNCHANGED <<call, boot, pie>> /\ isr' = [isr EXCEPT !.alarm = next[a]]
  BY <1>1 DEF Walking
<1>3. /\ a \in Nodes /\ next[a] \in Nodes /\ next[a] \in Item /\ next[a] # a
      /\ previous[a] \in Nodes
      /\ boot = "up" /\ ~pie /\ (call = NoCall \/ call.at = "disable") /\ isr.at = "walk"
  BY <1>1, InWalk
<1>4. isr' \in IsrType /\ isr'.at = "walk" /\ isr'.alarm = next[a]
  BY <1>1, <1>2, <1>3 DEF IsrType
<1>5. CASE Pass(a) \/ \E n \in Periods : RingAgain(a, n)
  <2>1. UNCHANGED <<next, previous>>
    BY <1>5 DEF Pass, RingAgain
  <2> QED BY <1>1, <1>2, <1>3, <1>4, <2>1, IsrMoves DEF TimeType
<1>6. CASE RingLast(a)
  <2>1. /\ next' \in [Item -> Link] /\ previous' \in [Item -> Link]
        /\ \A x \in Item \ {a} :
             /\ next'[x] = IF x = previous[a] THEN next[a] ELSE next[x]
             /\ previous'[x] = IF x = next[a] THEN previous[a] ELSE previous[x]
        /\ next'[a] = a /\ previous'[a] = a
    BY <1>6, RingRemoves
  <2>2. Nodes' = Nodes \ {a} /\ Linked'
    BY <1>6, RingRemoves
  <2>3. TimeType' /\ Alone'
    BY <1>1, <1>2, <1>3, <1>4, <2>1 DEF TimeType, Alone, IsrType, RingLast, Walking
  <2>4. Walker'
    BY <1>3, <1>4, <2>2 DEF Walker
  <2>5. ASSUME NEW b \in Alarms \ Nodes
        PROVE  next'[b] = next[b] /\ previous'[b] = previous[b]
    BY <1>3, <2>1 DEF Item
  <2>6. Outside'
    BY <1>1, <1>2, <2>1, <2>2, <2>5 DEF Outside, InFlight
  <2>7. Caller'
    <3>1. call # NoCall => call.alarm \in Alarms
      BY <1>1 DEF TimeType, Calling
    <3>2. \A b \in Alarms : next[b] # Null => next'[b] # Null
      BY <1>1, <1>3, <2>1, AlarmsAssumption DEF Item
    <3> QED BY <1>1, <1>2, <1>3, <2>2, <3>1, <3>2 DEF Caller, Started, Stopped
  <2> QED BY <2>2, <2>3, <2>4, <2>6, <2>7 DEF TimeInv
<1> QED BY <1>5, <1>6

----------------------------------------------------------------------------
(* The calls of main. An alarm that it may start is not in the list.       *)
LEMMA BeginKeeps ==
  ASSUME TimeInv, NEW a \in Alarms,
         alt_alarm_stop(a) \/ \E n \in Delays : alt_alarm_start(a, n)
  PROVE  TimeInv'
<1> USE Names
<1>1. TimeType /\ Alone /\ Linked /\ Outside /\ Walker
  BY DEF TimeInv
<1>2. PICK op \in {"start", "stop"}, n \in Delays \cup {0} :
        /\ Begin(op, a, n)
        /\ op = "start" => next[a] \in {Null, a}
        /\ op = "stop" => next[a] # Null
  BY DEF alt_alarm_start, alt_alarm_stop
<1>3. /\ call = NoCall /\ isr = NoInterrupt /\ boot = "up"
      /\ call' = [op |-> op, alarm |-> a, delay |-> n, at |-> "disable", context |-> FALSE]
      /\ UNCHANGED <<next, previous, isr, boot, pie, ienable>>
  BY <1>2 DEF Begin, list, irqs
<1>4. Nodes' = Nodes /\ Linked'
  BY <1>1, <1>3, SameLinks
<1>5. call' \in Calling
  BY <1>3 DEF Calling, Stages
<1>6. TimeType' /\ Alone' /\ Walker'
  BY <1>1, <1>3, <1>4, <1>5 DEF TimeType, Alone, Walker
<1>7. Outside'
  BY <1>1, <1>3, <1>4 DEF Outside, InFlight
<1>8. op = "start" => a \notin Nodes
  BY <1>1, <1>2, NoSmallRing, AlarmsAssumption DEF Linked, Ring
<1>9. Caller'
  BY <1>2, <1>3, <1>4, <1>8 DEF Caller, Started, Stopped
<1> QED BY <1>4, <1>6, <1>7, <1>9 DEF TimeInv

(* Interrupts go off, the time is set, interrupts come back.               *)
LEMMA ControlKeeps ==
  ASSUME TimeInv, Disable \/ SetTime \/ Restore
  PROVE  TimeInv'
<1>1. TimeType /\ Alone /\ Linked /\ Outside /\ Caller /\ Walker
  BY DEF TimeInv
<1>2. UNCHANGED <<next, previous, isr, boot, ienable>> /\ isr = NoInterrupt /\ call # NoCall
  BY DEF Disable, SetTime, Restore, CallStep, list
<1>3. Nodes' = Nodes /\ Linked'
  BY <1>1, <1>2, SameLinks
<1>4. call \in Calling /\ isr.at = "none" /\ isr.alarm = Head
  BY <1>1, <1>2 DEF TimeType, NoInterrupt
<1>5. CASE Disable
  <2>1. /\ call.at = "disable" /\ pie' = FALSE
        /\ call' = [call EXCEPT !.at = IF call.op = "start" THEN "time" ELSE "links",
                                !.context = pie]
    BY <1>5 DEF Disable, alt_irq_disable_all
  <2>2. /\ call' \in Calling /\ call'.alarm = call.alarm /\ call'.op = call.op
        /\ call'.at = IF call.op = "start" THEN "time" ELSE "links"
    BY <1>1, <1>4, <2>1 DEF TimeType, Calling, Stages
  <2>3. TimeType' /\ Alone' /\ Walker'
    BY <1>1, <1>2, <1>3, <1>4, <2>1, <2>2 DEF TimeType, Alone, Walker
  <2>4. Outside' /\ Caller'
    BY <1>1, <1>2, <1>3, <1>4, <2>1, <2>2 DEF Outside, InFlight, Caller, Started, Stopped
  <2> QED BY <1>3, <2>3, <2>4 DEF TimeInv
<1>6. CASE SetTime
  <2>1. /\ call.at = "time" /\ pie' = pie /\ call' = [call EXCEPT !.at = "entry"]
    BY <1>6 DEF SetTime, CallStep
  <2>2. /\ call' \in Calling /\ call'.alarm = call.alarm /\ call'.op = call.op
        /\ call'.at = "entry" /\ call.op = "start"
    BY <1>1, <1>2, <1>4, <2>1 DEF Calling, Stages, Caller, Stopped
  <2>3. TimeType' /\ Alone' /\ Walker'
    BY <1>1, <1>2, <1>3, <1>4, <2>1, <2>2 DEF TimeType, Alone, Walker
  <2>4. Outside' /\ Caller'
    BY <1>1, <1>2, <1>3, <1>4, <2>1, <2>2 DEF Outside, InFlight, Caller, Started, Stopped
  <2> QED BY <1>3, <2>3, <2>4 DEF TimeInv
<1>7. CASE Restore
  <2>1. call.at = "restore" /\ call' = NoCall /\ pie' = call.context
    BY <1>7 DEF Restore, alt_irq_enable_all
  <2>2. pie' \in BOOLEAN
    BY <1>4, <2>1 DEF Calling
  <2>3. TimeType' /\ Alone' /\ Walker'
    BY <1>1, <1>2, <1>3, <1>4, <2>1, <2>2 DEF TimeType, Alone, Walker
  <2>4. Outside' /\ Caller'
    BY <1>1, <1>2, <1>3, <1>4, <2>1 DEF Outside, InFlight, Caller
  <2> QED BY <1>3, <2>3, <2>4 DEF TimeInv
<1> QED BY <1>5, <1>6, <1>7

(* A write of main's call: what is left to show once the list is known.    *)
LEMMA WriteMoves ==
  ASSUME TimeInv, NEW then \in Stages,
         call # NoCall, isr = NoInterrupt, call.at \in {"entry", "links"},
         call' = [call EXCEPT !.at = then], UNCHANGED <<isr, boot, pie, ienable>>,
         next' \in [Item -> Link], previous' \in [Item -> Link], Linked',
         \A b \in Alarms : b \notin Nodes' /\ b # call.alarm =>
            b \notin Nodes /\ next'[b] = next[b] /\ previous'[b] = previous[b],
         call.alarm \notin Nodes' =>
            \/ next'[call.alarm] = call.alarm /\ previous'[call.alarm] = call.alarm
            \/ call.op = "start" /\ then = "links"
            \/ call.op = "stop" /\ then = "entry",
         call.op = "start" => Started(call.alarm)',
         call.op = "stop"  => Stopped(call.alarm)'
  PROVE  TimeInv'
<1>1. TimeType /\ Alone /\ Outside
  BY DEF TimeInv
<1>2. /\ call \in Calling /\ call' \in Calling /\ call' # NoCall
      /\ call'.alarm = call.alarm /\ call'.op = call.op /\ call'.at = then
  BY <1>1 DEF TimeType, Calling, NoCall
<1>3. isr.at = "none" /\ isr.alarm = Head
  BY DEF NoInterrupt
<1>4. TimeType' /\ Alone' /\ Walker'
  BY <1>1, <1>2, <1>3 DEF TimeType, Alone, Walker
<1>5. Outside'
  BY <1>1, <1>2 DEF Outside, InFlight
<1>6. Caller'
  BY <1>2 DEF Caller
<1> QED BY <1>4, <1>5, <1>6 DEF TimeInv

LEMMA EntryKeeps ==
  ASSUME TimeInv, WriteEntry
  PROVE  TimeInv' /\ Nodes' = Nodes
<1> DEFINE a == call.alarm
<1> USE Names
<1>1. /\ TimeType /\ Linked /\ Caller
      /\ call # NoCall /\ isr = NoInterrupt /\ call.at = "entry"
      /\ call' = [call EXCEPT !.at = IF call.op = "start" THEN "links" ELSE "restore"]
      /\ UNCHANGED <<isr, boot, pie, ienable>>
  BY DEF TimeInv, WriteEntry, CallStep
<1>2. call \in Calling /\ a \in Alarms /\ a \in Item /\ a # Head /\ Head \in Item
  BY <1>1, AlarmsAssumption DEF TimeType, Calling, Item
<1>3. next[Head] \in Nodes /\ next[Head] \in Item
  BY <1>1 DEF Linked, Ring
<1>4. a \notin Nodes
  BY <1>1, <1>2 DEF Caller, Started, Stopped, Calling
<1>5. \A x \in Item \ {a} : next'[x] = next[x] /\ previous'[x] = previous[x]
  BY <1>1, <1>2 DEF WriteEntry, InsertEntry, RemoveEntry, Detached, TimeType
<1>6. CASE call.op = "start"
  <2>1. /\ next' \in [Item -> Link] /\ previous' \in [Item -> Link]
        /\ next'[a] = next[Head] /\ previous'[a] = Head
    BY <1>1, <1>2, <1>3, <1>6 DEF WriteEntry, InsertEntry, TimeType, Link
  <2>2. Nodes' = Nodes /\ Linked'
    BY <1>1, <1>2, <1>3, <1>4, <1>5, <2>1, OutsideWrite
  <2>3. call' = [call EXCEPT !.at = "links"] /\ call'.at = "links" /\ call'.alarm = a
    BY <1>1, <1>2, <1>6 DEF Calling
  <2>4. Started(a)'
    BY <1>2, <1>4, <1>5, <2>1, <2>2, <2>3 DEF Started
  <2> QED BY <1>1, <1>2, <1>5, <1>6, <2>1, <2>2, <2>3, <2>4, WriteMoves DEF Stages, Item
<1>7. CASE call.op = "stop"
  <2>1. /\ next' \in [Item -> Link] /\ previous' \in [Item -> Link]
        /\ next'[a] = a /\ previous'[a] = a
    BY <1>1, <1>2, <1>7 DEF WriteEntry, RemoveEntry, Detached, TimeType, Link
  <2>2. Nodes' = Nodes /\ Linked'
    BY <1>1, <1>2, <1>3, <1>4, <1>5, <2>1, OutsideWrite
  <2>3. call' = [call EXCEPT !.at = "restore"] /\ call'.at = "restore" /\ call'.alarm = a
    BY <1>1, <1>2, <1>7 DEF Calling
  <2>4. Stopped(a)'
    BY <2>3 DEF Stopped
  <2> QED BY <1>1, <1>2, <1>5, <1>7, <2>1, <2>2, <2>3, <2>4, WriteMoves DEF Stages, Item
<1> QED BY <1>2, <1>6, <1>7 DEF Calling

LEMMA LinksKeep ==
  ASSUME TimeInv, WriteLinks
  PROVE  /\ TimeInv'
         /\ call.op = "start" => Nodes' = Nodes \cup {call.alarm}
         /\ call.op = "stop"  => Nodes' = Nodes \ {call.alarm}
<1> DEFINE a == call.alarm
<1> USE Names
<1>1. /\ TimeType /\ Linked /\ Caller /\ Outside
      /\ call # NoCall /\ isr = NoInterrupt /\ call.at = "links"
      /\ call' = [call EXCEPT !.at = IF call.op = "start" THEN "restore" ELSE "entry"]
      /\ UNCHANGED <<isr, boot, pie, ienable>>
  BY DEF TimeInv, WriteLinks, CallStep
<1>2. call \in Calling /\ a \in Alarms /\ a \in Item /\ a # Head /\ Head \in Item
  BY <1>1, AlarmsAssumption DEF TimeType, Calling, Item
<1>3. next[Head] \in Nodes /\ next[Head] \in Item
  BY <1>1 DEF Linked, Ring
<1>4. CASE call.op = "start"
  <2>1. a \notin Nodes /\ next[a] = next[Head] /\ previous[a] = Head /\ InsertLinks(a)
    BY <1>1, <1>2, <1>4 DEF Caller, Started, WriteLinks
  <2>2. Nodes' = Nodes \cup {a} /\ Linked'
    BY <1>1, <1>2, <2>1, Inserted
  <2>3. /\ next' \in [Item -> Link] /\ previous' \in [Item -> Link]
        /\ \A x \in Item \ Nodes : next'[x] = next[x] /\ previous'[x] = previous[x]
    BY <1>1, <1>2, <1>3, <2>1 DEF InsertLinks, TimeType, Link
  <2>4. call' = [call EXCEPT !.at = "restore"] /\ call'.at = "restore" /\ call'.alarm = a
    BY <1>1, <1>2, <1>4 DEF Calling
  <2>5. Started(a)'
    BY <2>4 DEF Started
  <2> QED BY <1>1, <1>2, <1>4, <2>2, <2>3, <2>4, <2>5, WriteMoves DEF Stages, Item
<1>5. CASE call.op = "stop"
  <2>1. /\ previous' = [previous EXCEPT ![next[a]] = previous[a]]
        /\ next' = [next EXCEPT ![previous[a]] = next[a]]
    BY <1>1, <1>2, <1>5, AlarmsAssumption DEF WriteLinks, RemoveLinks
  <2>2. call' = [call EXCEPT !.at = "entry"] /\ call'.at = "entry" /\ call'.alarm = a
    BY <1>1, <1>2, <1>5 DEF Calling
  <2>3. /\ next' \in [Item -> Link] /\ previous' \in [Item -> Link]
        /\ Linked' /\ Nodes' = Nodes \ {a}
        /\ \A b \in Alarms : b \notin Nodes' /\ b # a =>
              b \notin Nodes /\ next'[b] = next[b] /\ previous'[b] = previous[b]
    <3>1. CASE a \in Nodes
      <4>1. /\ next[a] \in Nodes /\ next[a] \in Item /\ next[a] # a
            /\ previous[a] \in Nodes /\ previous[a] \in Item /\ previous[a] # a
        BY <1>1, <1>2, <3>1, NoSmallRing DEF Linked, Ring
      <4>2. /\ next' \in [Item -> Link] /\ previous' \in [Item -> Link]
            /\ \A x \in Item :
                 /\ next'[x] = IF x = previous[a] THEN next[a] ELSE next[x]
                 /\ previous'[x] = IF x = next[a] THEN previous[a] ELSE previous[x]
        BY <1>1, <2>1, <4>1 DEF TimeType, Link
      <4>3. Nodes' = Nodes \ {a} /\ Linked'
        BY <1>1, <1>2, <3>1, <4>1, <4>2, Removed
      <4> QED BY <4>1, <4>2, <4>3 DEF Item
    <3>2. CASE a \notin Nodes
      <4>1. next[a] = a /\ previous[a] = a
        BY <1>1, <1>2, <1>5, <3>2 DEF Outside, InFlight, Caller, Stopped
      <4>2. UNCHANGED <<next, previous>>
        BY <1>1, <1>2, <2>1, <4>1 DEF TimeType
      <4> QED BY <1>1, <3>2, <4>2, SameLinks DEF TimeType
    <3> QED BY <3>1, <3>2
  <2>4. Stopped(a)'
    BY <2>2, <2>3 DEF Stopped
  <2> QED BY <1>1, <1>2, <1>5, <2>2, <2>3, <2>4, WriteMoves DEF Stages
<1> QED BY <1>2, <1>4, <1>5 DEF Calling

----------------------------------------------------------------------------
LEMMA TimeStep == TimeInv /\ [RuntimeNext]_runtimeVars => TimeInv'
<1> SUFFICES ASSUME TimeInv, [RuntimeNext]_runtimeVars PROVE TimeInv'
  OBVIOUS
<1>1. CASE UNCHANGED timeVars
  BY <1>1, TimeStutter
<1>2. CASE Boot \/ Expire
  BY <1>2, BootKeeps
<1>3. CASE TakeInterrupt \/ Acknowledge \/ alt_tick \/ Leave
  BY <1>3, InterruptMoves
<1>4. CASE \E a \in Alarms : Pass(a) \/ RingLast(a) \/ \E n \in Periods : RingAgain(a, n)
  BY <1>4, WalkKeeps
<1>5. CASE \E a \in Alarms : alt_alarm_stop(a) \/ \E n \in Delays : alt_alarm_start(a, n)
  BY <1>5, BeginKeeps
<1>6. CASE CallRuns
  BY <1>6, ControlKeeps, EntryKeeps, LinksKeep DEF CallRuns
<1>7. Clock => \/ Expire \/ TakeInterrupt \/ Acknowledge \/ alt_tick \/ Leave
               \/ \E a \in Alarms : Pass(a) \/ RingLast(a) \/ \E n \in Periods : RingAgain(a, n)
  BY DEF Clock, Interrupt
<1>8. AlarmCall => \/ \E a \in Alarms :
                        alt_alarm_stop(a) \/ \E n \in Delays : alt_alarm_start(a, n)
                   \/ CallRuns
  BY DEF AlarmCall
<1>9. StartUp \/ FileCall \/ Finish \/ Host => Boot \/ UNCHANGED timeVars
  BY DEF StartUp, FileCall, Finish, Host
<1> QED BY <1>1, <1>2, <1>3, <1>4, <1>5, <1>6, <1>7, <1>8, <1>9 DEF RuntimeNext, runtimeVars

LEMMA TimeInvariant == RuntimeSpec => []TimeInv
<1>1. RuntimeInit => TimeInv
  BY TimeInitially DEF RuntimeInit
<1> QED BY <1>1, TimeStep, PTL DEF RuntimeSpec

(* Whatever alarms main starts and stops, and whenever the timer's         *)
(* interrupt comes, the list of alarms is a ring through its head that a   *)
(* walk meets whole (alt_alarm_start, alt_alarm_stop, alt_tick).           *)
THEOREM ListStaysIntact == RuntimeSpec => []ListIntact
<1>1. TimeInv => ListIntact
  BY DEF TimeInv, Linked, Ring, Whole, Closed, ListIntact
<1> QED BY <1>1, TimeInvariant, PTL

(* While main changes the list, from alt_irq_disable_all to                *)
(* alt_irq_enable_all, interrupts are off and none runs.                   *)
MainIsAlone == call # NoCall /\ call.at # "disable" => ~pie /\ isr = NoInterrupt
THEOREM InterruptsAreExcluded == RuntimeSpec => []MainIsAlone
<1>1. TimeInv => MainIsAlone
  BY DEF TimeInv, TimeType, Alone, MainIsAlone, NoInterrupt
<1> QED BY <1>1, TimeInvariant, PTL

(* The files of a program do not see its alarms and the interrupt.         *)
THEOREM RuntimeKeepsFiles == RuntimeSpec => Spec
<1>1. RuntimeInit => Init
  BY DEF RuntimeInit
<1>2. [RuntimeNext]_runtimeVars => [Next]_vars
  BY DEF RuntimeNext, runtimeVars, StartUp, FileCall, Finish, Host, Clock, AlarmCall, Next
<1> QED BY <1>1, <1>2, PTL DEF RuntimeSpec, Spec

(* So the table of descriptors holds in the whole run-time.                *)
THEOREM RuntimeImplementsTable == RuntimeSpec => ImplementsTable
BY RuntimeKeepsFiles, FilesImplementTable, PTL

----------------------------------------------------------------------------
(* Time: for any width of the tick counter, any delays and periods, alarms *)
(* ring at their ticks. The list and the interrupts are those above; here  *)
(* are the times in it.                                                    *)

Times == 0 .. Wrap - 1

(* An alarm in the list is not due, and its flag says whether the counter  *)
(* wraps before.                                                           *)
Settled(a) == time[a] # nticks /\ (rollover[a] <=> time[a] < nticks)

(* So it is, or it is due, or the counter has just wrapped.                *)
Waiting(a) == nticks # 0 => (rollover[a] <=> time[a] < nticks)

InList == Nodes \ {Head}

(* What the walk still meets: closed under next up to the head.            *)
Ahead(met) == /\ isr.alarm \in met /\ Head \in met
              /\ \A x \in met \ {Head} : next[x] \in met

ClockType ==
  nticks \in Times /\ time \in [Alarms -> Times] /\ rollover \in [Alarms -> BOOLEAN]

(* Between ticks every alarm is settled; in a tick, all but those that the *)
(* walk still meets.                                                       *)
Walked ==
  /\ isr.at # "walk" => \A a \in InList : Settled(a)
  /\ isr.at = "walk" =>
       \A met \in SUBSET Nodes : Ahead(met) => \A a \in InList \ met : Settled(a)

(* The time of the alarm that main is about to insert.                     *)
ToRing ==
  /\ call.delay \in Delays
  /\ call.at \in {"entry", "links"} =>
       /\ time[call.alarm] = (call.delay + nticks + 1) % Wrap
       /\ rollover[call.alarm] <=> time[call.alarm] < nticks
Inserting == call # NoCall /\ call.op = "start" => ToRing

ClockInv == ClockType /\ (\A a \in InList : Waiting(a)) /\ Walked /\ Inserting

----------------------------------------------------------------------------
LEMMA Small == ASSUME NEW n \in 0 .. Wrap - 1 PROVE n % Wrap = n
BY AlarmsAssumption, SMT

LEMMA Large == ASSUME NEW n \in Wrap .. Wrap + Wrap - 1 PROVE n % Wrap = n - Wrap
BY AlarmsAssumption, SMT

LEMMA Negative == ASSUME NEW n \in 1 - Wrap .. -1 PROVE n % Wrap = n + Wrap
BY AlarmsAssumption, SMT

(* Ticks from now to a time.                                               *)
LEMMA Difference ==
  ASSUME NEW t \in Times, NEW now \in Times
  PROVE  (t - now) % Wrap = IF t < now THEN t - now + Wrap ELSE t - now
<1>1. CASE t < now
  <2>1. t - now \in 1 - Wrap .. -1
    BY <1>1, AlarmsAssumption DEF Times
  <2> QED BY <1>1, <2>1, Negative
<1>2. CASE ~(t < now)
  <2>1. t - now \in 0 .. Wrap - 1
    BY <1>2, AlarmsAssumption DEF Times
  <2> QED BY <1>2, <2>1, Small
<1> QED BY <1>1, <1>2

(* A time less than a round ahead.                                         *)
LEMMA Sum ==
  ASSUME NEW now \in Times, NEW n \in 1 .. Wrap - 1
  PROVE  /\ (now + n) % Wrap \in Times /\ (now + n) % Wrap # now
         /\ (((now + n) % Wrap) - now) % Wrap = n
<1>1. CASE now + n < Wrap
  <2>1. (now + n) % Wrap = now + n
    BY <1>1, Small, AlarmsAssumption DEF Times
  <2>2. now + n \in Times /\ now + n # now /\ ~(now + n < now)
    BY <1>1, AlarmsAssumption DEF Times
  <2> QED BY <2>1, <2>2, Difference DEF Times
<1>2. CASE ~(now + n < Wrap)
  <2>1. (now + n) % Wrap = now + n - Wrap
    BY <1>2, Large, AlarmsAssumption DEF Times
  <2>2. PICK t \in Times : t = now + n - Wrap
    BY <1>2, AlarmsAssumption DEF Times
  <2>3. t # now /\ t < now /\ t - now + Wrap = n
    BY <2>2, AlarmsAssumption DEF Times
  <2>4. (t - now) % Wrap = n
    BY <2>3, Difference
  <2> QED BY <2>1, <2>2, <2>3, <2>4
<1> QED BY <1>1, <1>2

LEMMA Later ==
  ASSUME NEW now \in Times, NEW n \in Delays
  PROVE  /\ (n + now + 1) % Wrap \in Times /\ (n + now + 1) % Wrap # now
         /\ (((n + now + 1) % Wrap) - now) % Wrap = n + 1
<1>1. n + 1 \in 1 .. Wrap - 1 /\ n + now + 1 = now + (n + 1)
  BY AlarmsAssumption DEF Times
<1> QED BY <1>1, Sum

LEMMA NextTick ==
  ASSUME NEW now \in Times
  PROVE  /\ (now + 1) % Wrap \in Times
         /\ (now + 1) % Wrap # 0 => (now + 1) % Wrap = now + 1
         /\ (now + 1) % Wrap = 0 => now = Wrap - 1
<1>1. CASE now = Wrap - 1
  <2>1. now + 1 = Wrap /\ Wrap % Wrap = 0
    BY <1>1, Large, AlarmsAssumption DEF Times
  <2> QED BY <1>1, <2>1, AlarmsAssumption DEF Times
<1>2. CASE now # Wrap - 1
  BY <1>2, Small, AlarmsAssumption DEF Times
<1> QED BY <1>1, <1>2

----------------------------------------------------------------------------
(* Left as a comparison, and the state of the abstract specification.      *)
ToGo(a) ==
  IF a \notin Nodes THEN -1
  ELSE IF time[a] < nticks THEN time[a] - nticks + Wrap ELSE time[a] - nticks
LeftNow == [a \in Alarms |-> Left(a)]

LEMMA LeftIsToGo == ASSUME ClockType, NEW a \in Alarms PROVE Left(a) = ToGo(a)
<1>1. time[a] \in Times /\ nticks \in Times
  BY DEF ClockType
<1> QED BY <1>1, Difference, Members DEF Left, ToGo

LEMMA LeftAreToGo == ClockType => \A a \in Alarms : Left(a) = ToGo(a)
BY LeftIsToGo

LEMMA LeftAreToGoNext == (ClockType => \A a \in Alarms : Left(a) = ToGo(a))'
BY LeftAreToGo, PTL

LEMMA ToGoNext ==
  ASSUME ClockType, ClockType'
  PROVE  \A a \in Alarms : Left(a) = ToGo(a) /\ Left(a)' = ToGo(a)'
BY LeftAreToGo, LeftAreToGoNext

LEMMA LeftRange ==
  ASSUME ClockType, NEW a \in Alarms
  PROVE  /\ a \in Nodes => ToGo(a) \in 0 .. Wrap - 1
         /\ a \in Nodes => (ToGo(a) = 0 <=> time[a] = nticks)
         /\ a \notin Nodes => ToGo(a) = -1
BY AlarmsAssumption DEF ClockType, ToGo, Times

(* Steps that change no time, or that of alarms outside the list only.     *)
LEMMA SameLeft ==
  ASSUME ClockType, ClockType', nticks' = nticks, Nodes' = Nodes,
         \A a \in InList : time'[a] = time[a]
  PROVE  LeftNow' = LeftNow
<1>1. ASSUME NEW a \in Alarms PROVE ToGo(a)' = ToGo(a)
  BY AlarmsAssumption DEF ToGo, InList
<1> QED BY <1>1, ToGoNext DEF LeftNow

Moves == Alarm!Next \/ LeftNow' = LeftNow

LEMMA ClockInitially == TimeInit => ClockInv /\ LeftNow = [a \in Alarms |-> -1]
<1> SUFFICES ASSUME TimeInit PROVE ClockInv /\ LeftNow = [a \in Alarms |-> -1]
  OBVIOUS
<1>1. ClockType
  BY AlarmsAssumption DEF TimeInit, ClockType, Times
<1>2. \A a \in Alarms : a \notin Nodes
  BY AlarmsAssumption DEF TimeInit, Nodes, Listed
<1>3. InList = {}
  BY <1>2 DEF InList, Nodes
<1>4. \A a \in Alarms : Left(a) = -1
  BY <1>1, <1>2, LeftIsToGo DEF ToGo
<1> QED BY <1>1, <1>3, <1>4
        DEF ClockInv, Walked, Inserting, TimeInit, LeftNow, NoInterrupt, NoCall

(* Steps outside the walk that change no time: main's up to the links, and *)
(* the way into the interrupt and out of it.                               *)
LEMMA ClockStutter ==
  ASSUME ClockInv, UNCHANGED <<nticks, time, rollover>>, Nodes' = Nodes, isr'.at # "walk",
         \A a \in InList : Settled(a), Inserting'
  PROVE  ClockInv' /\ Moves
<1>1. InList' = InList
  BY DEF InList
<1>2. ClockType' /\ ClockType
  BY DEF ClockInv, ClockType
<1>3. (\A a \in InList : Waiting(a))' /\ Walked'
  BY <1>1 DEF ClockInv, Waiting, Walked, Settled
<1>4. LeftNow' = LeftNow
  BY <1>2, SameLeft
<1> QED BY <1>2, <1>3, <1>4 DEF ClockInv, Moves

(* And those that leave the walk where it is.                              *)
LEMMA ClockStays ==
  ASSUME ClockInv, UNCHANGED <<nticks, list, isr>>, Inserting'
  PROVE  ClockInv' /\ Moves
<1>1. Nodes' = Nodes /\ InList' = InList
  BY SameLinks DEF list, InList
<1>2. ClockType' /\ ClockType
  BY DEF ClockInv, ClockType, list
<1>3. (\A a \in InList : Waiting(a))' /\ Walked'
  BY <1>1 DEF ClockInv, Waiting, Walked, Settled, Ahead, list
<1>4. LeftNow' = LeftNow
  BY <1>1, <1>2, SameLeft DEF list
<1> QED BY <1>2, <1>3, <1>4 DEF ClockInv, Moves

LEMMA QuietSteps ==
  ASSUME TimeInv, ClockInv,
         \/ UNCHANGED timeVars
         \/ Boot \/ Expire \/ Disable \/ Restore
         \/ \E a \in Alarms : alt_alarm_stop(a) \/ \E n \in Delays : alt_alarm_start(a, n)
  PROVE  ClockInv' /\ Moves
<1>1. UNCHANGED <<nticks, list, isr>>
  BY DEF timeVars, irqs, Boot, alt_irq_init, alt_avalon_timer_sc_init, alt_iic_isr_register,
     BootStep, Expire, Disable, Restore, alt_alarm_stop, alt_alarm_start, Begin
<1>2. UNCHANGED <<nticks, time, rollover>>
  BY <1>1 DEF list
<1>3. call \in {NoCall} \cup Calling
  BY DEF TimeInv, TimeType
<1>4. Inserting'
  <2>1. CASE UNCHANGED timeVars \/ Boot \/ Expire
    <3>1. call' = call
      BY <2>1 DEF timeVars, irqs, Boot, alt_irq_init, alt_avalon_timer_sc_init,
         alt_iic_isr_register, BootStep, Expire
    <3> QED BY <1>2, <3>1 DEF ClockInv, Inserting, ToRing
  <2>2. CASE Disable
    <3>1. call # NoCall /\ call' = [call EXCEPT !.at = IF call.op = "start" THEN "time" ELSE "links",
                                !.context = pie]
      BY <2>2 DEF Disable
    <3>2. call'.op = call.op /\ call'.delay = call.delay
          /\ (call.op = "start" => call'.at = "time")
      BY <1>3, <3>1 DEF Calling
    <3> QED BY <3>1, <3>2 DEF ClockInv, Inserting, ToRing
  <2>3. CASE Restore
    BY <2>3 DEF Restore, Inserting
  <2>4. ASSUME NEW a \in Alarms, alt_alarm_stop(a) \/ \E n \in Delays : alt_alarm_start(a, n)
        PROVE  Inserting'
    BY <2>4 DEF alt_alarm_stop, alt_alarm_start, Begin, Inserting, ToRing
  <2> QED BY <2>1, <2>2, <2>3, <2>4
<1> QED BY <1>1, <1>4, ClockStays

LEMMA InterruptSteps ==
  ASSUME TimeInv, ClockInv, TakeInterrupt \/ Acknowledge \/ Leave
  PROVE  ClockInv' /\ Moves
<1>1. UNCHANGED <<nticks, next, previous, time, rollover, call>>
  BY DEF TakeInterrupt, Acknowledge, Leave, list
<1>2. Nodes' = Nodes
  BY <1>1, SameLinks
<1>3. Inserting'
  BY <1>1 DEF ClockInv, Inserting, ToRing
<1>4. isr'.at # "walk"
  BY DEF TimeInv, TimeType, TakeInterrupt, Acknowledge, Leave
<1>5. \A a \in InList : Settled(a)
  <2>1. CASE isr.at # "walk"
    BY <2>1 DEF ClockInv, Walked
  <2>2. CASE isr.at = "walk"
    <3>1. isr.alarm = Head
      BY <2>2 DEF TakeInterrupt, Acknowledge, Leave, NoInterrupt
    <3>2. Ahead({Head}) /\ {Head} \in SUBSET Nodes
      BY <3>1, Names DEF Ahead
    <3> QED BY <2>2, <3>2 DEF ClockInv, Walked, InList
  <2> QED BY <2>1, <2>2
<1> QED BY <1>1, <1>2, <1>3, <1>4, <1>5, ClockStutter

(* The abstract steps, said of Left.                                       *)
LEMMA TickIs ==
  ASSUME \A a \in Alarms : Left(a) # 0 /\ Left(a)' = IF Left(a) = -1 THEN -1 ELSE Left(a) - 1
  PROVE  Moves
<1>1. Alarm!Tick
  BY DEF Alarm!Tick, Alarm!Off
<1> QED BY <1>1 DEF Moves, Alarm!Next

(* Of one alarm only.                                                      *)
LeftOf(a, n) == Left(a)' = n /\ \A b \in Alarms \ {a} : Left(b)' = Left(b)

LEMMA OneChanges ==
  ASSUME NEW a \in Alarms, NEW n, LeftOf(a, n)
  PROVE  LeftNow' = [LeftNow EXCEPT ![a] = n]
BY DEF LeftNow, LeftOf

LEMMA StartIs ==
  ASSUME NEW a \in Alarms, NEW n \in Delays, Left(a) = -1, LeftOf(a, n + 1)
  PROVE  Moves
<1>1. Alarm!Start(a)
  BY OneChanges DEF Alarm!Start, Alarm!Off, LeftNow
<1> QED BY <1>1 DEF Moves, Alarm!Next

LEMMA StopIs ==
  ASSUME NEW a \in Alarms, Left(a) # -1, LeftOf(a, -1)
  PROVE  Moves
<1>1. Alarm!Stop(a)
  BY OneChanges DEF Alarm!Stop, Alarm!Off, LeftNow
<1> QED BY <1>1 DEF Moves, Alarm!Next

LEMMA RingIs ==
  ASSUME NEW a \in Alarms, NEW n \in Periods, Left(a) = 0,
         LeftOf(a, IF n = 0 THEN -1 ELSE n)
  PROVE  Moves
<1>1. Alarm!Ring(a)
  BY OneChanges DEF Alarm!Ring, Alarm!Off, LeftNow
<1> QED BY <1>1 DEF Moves, Alarm!Next

----------------------------------------------------------------------------
(* The tick: every alarm is one tick nearer, and the walk begins before    *)
(* the first.                                                              *)
LEMMA TickSteps ==
  ASSUME TimeInv, ClockInv, alt_tick
  PROVE  ClockInv' /\ Moves
<1>1. /\ UNCHANGED <<next, previous, time, rollover, call, pie>> /\ nticks' = (nticks + 1) % Wrap
      /\ isr' = [at |-> "walk", alarm |-> next[Head]] /\ isr.at = "alt_tick"
  BY DEF alt_tick, list
<1>2. Nodes' = Nodes /\ InList' = InList
  BY <1>1, SameLinks DEF InList
<1>3. /\ nticks \in Times /\ nticks' \in Times
      /\ nticks' # 0 => nticks' = nticks + 1
      /\ nticks' = 0 => nticks = Wrap - 1
  BY <1>1, NextTick DEF ClockInv, ClockType
<1>4. ClockType /\ ClockType'
  BY <1>1, <1>3 DEF ClockInv, ClockType
<1>5. \A a \in InList : Settled(a) /\ a \in Alarms
  BY <1>1, AlarmsAssumption DEF ClockInv, Walked, InList, Nodes
<1>6. ASSUME NEW a \in Alarms, a \in InList PROVE Waiting(a)' /\ ToGo(a) # 0 /\ ToGo(a)' = ToGo(a) - 1
  <2>1. time[a] \in Times /\ time'[a] = time[a] /\ rollover'[a] = rollover[a]
    BY <1>1, <1>4 DEF ClockType
  <2>2. time[a] # nticks /\ (rollover[a] <=> time[a] < nticks)
    BY <1>5, <1>6 DEF Settled
  <2>3. nticks' # 0 => (time[a] < nticks <=> time[a] < nticks')
    BY <1>3, <2>1, <2>2 DEF Times
  <2>4. Waiting(a)'
    BY <2>1, <2>2, <2>3 DEF Waiting
  <2>5. ToGo(a) # 0 /\ ToGo(a)' = ToGo(a) - 1
    BY <1>2, <1>3, <1>6, <2>1, <2>2, AlarmsAssumption DEF ToGo, Times, InList
  <2> QED BY <2>4, <2>5
<1>7. ASSUME NEW a \in Alarms, a \notin InList PROVE ToGo(a) = -1 /\ ToGo(a)' = -1
  BY <1>2, <1>7, AlarmsAssumption DEF ToGo, InList
<1>8. Moves
  <2>1. \A a \in Alarms : ToGo(a) # 0 /\ ToGo(a)' = IF ToGo(a) = -1 THEN -1 ELSE ToGo(a) - 1
    <3>1. \A a \in Alarms : a \in InList => ToGo(a) # -1
      BY <1>4, LeftRange, AlarmsAssumption DEF InList
    <3> QED BY <1>6, <1>7, <3>1
  <2> QED BY <1>4, <2>1, ToGoNext, TickIs
<1>9. Walked'
  <2>1. SUFFICES ASSUME NEW met \in SUBSET Nodes, Ahead(met)' PROVE met = Nodes
    BY <1>1, <1>2 DEF Walked, InList
  <2>2. Closed(met)
    BY <1>1, <2>1 DEF Ahead, Closed
  <2> QED BY <2>2 DEF TimeInv, Linked, Whole
<1>10. Inserting'
  BY <1>1 DEF Inserting, TimeInv, Alone, ClockInv, ToRing
<1> QED BY <1>2, <1>4, <1>5, <1>6, <1>8, <1>9, <1>10 DEF ClockInv

----------------------------------------------------------------------------
(* Main sets the time of an alarm that is not in the list.                 *)
LEMMA TimeSteps ==
  ASSUME TimeInv, ClockInv, SetTime
  PROVE  ClockInv' /\ Moves
<1> DEFINE a == call.alarm
           t == (call.delay + nticks + 1) % Wrap
<1>1. /\ call # NoCall /\ isr = NoInterrupt /\ call.at = "time"
      /\ call' = [call EXCEPT !.at = "entry"]
      /\ time' = [time EXCEPT ![a] = t] /\ rollover' = [rollover EXCEPT ![a] = t < nticks]
      /\ UNCHANGED <<nticks, next, previous, isr>>
  BY DEF SetTime, CallStep, Before
<1>2. call \in Calling /\ a \in Alarms /\ ClockType /\ isr.at # "walk"
  BY <1>1 DEF TimeInv, TimeType, Calling, ClockInv, NoInterrupt
<1>3. call.op = "start"
  BY <1>1, <1>2 DEF TimeInv, Caller, Stopped, Calling
<1>4. a \notin Nodes /\ call.delay \in Delays
  BY <1>1, <1>3 DEF TimeInv, Caller, Started, ClockInv, Inserting, ToRing
<1>5. t \in Times
  BY <1>2, <1>4, Later DEF ClockType
<1>6. ClockType'
  <2>1. (t < nticks) \in BOOLEAN
    OBVIOUS
  <2> QED BY <1>1, <1>2, <1>5, <2>1 DEF ClockType
<1>7. Nodes' = Nodes /\ InList' = InList /\ a \notin InList
  BY <1>1, <1>4, SameLinks DEF InList
<1>8. \A b \in InList : b \in Alarms /\ time'[b] = time[b] /\ rollover'[b] = rollover[b]
  BY <1>1, <1>2, <1>7, AlarmsAssumption DEF InList, Nodes, ClockType
<1>9. (\A b \in InList : Waiting(b))' /\ Walked'
  BY <1>1, <1>2, <1>7, <1>8 DEF ClockInv, Waiting, Walked, Settled
<1>10. Inserting'
  <2>1. /\ call'.alarm = a /\ call'.delay = call.delay /\ call'.at = "entry"
        /\ time'[a] = t /\ rollover'[a] = (t < nticks)
    BY <1>1, <1>2 DEF Calling, ClockType
  <2> QED BY <1>1, <1>4, <2>1 DEF Inserting, ToRing
<1>11. Moves
  BY <1>1, <1>2, <1>6, <1>7, <1>8, SameLeft DEF Moves
<1> QED BY <1>6, <1>9, <1>10, <1>11 DEF ClockInv

LEMMA EntrySteps ==
  ASSUME TimeInv, ClockInv, WriteEntry
  PROVE  ClockInv' /\ Moves
<1>1. /\ call # NoCall /\ isr = NoInterrupt /\ call.at = "entry"
      /\ call' = [call EXCEPT !.at = IF call.op = "start" THEN "links" ELSE "restore"]
      /\ UNCHANGED <<nticks, time, rollover, isr>>
  BY DEF WriteEntry, CallStep
<1>2. call \in Calling
  BY <1>1 DEF TimeInv, TimeType
<1>3. isr'.at # "walk" /\ \A a \in InList : Settled(a)
  BY <1>1 DEF NoInterrupt, ClockInv, Walked
<1>4. Inserting'
  <2>1. call'.op = call.op /\ call'.alarm = call.alarm /\ call'.delay = call.delay
    BY <1>1, <1>2 DEF Calling
  <2> QED BY <1>1, <2>1 DEF ClockInv, Inserting, ToRing
<1> QED BY <1>1, <1>3, <1>4, EntryKeeps, ClockStutter

(* An alarm comes into the list, or leaves it.                             *)
LEMMA LinkSteps ==
  ASSUME TimeInv, ClockInv, WriteLinks
  PROVE  ClockInv' /\ Moves
<1>1. /\ call # NoCall /\ isr = NoInterrupt /\ call.at = "links"
      /\ call' = [call EXCEPT !.at = IF call.op = "start" THEN "restore" ELSE "entry"]
      /\ UNCHANGED <<nticks, time, rollover, isr>>
  BY DEF WriteLinks, CallStep
<1>2. call \in Calling /\ ClockType /\ ClockType'
  BY <1>1 DEF TimeInv, TimeType, Calling, ClockInv, ClockType
<1> PICK a \in Alarms : a = call.alarm
  BY <1>2 DEF Calling
<1> a # Head
  BY AlarmsAssumption
<1>3. isr.at # "walk" /\ \A b \in InList : Settled(b)
  BY <1>1 DEF NoInterrupt, ClockInv, Walked
<1>4. Inserting'
  <2>1. call'.op = call.op /\ call'.alarm = a /\ call'.delay = call.delay
        /\ call'.at = IF call.op = "start" THEN "restore" ELSE "entry"
    BY <1>1, <1>2 DEF Calling
  <2> QED BY <1>1, <2>1 DEF ClockInv, Inserting, ToRing
<1>5. CASE call.op = "start"
  <2>1. Nodes' = Nodes \cup {a} /\ a \notin Nodes
    BY <1>1, <1>5, LinksKeep DEF TimeInv, Caller, Started
  <2>2. /\ call.delay \in Delays
        /\ time[a] = (call.delay + nticks + 1) % Wrap /\ (rollover[a] <=> time[a] < nticks)
    BY <1>1, <1>5 DEF ClockInv, Inserting, ToRing
  <2>3. time[a] # nticks /\ (time[a] - nticks) % Wrap = call.delay + 1
    BY <1>2, <2>2, Later DEF ClockType
  <2>4. ClockInv'
    BY <1>1, <1>2, <1>3, <1>4, <2>1, <2>2, <2>3 DEF ClockInv, Waiting, Walked, Settled, InList
  <2>5. ToGo(a)' = call.delay + 1 /\ ToGo(a) = -1
    <3>1. time[a] \in Times /\ nticks \in Times
      BY <1>2 DEF ClockType
    <3> QED BY <1>1, <2>1, <2>3, <3>1, Difference DEF ToGo
  <2>6. \A b \in Alarms \ {a} : ToGo(b)' = ToGo(b)
    BY <1>1, <2>1 DEF ToGo
  <2>7. Left(a) = -1 /\ LeftOf(a, call.delay + 1)
    BY <1>2, <2>5, <2>6, ToGoNext DEF LeftOf
  <2> QED BY <1>2, <2>2, <2>4, <2>7, StartIs
<1>6. CASE call.op = "stop"
  <2>1. Nodes' = Nodes \ {a}
    BY <1>6, LinksKeep
  <2>2. ClockInv'
    BY <1>1, <1>2, <1>3, <1>4, <2>1 DEF ClockInv, Waiting, Walked, Settled, InList
  <2>3. CASE a \in Nodes
    <3>1. ToGo(a) # -1 /\ ToGo(a)' = -1
      <4>1. ToGo(a) \in 0 .. Wrap - 1
        BY <1>2, <2>3, LeftRange
      <4>2. ToGo(a) # -1
        BY <4>1, AlarmsAssumption
      <4> QED BY <2>1, <4>2 DEF ToGo
    <3>2. \A b \in Alarms \ {a} : ToGo(b)' = ToGo(b)
      BY <1>1, <2>1 DEF ToGo
    <3>3. Left(a) # -1 /\ LeftOf(a, -1)
      BY <1>2, <3>1, <3>2, ToGoNext DEF LeftOf
    <3> QED BY <1>2, <2>2, <3>3, StopIs
  <2>4. CASE a \notin Nodes
    BY <1>1, <1>2, <2>1, <2>2, <2>4, SameLeft DEF Moves
  <2> QED BY <2>3, <2>4
<1> QED BY <1>2, <1>5, <1>6 DEF Calling

----------------------------------------------------------------------------
(* What the test of alt_tick means.                                        *)
LEMMA DueMeans ==
  ASSUME ClockType, NEW a \in Alarms, Waiting(a)
  PROVE  /\ Due(a) <=> time[a] = nticks
         /\ ~Due(a) => (StillAhead(a) <=> time[a] < nticks)
<1>1. time[a] \in Times /\ nticks \in Times
  BY DEF ClockType
<1>2. CASE nticks = 0
  BY <1>1, <1>2, AlarmsAssumption DEF Due, StillAhead, Times
<1>3. CASE nticks # 0
  <2>1. StillAhead(a) <=> rollover[a]
    BY <1>3 DEF StillAhead
  <2>2. rollover[a] <=> time[a] < nticks
    BY <1>3 DEF Waiting
  <2>3. time[a] <= nticks /\ ~(time[a] < nticks) <=> time[a] = nticks
    BY <1>1, AlarmsAssumption DEF Times
  <2>4. time[a] < nticks => time[a] # nticks /\ time[a] <= nticks
    BY <1>1, AlarmsAssumption DEF Times
  <2> QED BY <2>1, <2>2, <2>3, <2>4 DEF Due
<1> QED BY <1>2, <1>3

(* The walk goes on behind an alarm that is settled or has left.           *)
LEMMA WalkOn ==
  ASSUME TimeInv, ClockInv, NEW a \in Alarms, Walking(a), ClockType',
         Nodes' = Nodes \/ Nodes' = Nodes \ {a},
         a \in Nodes' => Settled(a)',
         \A x \in Nodes \ {a} : next'[x] = next[x] \/ x = previous[a],
         \A b \in Alarms \ {a} : time'[b] = time[b] /\ rollover'[b] = rollover[b]
  PROVE  ClockInv'
<1>1. /\ a \in Nodes /\ a # Head /\ isr.at = "walk" /\ a = isr.alarm
      /\ (call = NoCall \/ call.at = "disable")
  BY InWalk
<1>2. isr'.at = "walk" /\ isr'.alarm = next[a] /\ UNCHANGED <<nticks, call>>
  BY <1>1 DEF Walking, TimeInv, TimeType
<1>3. InList' \subseteq InList /\ Nodes' \subseteq Nodes /\ \A b \in InList : b \in Alarms
  BY AlarmsAssumption DEF InList, Nodes
<1>4. ASSUME NEW b \in InList' PROVE Waiting(b)'
  <2>1. CASE b = a
    <3>1. Settled(a)'
      BY <2>1 DEF InList
    <3> QED BY <2>1, <3>1 DEF Settled, Waiting
  <2>2. CASE b # a
    BY <1>2, <1>3, <2>2 DEF ClockInv, Waiting
  <2> QED BY <2>1, <2>2
<1>5. Walked'
  <2>1. SUFFICES ASSUME NEW met \in SUBSET Nodes, met \subseteq Nodes', Ahead(met)',
                        NEW b \in InList', b \notin met
                 PROVE  Settled(b)'
    BY <1>2, <1>3 DEF Walked
  <2>2. CASE b = a
    BY <2>2 DEF InList
  <2>3. CASE b # a
    <3>1. next[a] \in met /\ Head \in met /\ \A x \in met \ {Head} : next'[x] \in met
      BY <1>2, <2>1 DEF Ahead
    <3>2. next[previous[a]] = a
      BY <1>1 DEF TimeInv, Linked, Ring
    <3>3. \A x \in (met \cup {a}) \ {Head} : next[x] \in met \cup {a}
      BY <3>1, <3>2, <2>1
    <3>4. Ahead(met \cup {a}) /\ met \cup {a} \in SUBSET Nodes
      BY <1>1, <3>1, <3>3 DEF Ahead
    <3>5. b \in InList \ (met \cup {a}) /\ b \in Alarms
      BY <1>3, <2>1, <2>3
    <3>6. Settled(b)
      BY <1>1, <3>4, <3>5 DEF ClockInv, Walked
    <3> QED BY <1>2, <2>3, <3>5, <3>6 DEF Settled
  <2> QED BY <2>2, <2>3
<1>6. Inserting'
  BY <1>1, <1>2 DEF ClockInv, Inserting, ToRing
<1> QED BY <1>4, <1>5, <1>6 DEF ClockInv

LEMMA WalkSteps ==
  ASSUME TimeInv, ClockInv, NEW a \in Alarms,
         \/ Pass(a)
         \/ 0 \in Periods /\ RingLast(a)
         \/ \E n \in Periods : RingAgain(a, n)
  PROVE  ClockInv' /\ Moves
<1>1. Walking(a)
  BY DEF Pass, RingLast, RingAgain
<1>2. /\ a \in Nodes /\ a # Head /\ ClockType /\ Waiting(a) /\ nticks' = nticks
      /\ time[a] \in Times /\ nticks \in Times /\ time \in [Alarms -> Times]
      /\ rollover \in [Alarms -> BOOLEAN]
  BY <1>1, InWalk DEF ClockInv, InList, ClockType, Walking
<1>3. next[previous[a]] = a
  BY <1>2 DEF TimeInv, Linked, Ring
<1>4. CASE Pass(a)
  <2>1. /\ ~Due(a) /\ UNCHANGED <<next, previous, time>>
        /\ rollover' = [rollover EXCEPT ![a] = StillAhead(a)]
    BY <1>4 DEF Pass
  <2>2. time[a] # nticks /\ (StillAhead(a) <=> time[a] < nticks)
    BY <1>2, <2>1, DueMeans
  <2>3. Nodes' = Nodes
    BY <2>1, SameLinks
  <2>4. StillAhead(a) \in BOOLEAN
    BY <1>2 DEF StillAhead
  <2>5. ClockType'
    BY <1>2, <2>1, <2>4 DEF ClockType
  <2>6. Settled(a)'
    BY <1>2, <2>1, <2>2 DEF Settled
  <2>7. ClockInv'
    BY <1>1, <1>2, <1>3, <2>1, <2>3, <2>5, <2>6, WalkOn
  <2> QED BY <1>2, <2>1, <2>3, <2>5, <2>7, SameLeft DEF Moves
<1>5. ASSUME NEW n \in Periods, RingAgain(a, n) PROVE ClockInv' /\ Moves
  <2> DEFINE t == (time[a] + n) % Wrap
  <2>1. /\ Due(a) /\ UNCHANGED <<next, previous>> /\ n # 0
        /\ time' = [time EXCEPT ![a] = t] /\ rollover' = [rollover EXCEPT ![a] = t < nticks]
    BY <1>5 DEF RingAgain, Before
  <2>2. time[a] = nticks /\ n \in 1 .. Wrap - 1
    BY <1>2, <2>1, DueMeans, AlarmsAssumption
  <2>3. t \in Times /\ t # nticks /\ (t - nticks) % Wrap = n
    BY <1>2, <2>2, Sum
  <2>4. Nodes' = Nodes
    BY <2>1, SameLinks
  <2>5. ClockType'
    <3>1. (t < nticks) \in BOOLEAN
      OBVIOUS
    <3> QED BY <1>2, <2>1, <2>3, <3>1 DEF ClockType
  <2>6. time'[a] = t /\ rollover'[a] = (t < nticks)
    BY <1>2, <2>1
  <2>7. Settled(a)'
    BY <1>2, <2>3, <2>6 DEF Settled
  <2>8. ClockInv'
    BY <1>1, <1>2, <1>3, <2>1, <2>4, <2>5, <2>7, WalkOn
  <2>9. ToGo(a) = 0 /\ ToGo(a)' = n
    <3>1. (t - nticks) % Wrap = IF t < nticks THEN t - nticks + Wrap ELSE t - nticks
      BY <1>2, <2>3, Difference
    <3>2. ToGo(a)' = IF t < nticks THEN t - nticks + Wrap ELSE t - nticks
      BY <1>2, <2>4, <2>6 DEF ToGo
    <3> QED BY <1>2, <2>2, <2>3, <3>1, <3>2, AlarmsAssumption DEF ToGo, Times
  <2>10. \A b \in Alarms \ {a} : ToGo(b)' = ToGo(b)
    BY <1>2, <2>1, <2>4 DEF ToGo
  <2>11. Left(a) = 0 /\ LeftOf(a, n)
    BY <1>2, <2>5, <2>9, <2>10, ToGoNext DEF LeftOf
  <2> QED BY <2>1, <2>8, <2>11, RingIs
<1>6. CASE 0 \in Periods /\ RingLast(a)
  <2>1. Due(a) /\ time' = time /\ rollover' = [rollover EXCEPT ![a] = FALSE]
    BY <1>6 DEF RingLast
  <2>2. time[a] = nticks
    BY <1>2, <2>1, DueMeans
  <2>3. /\ Nodes' = Nodes \ {a}
        /\ \A x \in Item \ {a} : next'[x] = IF x = previous[a] THEN next[a] ELSE next[x]
    BY <1>6, RingRemoves
  <2>4. ClockType'
    BY <1>2, <2>1 DEF ClockType
  <2>5. ClockInv'
    BY <1>1, <1>2, <2>1, <2>3, <2>4, WalkOn, Names
  <2>6. ToGo(a) = 0 /\ ToGo(a)' = -1
    <3>1. ToGo(a)' = -1
      BY <2>3 DEF ToGo
    <3>2. ~(time[a] < nticks) /\ time[a] - nticks = 0
      BY <1>2, <2>2, AlarmsAssumption DEF Times
    <3> QED BY <1>2, <3>1, <3>2 DEF ToGo
  <2>7. \A b \in Alarms \ {a} : ToGo(b)' = ToGo(b)
    BY <1>2, <2>1, <2>3 DEF ToGo
  <2>8. Left(a) = 0 /\ LeftOf(a, -1)
    BY <1>2, <2>4, <2>6, <2>7, ToGoNext DEF LeftOf
  <2> QED BY <1>6, <2>5, <2>8, RingIs
<1> QED BY <1>4, <1>5, <1>6

----------------------------------------------------------------------------
LEMMA ClockStep ==
  ASSUME TimeInv, ClockInv, [RuntimeNext]_runtimeVars
  PROVE  ClockInv' /\ Moves
<1>1. CASE \/ UNCHANGED timeVars \/ Boot \/ Expire \/ Disable \/ Restore
           \/ \E a \in Alarms : alt_alarm_stop(a) \/ \E n \in Delays : alt_alarm_start(a, n)
  BY <1>1, QuietSteps
<1>2. CASE TakeInterrupt \/ Acknowledge \/ Leave
  BY <1>2, InterruptSteps
<1>3. CASE alt_tick
  BY <1>3, TickSteps
<1>4. CASE \E a \in Alarms : \/ Pass(a)
                             \/ 0 \in Periods /\ RingLast(a)
                             \/ \E n \in Periods : RingAgain(a, n)
  BY <1>4, WalkSteps
<1>5. CASE SetTime \/ WriteEntry \/ WriteLinks
  BY <1>5, TimeSteps, EntrySteps, LinkSteps
<1>6. Clock => \/ Expire \/ TakeInterrupt \/ Acknowledge \/ alt_tick \/ Leave
               \/ \E a \in Alarms : \/ Pass(a)
                                    \/ 0 \in Periods /\ RingLast(a)
                                    \/ \E n \in Periods : RingAgain(a, n)
  BY DEF Clock, Interrupt
<1>7. AlarmCall => \/ \E a \in Alarms :
                        alt_alarm_stop(a) \/ \E n \in Delays : alt_alarm_start(a, n)
                   \/ Disable \/ Restore \/ SetTime \/ WriteEntry \/ WriteLinks
  BY DEF AlarmCall, CallRuns
<1>8. StartUp \/ FileCall \/ Finish \/ Host => Boot \/ UNCHANGED timeVars
  BY DEF StartUp, FileCall, Finish, Host
<1> QED BY <1>1, <1>2, <1>3, <1>4, <1>5, <1>6, <1>7, <1>8 DEF RuntimeNext, runtimeVars

LEMMA ClockMoves ==
  TimeInv /\ ClockInv /\ [RuntimeNext]_runtimeVars => ClockInv' /\ [Alarm!Next]_LeftNow
BY ClockStep DEF Moves

(* Alarms ring at their ticks, neither early nor late: the list that main  *)
(* and the interrupt share, with its wrapping times and rollover flags,    *)
(* implements the countdown of AlarmClock (alt_alarm_start, alt_tick).     *)
THEOREM AlarmsRingOnTime == RuntimeSpec => ImplementsAlarmClock
<1>1. RuntimeInit => ClockInv /\ Alarm!Init
  BY ClockInitially DEF RuntimeInit, Alarm!Init, Alarm!Off, LeftNow
<1>2. TimeInv /\ ClockInv /\ [RuntimeNext]_runtimeVars => ClockInv' /\ [Alarm!Next]_LeftNow
  BY ClockMoves
<1> QED BY <1>1, <1>2, TimeInvariant, PTL
        DEF RuntimeSpec, ImplementsAlarmClock, Alarm!Spec, LeftNow
=============================================================================
