------------------------------ MODULE FileTable ------------------------------
(***************************************************************************)
(* What a program may expect of file descriptors: opening gives the lowest *)
(* free descriptor or fails without a trace, closing frees a descriptor,   *)
(* and nothing else changes the device or the access mode behind one. The  *)
(* three standard descriptors are always there; they are redirected once,  *)
(* before the program starts. AltFiles implements this specification.      *)
(***************************************************************************)
EXTENDS Integers

CONSTANTS Devices, Limit

VARIABLE table   \* Of every descriptor, the device and access mode, or Closed.

Standard   == 0 .. 2
Descriptor == 0 .. Limit - 1
Access     == {"O_RDONLY", "O_WRONLY", "O_RDWR"}
Closed     == [dev |-> "none", acc |-> "O_RDONLY"]
Opened     == [dev : Devices, acc : Access]

Lowest(fd) == table[fd] = Closed /\ \A lower \in 0 .. fd - 1 : table[lower] # Closed

Init == \E o \in Opened :
          table = [fd \in Descriptor |-> IF fd \in Standard THEN o ELSE Closed]

Open == \E fd \in Descriptor, o \in Opened :
          Lowest(fd) /\ table' = [table EXCEPT ![fd] = o]

Close == \E fd \in Descriptor \ Standard :
           table[fd] # Closed /\ table' = [table EXCEPT ![fd] = Closed]

(* Redirection: as long as only the standard descriptors are open. *)
Redirect == \E fd \in Standard, o \in Opened :
              /\ \A other \in Descriptor \ Standard : table[other] = Closed
              /\ table' = [table EXCEPT ![fd] = o]

Next == Open \/ Close \/ Redirect

Spec == Init /\ [][Next]_table
=============================================================================
