----------------------------- MODULE AvgAspRAM -----------------------------
(***************************************************************************)
(* The averaging ASP: the moving-average core, the memory its results go   *)
(* to, and the process that announces every result to the correlation ASP  *)
(* and answers its requests.                                               *)
(***************************************************************************)
EXTENDS AvgAsp

CONSTANTS
  RamSize,   \* Cells of the memory, 2^10.
  NoWord     \* The data word of a send port that drives zeros.

VARIABLES
  ram,
  ram_q,                  \* the output register of the memory
  ram_raddr, ram_waddr,
  read_request,           \* a request is waiting for its answer
  prev_corr_calculate,    \* a trigger has been seen and not yet been sent
  sendSignal              \* the send port
avgRamVars == <<ram, ram_q, ram_raddr, ram_waddr, read_request,
                prev_corr_calculate, sendSignal>>
avgVars == <<avgCoreVars, avgRamVars>>

CorAddr == 3

----------------------------------------------------------------------------
AvgInit ==
  /\ AvgCoreInit
  /\ ram = [a \in 0 .. RamSize - 1 |-> 0]
  /\ ram_q = 0
  /\ ram_raddr = 0
  /\ ram_waddr = 0
  /\ read_request = FALSE
  /\ prev_corr_calculate = FALSE
  /\ sendSignal = [addr |-> 0, data |-> NoWord]

(* AverageDataRAM: a clocked read, which sees the cell as it was before a  *)
(* write at the same edge.                                                 *)
RamEdge ==
  /\ ram' = IF avg_ready THEN [ram EXCEPT ![ram_waddr] = avg_data] ELSE ram
  /\ ram_q' = ram[ram_raddr]

IsRequest(word) == word.kind = "avg_request"

LatchRequest(word) == ram_raddr' = IF IsRequest(word) THEN word.addr ELSE ram_raddr

NextCellOver(a) == a + 1   \* mutant: does not wrap
NextCell(a) == (a + 1) % RamSize

(* A request waits for its answer after this edge. *)
Requested(word) == read_request \/ IsRequest(word)

AnnounceAverage(word) ==
  /\ avg_ready
  /\ sendSignal' = [addr |-> CorAddr, data |-> [kind |-> "new_address", addr |-> ram_waddr]]
  /\ ram_waddr' = NextCell(ram_waddr)
  /\ read_request' = Requested(word)
  /\ prev_corr_calculate' = (prev_corr_calculate \/ corr_calculate)

(* Clears read_request also when a new request arrives at this edge. *)
AnswerRequest(word) ==
  /\ ~ avg_ready /\ read_request
  /\ sendSignal' = [addr |-> CorAddr,
                    data |-> [kind |-> "average", calculate |-> prev_corr_calculate,
                              value |-> ram_q]]
  /\ read_request' = FALSE
  /\ prev_corr_calculate' = FALSE
  /\ UNCHANGED ram_waddr

SendNothing(word) ==
  /\ ~ avg_ready /\ ~ read_request
  /\ sendSignal' = [addr |-> 0, data |-> NoWord]
  /\ read_request' = Requested(word)
  /\ prev_corr_calculate' = (prev_corr_calculate \/ corr_calculate)
  /\ UNCHANGED ram_waddr

AvgEdge(word) ==
  /\ AvgCoreEdge(word)
  /\ RamEdge
  /\ LatchRequest(word)
  /\ AnnounceAverage(word) \/ AnswerRequest(word) \/ SendNothing(word)
============================================================================
