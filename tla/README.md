# TLA+ models and proofs for the COMPSYS 701 correlation system

This directory models the hardware in `src/GP2`: a processor (ReCOP), four
application-specific processors (ASPs) and a Nios, joined by a TDMA network on
a chip. `src/GP2/TopLevel.vhd` puts them together. Samples of a mains signal
are averaged, the averages are correlated around a moving origin, and the peaks
of the correlation are timed. Also modelled: the assembler of the start-up
program that ReCOP runs, and the run-time library under the Nios program, as it
is configured and linked in this repository.

## 1. Inventory

### 1.1 Components

| Component | Source | State | Operations at a clock edge |
|---|---|---|---|
| TDMA-MIN network | `TdmaMin/*.vhd` | slot counter; one queue and one receive register per port | count; queue what the send port drives; push the head of the queue if it is for this slot's partner; register what the fabric delivers |
| Sampling ASP | `ADCAsp.vhd` | delay, its counter, bit size, send port | take a configuration; send a sample when the delay is over |
| Averaging ASP | `AvgAsp.vhd`, `AvgAsp_RAM.vhd`, `AverageDataRAM.vhd` | circular buffer, sum, pointer, window, interval and its counter; memory of averages, its address and output registers; request and trigger flags | configure; take a sample; store and announce an average; latch a request; answer it |
| Correlation ASP | `CorAsp.vhd` | states S0 to S3, window, counter, operands, result, two flags for the halves, three for its requests | decode a word; ask for an average; multiply; accumulate; send a half of the result or a request |
| Peak detection ASP | `PdAsp.vhd` | last correlation, direction, time counter, peak | join halves; find peaks; send a peak until it is acknowledged |
| Nios program | `Software/gp2/gp2.c` | last value, send port | poll the receive register; show a value; acknowledge |
| ReCOP send process | `ReCOP/recop.vhd` | reset and its counter, send port | reset after power-up and by key 0; send DPCR or a key as a packet |
| ReCOP processor | `ReCOP/controlunit.vhd`, `datapath.vhd`, `inst_reg.vhd`, `prog_counter.vhd`, `ALU.vhd`, `regfile.vhd`, `registers.vhd` | control state, fetch machine, registers, program counter, latched result, DPCR, two memories with address registers | fetch, decode, execute, each over several edges |
| Signal generator | `Gen/SignalGen.vhd` | a ROM of the vendor | output of the sample at an address |
| Assembler | `asm_to_mif.py`, `asm_init.asm` | none at run time | addresses of labels; words of an instruction; memory image |
| Nios run-time: files | `gp2_bsp/HAL/src/alt_*.c`, `drivers/src/altera_avalon_jtag_uart_*.c` | devices, table of descriptors, highest one, the UART's queues | start-up, redirection of the standard streams, `open`, `close`, `ioctl` (locks), `fcntl`, `read`, `write`, end of `main` |
| Nios run-time: interrupts, clock and alarms | `alt_alarm_start.c`, `alt_tick.c`, `alt_llist.h`, `alt_irq*.c`, `alt_irq.h`, `altera_avalon_timer_sc.c` | tick counter, list of alarms, interrupt enables, timer | start and stop an alarm; tick; walk the list; ring |

The directories beside `src/GP2` hold earlier versions of these parts, vendored
course material, generated vendor code and build outputs.

### 1.2 Interactions

Everything is clocked by one edge. An ASP has one send port and one receive
port of the network. It reads in its receive register a word that is there for
one clock, and it drives a word on its send port for one clock; bit 31 says
that there is a word. No ASP sees whether its word found room in the queue.

    ReCOP --configuration--> ADC, AVG, COR, PD
    ADC --sample--> AVG --new address, average--> COR --two halves--> PD --peak--> Nios
                    AVG <----average request----- COR             PD <--ack-- Nios

On the Nios, `alt_main` starts the timer and the console, redirects the standard
streams and calls `main`. `main` is the only thread; the timer's interrupt comes
between any two of its instructions while interrupts are on, and shares with it
the list of alarms. The console driver of this build is the one that polls
(`ALT_USE_SMALL_DRIVERS`), so that files and interrupts share nothing.

The exchange between AVG and COR is the only one with requests and answers. COR
asks for one average at a time, has no timeout and never repeats a request. The
trigger that starts a correlation travels as a flag with an answer.

### 1.3 What is hard

* *Order and distance in time.* There are no acknowledgements inside the
  signal path: a word is processed in the clock in which it is in the register.
  That two words do not meet rests on the slots of the network. Processes are
  written as VHDL processes that mix variables, which change at once, with
  signals, which change at the edge.
* *Full queues.* A word sent into a full queue vanishes without notice. The
  sampling ASP at its shortest delays fills the queues behind it.
* *A missing answer stops the correlation ASP.* It waits without a timeout.
* *Reconfiguration at any edge.* ReCOP may change windows and delays in the
  middle of a window or of a correlation.
* *Registers read one edge too early or too late,* like the answer sent before
  the memory has read the cell.
* *Registers behind registers.* The control unit registers its state, its next
  state and its outputs, the fetch machine and the memories likewise, so that
  every state of ReCOP lasts two edges and writes are seen twice.
* *A program without an end.* The program counter wraps, and the start-up
  program runs again and again; DPCR is sent at every edge while it is not empty.
* *Two copies of the instruction set*: numbers and operand places in the
  assembler (Python) and in the decoder (VHDL) are kept in agreement by hand.
* *A table shared by calls that fail half-way* (`open`), with locks that are
  searched for up to a high water mark.
* *A list changed by main and by an interrupt*, and times that wrap with the
  counter they are compared with.
* *No reset.* Only ReCOP and the Nios are reset by KEY0, not the ASPs and queues.

Nothing is persisted, no message is duplicated or reordered by the network, and
there is no concurrency other than that of the clocked processes, of the Nios
with them, and of its interrupt with its program. The full list,
at the line where each hazard bites, is under `hazards` in `PROJECT.json`.

### 1.4 What makes each component correct

| Component | Properties |
|---|---|
| Network | A word leaves only the head of its queue, goes to the port it is addressed to under its sender's address, and is lost only on its way into a full queue; it leaves within a round of slots for each place in the queue, an edge more when it comes into an empty one; two senders never meet at a receiver. |
| Averaging ASP | The sum is that of the buffer, and of the last window; every sample gives one average; an answer holds the cell that was asked for; one trigger gives one correlation. |
| Correlation ASP | One request out at a time; the result is the sum of the products around the origin; its two halves are of the same result; it never waits for ever. |
| Peak detection ASP and Nios | Halves are joined with those of the same result; the count is the distance of the peaks; every peak comes to the Nios; an acknowledgement clears a peak that has been read. |
| ReCOP and assembler | Every instruction has the effect of its description once, and is the one of the source line; every data call is sent; the start-up configurations fit into the queue and are repeated. |
| Files | The table is one of lowest free descriptors; no descriptor leaks; a device has one exclusive owner and is not opened meanwhile; a write ends. |
| Alarms | The list is whole at every interrupt; every alarm rings at its tick, neither early nor late, and does ring. |

## 2. Modules

| Module | Models | Notes |
|---|---|---|
| `TdmaMinTypes` | `log2Ceil` and `to_unsigned` of the generics | functions |
| `TdmaMinFabric` | switch, stage and fabric, wire by wire | a terminal is a function from bits to BOOLEAN, so that the number of stages is a parameter of the proofs |
| `TdmaMin` | slot counter, interfaces, queues (`scfifo`), whole network; `Next` lets every port send anything | one action, `Edge`: all registers change at the same edge. A slot is the value of the counter, a function from bits to BOOLEAN. `wait_state` hides a word written into an empty queue for one clock |
| `TdmaMinChannels` | abstract specification of the network: bounded FIFO channels | implemented by `TdmaMin` through `INSTANCE` |
| `TdmaMinLatency` | `TdmaMin` with a history variable: the deadline of every queued packet | |
| `ADCAsp` | the sampling ASP | |
| `AvgAsp` | the moving-average core | an action per branch of the process |
| `AvgAspRAM` | the averaging ASP: core, memory, request process | extends `AvgAsp` |
| `AvgAspWindow` | the core with any words, and history variables (samples taken) | |
| `CorAsp` | the correlation ASP | `Machine` is the state machine, `Transmit` the send part; an edge is both |
| `CorAspService` | `CorAsp` with a service that answers after any time, and history variables (last answers, end of the window) | the environment of its testbench `CorAsp_tb.vhd`, with any delay and averages that change; implemented by `SignalPath` (proved) |
| `SignalPath` | `TopLevel`: the ASPs of the signal path on the network | one step is one edge of all of them; ReCOP is an environment |
| `PdAsp` | the peak detection ASP | `Receive`, one action per branch of the slope test, `Transmit` |
| `Nios` | the loop of `gp2.c`, an action per access to the network port, and its reset | |
| `PeakPath` | `PdAsp` and `Nios` on the network, behind a correlation ASP that sends results of its own choice | |
| `ReCOPInstructions` | the instruction words, with the numbers of `opcodes.vhd` | `And` and `Or` of the ALU go from a word to the set of its ones and back |
| `ReCOPControl` | `controlunit.vhd`: its registers as one record, an action per state | |
| `ReCOPDatapath` | fetch machine, memories, registers, ALU, program counter, DPCR | one definition per register, `Step` is an edge of all |
| `ReCOP` | `recop.vhd`: the processor under its reset, and the send process | one step is one edge |
| `Assembler` | `asm_to_mif.py`, from lines to words | functions |
| `ReCOPISA` | abstract specification: a step is a whole instruction | implemented by `ReCOP` |
| `ReCOPRefinement` | `ReCOP` on an assembled program, with history variables: what a programmer sees, words sent | |
| `AltFiles` | the table `alt_fd_list` and the calls on it | the library is built without threads, a call is one step |
| `NiosFiles` | `alt_main`, `main` making any calls, the polling console driver, the UART's queues and host | the driver is one step per access |
| `FileTable` | abstract specification: a table of descriptors | implemented by `NiosFiles` |
| `AltAlarms` | the list of alarms link by link, main's calls on it, the timer, the interrupt | an action per step that an interrupt can come between |
| `AlarmClock` | abstract specification: every alarm counts down | implemented by `NiosRuntime` |
| `NiosRuntime` | files, alarms and interrupt under one `main` | composes `NiosFiles` and `AltAlarms` |
| `TdmaMinProofs`, `AvgAspWindowProofs`, `CorAspServiceProofs`, `SignalPathProofs`, `PeakPathProofs`, `ReCOPProofs`, `NiosRuntimeProofs` | theorems of the module in their name | `NiosRuntimeProofs` also holds those of `NiosFiles`, `TdmaMinProofs` those of the network with eight terminals that both paths need |
| `Sums` | lemmas about sums over finite sets, and about sets of numbers | used by four of the proof modules |
| `MC*` | TLC instances | two add a history variable: `MCPeakPathReads` what the Nios has read, `MCSignalPathTriggers` the triggers not yet served |

Every ASP module has `...Init` and `...Edge(word)`, where `word` is what the
receive register held before the edge. Names are those of the VHDL signals and
variables. `avg_ready'` in a guard or an expression is the value a variable has
later in the same process run.

Abstractions that hold for all of these modules:

* *Words are records.* `kind` stands for the bits that decoders test (31..28 and
  23..20, or 31..28 and 23), the other fields for the payload. A silent port has
  the data word `NoWord` (all zeros in the code).
* *Widths.* The sum wraps at `SumModulus` = 2^16, an 8-bit sample at `EightBits`
  = 2^8, addresses of the memory at `RamSize` = 2^10. The correlation is a
  natural number: its 36 bits hold the largest sum of seven 32-bit products.
* *Power-up.* Registers and variables start at their initial values in the
  declarations. Those without one (send ports, receive registers, queues, slot
  counter) start at zero, which is what the device family does.
* *Window code 000 of the correlation ASP.* The code passes -1 to
  `to_unsigned`, which a simulator rejects and the circuit wraps; the model wraps.
* *Registers that nothing reads* are left out of `PdAsp` (`peak_type`, `send_half`,
  `peak_detect_sent`, `correlation_peak_read`): their readers are commented out.
  The two low bits of an acknowledgement go only to such registers.
* *The Nios* reads and writes its port over a bus; any number of clocks may pass
  between two accesses, and key 0 may reset it, with its send registers, at any
  clock. The seven-segment digits are the value they show, `maxCorr`.
* *The scfifo* is a vendor block. Its netlist, generated for this very instance
  (`TdmaMinFifo.vhd`: 256 words, show-ahead, overflow checking), is kept under
  `src/IP/IRP_PD-ASP/db` (`scfifo_l191.tdf`, `a_dpfifo_s791.tdf`), and the model follows it:
  `full` is unconnected, a read and a write may come together, a write to a full
  queue is ignored even if the same edge reads, and a word written into a queue
  that is empty, or that the same edge empties, shows one clock later
  (`wait_state`).
* *Registers of ReCOP that nothing reads* (ER, EOT, SVOP, SOP, SIP, DPRR, the
  interrupt register) are left out, with the outputs of the control unit that
  only lead to them.
* *The ALU holds its result* where the code leaves the output of a combinational
  process unassigned: a latch.
* *A line of a program* is a label, a mnemonic and operands; how the text is split
  into them is not modelled.
* *Bytes of the console* are counted, not kept. *Callbacks of alarms* are the
  period they return; they call nothing. *Interrupts* are those of the timer: no
  other source is enabled in this build.
* *`mutant` definitions* next to a definition are variants of it with a plausible
  mistake. No specification uses them; they show that a property can fail.

## 3. What the runs check

Run with `tlc -config <cfg> <module>`; the list is in `PROJECT.json`.

### 3.1 Runs without an error

| Run | Instance | What it shows |
|---|---|---|
| `network` | 4 ports, queues of 2, two words and an address without a slot, one port sends anything | `TypeOK`; `FabricIsXorCircuit`: in every slot terminal q is joined to q xor slot; `ImplementsChannels`: every behaviour of the network is one of the channels, so that a packet addressed beyond the slots never leaves its queue; `BoundedLatency`: the k-th packet in a queue leaves within k rounds of the slot counter, and one into an empty queue within a round and an edge, as it misses its slot if it is written just before; `ImplementsFairChannels`: a routable head leaves as long as the clock runs. Two words and two places are enough for order and overflow to show. The queues of two senders do not affect each other, and that they never meet at a receiver is proved for every number of them (section 5), so that one sender is enough for the rest. |
| `average_window` | 4 cells, windows 2 and 4, samples {0, 1, 2}, intervals {0, 2} | `CoreTypeOK`; `SumIsBuffer`: differences never lose count of the sum, whatever the order of samples and packets; `GrownWindowSum`: while windows only grow, the sum is that of the last window, from one window after the packet. 8-bit samples are below 2, so that truncation happens. A window counts as made smaller also when the pointer is beyond it though every cell is zero: 8-bit samples of zero move the pointer, which then walks to the end of the buffer, so that the sum lags behind the window. |
| `correlation` | memory of 4, windows 2 and 4, and 4 at power-up, averages 1 and 2 | `CorTypeOK`; `OneRequestOut`; `HalvesOfOneResult`; `CorrelationIsWindowSum`: without a packet in the middle, the result is the sum of the products of the last answers for the window's addresses. Any answer comes after any time and any new address at any edge, so that some behaviour gives different values to the addresses that a mistake would confuse; two pairs show the counter. |
| `signal_path` | `TopLevel` with queues of 4, memory of 4, one-cell average, up to two packets | `TypeOK`; `OneExchange`; `CorQueueBound`; `AverageStoredOnce`; `CorKeepsFetching`: the correlation ASP never stops asking; `TriggerLeadsToResult`. Packets may set a sample every two clocks, a trigger at every sample, and a window of 8. |
| `peak_path` | ports 3, 4 and 7 of eight, queues of 2, results {1, 2}, one-bit counter, a result every 24 clocks or slower | `TypeOK`; `NiosAcknowledges`; `WholeResults`; `CountIsDistance`; `EveryPeakDelivered`, for any timing of the accesses and resets of the Nios. The two results have different halves, rises, falls and plateaus all occur, and the counter wraps. |
| `recop` | `asm_init.asm`; a loop over most instructions; one with labels; all pairs of 14 instructions; memory of 32 words, reset at any edge, key 2 held or not; a memory file of 32 words in a memory of 34 | `TypeOK`; `DecodedInTime`; `Instructions`: ReCOP implements `ReCOPISA`; `ExecutesTheSource`: what is executed is what the source line says, operand by operand; `EveryCallSent`; `StartUpFits`: what the start-up program sends fits the queue; `OnlyConfigures`: it sends configurations only, each to the ASP it is for; `StartUpIsRepeated`. Pairs are enough since what one instruction leaves behind for the next is in registers that every instruction sets again; the programs are shorter than the memory, so that the counter runs through the ones the assembler writes behind them and the zeros behind its file, and wraps. |
| `nios_runtime` | 6 descriptors, two devices, UART queues of 2; two alarms, a tick counter of 5 values, delays 0 and 3, periods 0 and 2 | `TypeOK`; `NoDescriptorLeaks`; `NoOpenWhileExclusive`; `ImplementsTable`; `WriteEnds`; `ListIntact`; `ImplementsAlarmClock`; `StartedAlarmRings`. Three descriptors beyond the standard ones are enough for an owner, a sharer and a failing open; a delay of 3 crosses the wrap of the counter from most of its values; two alarms are enough for an insertion, a removal at either end and a walk over both. There are three programs: one of files, one of alarms, and one that prints while an alarm runs, so that the timer interrupts its writes between any two steps of the driver. Their product would only multiply states, as files and alarms share no variable (proved, `RuntimeKeepsFiles`). |

The signal path is deterministic between packets, apart from the value of the
samples, which no property of these runs looks at. So the few packets and the
edges at which they come make its behaviours: `MaxConfigs` = 2 is a packet that
finds the system in any phase another packet has left it in. A queue of four
overruns at the fast sampling delay, as one of any depth does when samples come
faster than slots: a send port has one slot of eight for each partner.

Why `OneExchange` holds when queues are full is worth a word. With fast samples
the averaging ASP gets one sample in every round of eight slots and announces an
average in every round, and one word of its queue leaves in every round; each
answer adds a word, until the queue is full and a word is dropped. It is never
an answer. A request reaches the averaging ASP in the slot in which the queue
gives up a word; the answer is queued three edges later, the announcement of
the sample that came two slots after the request five edges later, so the
answer takes the place and the announcement is dropped. Nothing in the code
states this order; it follows from the addresses of the ports.

In `PeakPath` results come at the pace of the real correlation ASP. A result
takes at least three averages (for the start, the first and the second factor),
and averages come to it only in its slot with the averaging ASP, one in a round
of eight clocks: hence `MinGap` = 24. The first half leaves the process two edges
after the average that completes the result: hence the guard on `count`.

`EveryPeakDelivered` is another property that rests on phases. Copies of a peak
are sent at every clock, so that the queue may be full of them when the next peak
is detected, and an acknowledgement of the old one may clear the new one at the
next edge. But acknowledgements arrive in the slot in which the queue gives up a
word, and the copy that is sent while the flag is being cleared finds that place.

### 3.2 Runs with a counterexample

Each shows the code doing other than a comment of it says; `findings` in
`PROJECT.json` has the lines.

| Run | What TLC finds |
|---|---|
| `average_window_shrunk` | After a smaller window the cells outside it are never replaced and stay in the sum, however many samples follow. |
| `stale_answer` | The answer to a request is the cell of the request before: the memory's output register is read one edge too early. (In `signal_path` this does not show, as no property there depends on values; `CorAspService` takes whatever is answered. Theorem `AnswersAreLate` says for all sizes what the answers are.) |
| `peak_unread` | The acknowledgement stays on the send port of the Nios after the first peak, and clears a later peak that the program has not read. A peak is in the receive register for one clock in eight, so that the program may never read it. |
| `exclusive_lock` | `OneOwner`, which is the comment of `alt_fd_lock`, fails: the loop stops below `alt_max_fd` (`alt_fd_lock.c:61`), so that a lock is granted while the highest descriptor is open on the same device. Theorem `ExclusiveOnce` says what is left. |
| `repeated_trigger` | With a sample every 32 clocks, `corr_calculate` keeps its level after its correlation and starts further ones. |

Disagreements and surprises met while modelling that have no run, because no
property of this project or no program of the repository depends on them:

* *ReCOP.* Every control and fetch state lasts two edges, so STRPC stores twice
  and a data call is sent about 28 times. MAX, SRES, LER, CER, CEOT, SEOT and
  SSVOP have opcodes but no effect, LSIP loads 0. The word of zeros is an LDR in a mode
  it does not have, which loads a register with what the data memory puts out at
  the time; the counter meets it behind the assembled memory. A held key sends a packet at
  every edge and fills the queue of 256.
* *Assembler.* The single register of a data call goes to Rz (`asm_to_mif.py:98`), the
  data path sends Rx (`DATACALL Rx` in `opcodes.vhd:90`): a data call of any register
  sends R0, which is proved (`DataCallsSendR0`); `asm_init.asm` uses only R0.
  Addresses of labels count instructions, the decoder counts words
  (`asm_to_mif.py:161`), so that labels behind two-word instructions fall short;
  `JMP` to an address cannot be assembled (line 94 reads a variable that is
  not set); a label used without `$` loses its first letter; an operation on two
  registers and an immediate loses Rx; the memory file has 4096 words, ones behind the program, for a memory
  of 32768, so that zeros follow. The memory image that is committed is not that of `asm_init.asm`.
* *Files.* A read of no bytes returns an error, and `write` ignores `O_NONBLOCK`.
* *Alarms.* An alarm for 2^32 - 1 ticks rings at the next one. Starting an alarm
  that is in the list, or stopping the next one from a callback, breaks the walk:
  the model's program does neither. Timeouts that come while one is pending are
  one tick.

## 4. Fairness

* *The clock.* In `TdmaMin`, `SignalPath`, `PeakPath` and `ReCOP` only the clock is
  fair: `Spec /\ WF_vars(Next)`, in `SignalPath` as `[]<><<Next>>_vars`, which is
  the same since an edge is always possible. Each step is an edge of
  everything, so no process can be starved. Senders, samples, configuration
  packets and keys are never assumed to come. The abstract channels let a
  routable head leave, which the network implements.
* *The Nios* goes on with the call it is in (`WF` of `CallRuns`, `Interrupt`,
  `StartUp`), as a processor does; `main` is never assumed to make a call. A write is
  interrupted again and again, so that its next step is not enabled all the time:
  `Poll` is strongly fair, and handlers return (`[]<>(isr = NoInterrupt)`), since the
  timer's period is a millisecond and its handler far shorter.
* *The timer* expires again and again (`WF` of `Expire`), as it runs freely.
* *The interrupt* is taken with strong fairness: `main` may turn interrupts off
  and on for ever, but the processor takes a pending one before the instruction
  after the one that turns them on.
* *The host* reads its terminal (`WF` of `HostTakes`); without it a polling write
  waits for ever, which is what the driver does. The host is never assumed to
  type.

## 5. What is proved

| Theorem | Statement | Assumptions |
|---|---|---|
| `TdmaMinProofs!FabricIsXor`, `FabricIsCircuit` | the columns of switches are the permutation q xor slot; `FabricIsXorCircuit` holds of every slot | at least one stage |
| `TdmaMinProofs!TypeCorrect` | `Spec => []TypeOK` | depth positive; `Idle` is no word |
| `TdmaMinProofs!NetworkImplementsChannels` | `Spec => Channels!Spec`, for every number of stages, set of ports, depth and words | the same, and addresses beyond the slots are no terminals |
| `TdmaMinProofs!FarHeadsBlock` | the action property `FarHeadBlocks`, which no run checks beside `ImplementsChannels`: a packet addressed beyond the slots keeps the head of its queue for ever | the same |
| `TdmaMinProofs!LatencyIsBounded` | `LatencySpec => []BoundedLatency`: the k-th packet of a queue leaves within k rounds, the first with an edge more if it comes into an empty queue | the same |
| `AvgAspWindowProofs!CoreTypeCorrect`, `AccumulatorIsSum`, `AccumulatorIsWindow` | `WindowSpec => []CoreTypeOK`, `[]SumIsBuffer`, `[]GrownWindowSum`, for any length of the buffer and any windows in it | a buffer of the largest samples is below the modulus of the accumulator, as 64 * 1023 is below 2^16 |
| `CorAspServiceProofs!CorTypeCorrect` | `ServiceSpec => []CorTypeOK` | memory not empty, windows positive |
| `CorAspServiceProofs!OneRequestAtATime` | `ServiceSpec => []OneRequestOut`, for any memory and windows | the same |
| `CorAspServiceProofs!HalvesStayTogether` | the action property `HalvesOfOneResult` | the same |
| `CorAspServiceProofs!CorrelationsAreWindowSums` | the action property `CorrelationIsWindowSum`: a result is the sum of the products of the last answers for its window, wherever in the memory that lies | the same, and averages are numbers; the window fits the memory (in the property) |
| `SignalPathProofs!SignalPathTypeCorrect` | `Spec => []TypeOK`, for any sizes, delays, windows and samples | three stages and ports 1 to 5, as in the top level; queues of three or more; ReCOP sends configuration packets, to any address at any edge |
| `SignalPathProofs!ExchangesAreNeverLost`, `CorQueueIsBounded` | `Spec => []OneExchange`, `[]CorQueueBound` | the same |
| `SignalPathProofs!AveragesAreStoredOnce` | the action property `AverageStoredOnce` | the same |
| `SignalPathProofs!PathIsAService` | `HistorySpec => Service!ServiceSpec`: the signal path implements `CorAspService`. `HistorySpec` is the path with history variables that decide nothing | the same |
| `SignalPathProofs!PathCorrelatesAnswers` | `HistorySpec => Service!CorrelationIsWindowSum` | the same |
| `SignalPathProofs!AnswersAreLate` | `HistorySpec => []AnswerIsLate`: what each answer is, by the state the correlation ASP waits in | the same |
| `PeakPathProofs!PathTypeCorrect`, `NiosOnlyAcknowledges` | `Spec => []TypeOK`, `[]NiosAcknowledges` | three stages and ports 3, 4, 7, as in the top level; queues of two or more |
| `PeakPathProofs!CountsAreDistances`, `ResultsAreWhole` | the action properties `CountIsDistance`, `WholeResults`, for any results and any width of the counter | the same, and results at least two rounds apart |
| `ReCOPProofs!ReCOPTypeCorrect`, `InstructionsAreDecodedInTime` | `RSpec => []TypeOK`, `[]DecodedInTime`, for any program | memories not empty, a program counter of at most 16 bits, words of 16 bits |
| `ReCOPProofs!CallsAreSent` | the action property `EveryCallSent` | the same |
| `ReCOPProofs!ReCOPImplementsInstructions` | `RSpec => Instructions`: the processor implements `ReCOPISA`, for any program, keys, and resets at any edge | the same |
| `ReCOPProofs!SourcesAreExecuted` | `RSpec => []ExecutesTheSource`, for any programs, keys, and resets at any edge | the same, and every program is `Plain`: its lines lose no register in the assembler, and its words fit the memory |
| `ReCOPProofs!DataCallsSendR0` | the word of a data call decodes to R0, whatever register its line names | |
| `ReCOPProofs!StartUpFitsQueue`, `StartUpConfigures` | `RSpec => []StartUpFits`, `[]OnlyConfigures`, for the start-up program in a memory of any size, any keys, and resets at any edge | as for the first ReCOP row, and the start-up program fits the memory (in the theorems) |
| `NiosRuntimeProofs!FilesTypeCorrect`, `DescriptorsDoNotLeak` | `Spec => []TypeOK`, `[]NoDescriptorLeaks` | more than three descriptors; the console and the null device are different devices |
| `NiosRuntimeProofs!ExclusiveOnce` | `Spec => []SharerAbove`, what the code leaves of `OneOwner`: another descriptor on the device of an exclusive one is above it and does not have the lock | the same |
| `NiosRuntimeProofs!ExclusiveMeansRefused` | the action property `NoOpenWhileExclusive` | the same |
| `NiosRuntimeProofs!FilesImplementTable` | `Spec => Table!Spec`, for any number of descriptors, devices, modes and size of the queues | the same |
| `NiosRuntimeProofs!StreamsStayOnConsole` | the standard streams are on the console from the start of `main`, whatever it closes | the same |
| `NiosRuntimeProofs!PollingLosesNoByte` | the driver never writes into a full queue | the same |
| `NiosRuntimeProofs!ListStaysIntact` | `RuntimeSpec => []ListIntact`, for any set of alarms | the counter has a value, delays are less than a round |
| `NiosRuntimeProofs!InterruptsAreExcluded` | none runs while main changes the list | the same |
| `NiosRuntimeProofs!RuntimeKeepsFiles`, `RuntimeImplementsTable` | `RuntimeSpec => Spec`: what is proved of files holds with alarms and interrupts | |
| `NiosRuntimeProofs!AlarmsRingOnTime` | `RuntimeSpec => Alarm!Spec`, for any alarms, delays, periods and width of the counter | the same as for the list |

**Fabric.** The proof follows the wires: after the columns n .. Stages-1 the
word at a terminal comes from the terminal whose bits are rotated by the number
of columns passed and flipped by the bits of the slot. This statement is shown
for one column and carried through all of them by induction on a set
of numbers.

**Network.** `TypeOK` is inductive. A step of the network maps to the step of
the channels in which exactly the ready ports hand over: two ready ports with
the same destination are the same port, as xor with the slot is injective, and
the fabric theorem says that each receiver gets its partner's word. The
refinement mapping keeps the queues and forgets the address in a receive register
that holds no word.

**Latency.** A packet has to wait for the slot of its destination, so that the
proof needs slots as numbers: the value of a vector of bits, that every number
below 2^Stages is the value of exactly one, and that the counter adds one to it.
The invariant says of every deadline that it lies within a round of the one
before, at the slot of its packet's partner; only the first may have an edge more than a
round, at the one clock at which its queue does not show it yet.

**Sums.** What a recursion computes needs induction, and the library's induction
theorems cannot be used here. `Sums` goes around this with sets: the least number
theorem for well-founded sets gives induction in the form "0 is in T, and n + 1
is with n, so all numbers are in T", where T is a set and no operator. With it
the fold that defines a sum is shown to have a solution, to take out any element
first, and so to grow, shift and exchange summands.

**Averaging ASP.** The accumulator is the sum of the cells as each sample replaces
one summand, and never wraps as all the cells together stay below the modulus.
That it is the sum of the last samples needs where each of them is: counted back
from the pointer around the window, with zeros outside, once as many samples have
come as the window is long; before that, the invariant says how much of the
window is known to be in this order.

**Correlation ASP.** `OneRequestOut` is not inductive: it says nothing of the
state in which an average comes, nor of the halves. `CorInv` adds that an average
is used at the edge at which it comes, that in S2 no request is out or wanted,
and that halves are still to send only in S0 and before the next request is out:
the send part sends them first, so that no average can come that would start a
correlation and clear the result. `CorTypeOK /\ CorInv` is inductive; the proof
has one step per action of `Machine` and of `Transmit`.
`CorrelationIsWindowSum` needs `WindowInv` around it: the request that is out is
for the address in `avg_data_mem_addr`, and in each state the registers hold the
origin, the sum of the first `counter` products and a factor or the product of
the next pair. Averages change while they are fetched, so that the sum is one of
answers; a later answer does not change an earlier product, as the addresses of all
pairs are different while the window fits the memory (`PairsApart`). That the two
addresses of a pair, which the code counts from the origin up and down modulo the
memory, are those of the window counted back from its end is arithmetic of remainders.

**Signal path.** That nothing of an exchange is lost rests on two numbers that are
far apart in the code. `ExchangeInv` has four cases: no exchange, a request
on the send port of the correlation ASP, a request as the last word of its queue,
or an answer coming back, at one of five places. The first case counts how many words
of a result the queue must still take: together with those in it they are never
more than two, so that a request is the third at most. The way back is through a queue
that samples may have filled; here `SlotInv` says in which slot each word arrives and
in which each register of the averaging ASP is set. The slot that joins the two ASPs
takes a word out of that queue, none is put in for the next two edges, and
the answer comes at the third: `count = Port(4)`, with a place free. The same slots
show that a request never meets a sample, nor a configuration packet `avg_ready`.

With `ExchangeInv` the rest of the path is a service to the correlation ASP:
a request is `Pending` from the edge at which it leaves the send port to that at
which its answer is read, so that an answer comes only when one is pending, and
it is then the only one. So the theorems about `CorAspService` hold in the path.
What the answers are is `LateInv`: when a request comes,
the memory puts out the cell of the old address at the very edge that sets the new
one, and the averaging ASP sends that cell at the next, so that an answer is of the
request before. The correlation ASP asks for its origin and then, with c its counter, in turn for
`origin - c - 1` and `origin + c`; it gets the cells `origin + c` and
`origin - c`, each as it was when the request after it came. The pair c of a
result is thus of the averages c before and c after the origin, where the addresses
asked for are c + 1 before and c after; the pair 0 is of the origin and of whatever
was asked for before it.

**End of the signal path.** The invariant follows the halves of each result: the
clocks since the result came fix in which of the send port, queue and receive
register either half is, given the slot of the counter; so the first half of
a result never meets the second half of another. For the Nios it says which
words its two send registers, which change one after the other, can make together.

**ReCOP.** The control unit and the fetch machine share no signal that says where
the other is: they agree only by counting edges since the reset. `ReCOPInv`
ties each state of the one to the phase of the other and to what the
instruction register holds. For the refinement `Seen` adds what of
the instruction has already happened: the zero flag changes before the
instruction ends, registers and the data memory are written at two edges in a row with
the same value, and at the last edge the program counter moves. Every step of
the processor is then a whole instruction, a reset or a stutter of `ReCOPISA`.

**Assembler.** A program's words are those of its lines one behind the other. That
line i begins where the widths of the lines before it add up to is shown by
induction on the lines, with the lemmas on sums; that a word has the fields it was
made of is arithmetic of two, six, four and four bits; and the second word is
there exactly if the decoder asks for one. `Plain` names the lines for which the fields
are those that are meant: it leaves out the data calls of other registers
than R0 (`DataCallsSendR0`) and the other losses listed in section 3.2. Together
with `DecodedInTime` this is `ExecutesTheSource`. The programs of run `recop` are all
`Plain`, which TLC evaluates (`PlainAssumption`).

**Start-up program.** Its meaning is known word by word (`StartUpWords`), whatever
the size of the memory behind it, and no step of the program writes the program
memory. `StartUpInv` says where the program can be, what R0 holds before each of
its calls and what DPCR can hold. No instruction takes more than fifteen edges, and each
edge but the last leads to a later one (`Edges`), so that the address of
the instruction and the edges since it began bound the words sent so far: DPCR is
not empty for six instructions, and the last call, of zeros, empties it; that makes at most
97 words of the 256 the queue holds. A reset starts the count again, and so does the end of the
program, where the counter wraps. By the same invariant each word that is sent is a
configuration that its ASP knows as its own, and keys send no other; this
is what the proofs about the signal path assume of ReCOP.

**Files.** `NoDescriptorLeaks` and `SharerAbove` are part of one inductive
invariant, `FilesInv`. It adds that entries are released whole, that main's
descriptors are at most `alt_max_fd`, which is at least 3 once `main` runs, and
how far the redirection of the streams is. With it the search of `alt_fd_lock`, which
stops below `alt_max_fd`, misses at most one other user of the device, and
`alt_open` refuses every later one: this is `SharerAbove`, what is left of
`OneOwner`. The console driver has an invariant of its own: a poll that
found room stays true, since only the host changes the queue meanwhile.

**List of alarms.** `TimeInv` says of every node that both links stay among the
nodes and undo each other (`Ring`), and that a set with the head that is closed
under `next` is the whole list (`Whole`), which says without induction that a
walk meets every alarm. `Whole` is also what rules out that an alarm has the
same other alarm on both sides, without which a removal would take two out.
Around this the invariant keeps what is true of alarms outside the list, how far
main's call is, and that interrupts are off meanwhile.

**Alarm clock.** Between ticks every alarm in the list is `Settled`: its time is
not the present one, and its rollover flag says whether the counter wraps before.
In a tick those are settled that the walk has passed, where "passed" is again a
statement about closed sets: every set that is closed under `next` up to the head
and has the walker in it contains all alarms that are not settled. With the
arithmetic of the counter (`Difference`, `Sum`, `NextTick`) each step of the
library is then a tick, a ring, a start, a stop or a stutter of the countdown.

Only model-checked is liveness, which is beyond the prover; every invariant of
the runs of section 3.1 is also a theorem.

## 6. Not modelled

* *The signal generator* (a wrapper of a vendor ROM) is the nondeterministic input
  of the sampling ASP. Memories, PLLs, the Nios system and its bus are vendor or
  generated code; where they matter they appear as the code uses them.
* *ReCOP in `SignalPath`.* There it is an environment that sends configuration
  packets, as its start-up program and its keys do, to any port at any edge: the
  product of the two is out of TLC's reach, and more packets than ReCOP can send
  are allowed. That ReCOP sends no other word is proved apart (`StartUpConfigures`).
  Hence "partly" for the top level.
* *The process of `TopLevelTest.vhd`* that answers for the Nios in simulation, and
  parts of `src/GP2/ReCOP` that the top level does not instantiate.
* *What the Nios run-time does not link or use*: the interrupt driver of the UART
  (this build defines `ALT_USE_SMALL_DRIVERS`), logging and profiling (compiled
  out), DMA channels, flash, caches, environment, sleep, heap and the like: no part
  of the program calls them, and they share no state with what is modelled.
  `fstat`, `isatty` and `lseek` change no state. `gettimeofday` and
  `settimeofday` are not called.
* *Headers, register macros and generated constants*, whose values are the constants
  of the models.
* *Earlier versions* of the same components, course material and build outputs,
  beside `src/GP2`.

Most of the C code of the repository is of these last kinds, and much of its text
is licences and declarations; the system's own logic is the VHDL. So the share of
the C lines that the models stand for stays small, and modelling the rest would
say nothing about this system.

Four hazards have no property: the window code 000 of the correlation ASP, the
8-bit setting of the sampling ASP that lasts one edge, the flood of packets of a
held key, and an alarm for 2^32 - 1 ticks. `PROJECT.json` says why at each.

## 7. Order of the work

The order was that of importance for the system: first the network that carries
everything and its proofs, then the path of the samples, then its end, then the
processor with its assembler, then the run-time of the Nios and its proofs. What
could follow:

* `ReCOP` in place of the environment of `SignalPath`, as `PathCorrelatesAnswers` has
  it for the averaging ASP: the proofs about the path allow any configuration
  packet, and `StartUpConfigures` shows that ReCOP sends no other word, so that
  what remains is one specification of both and a proof from the two.
