# TLA+ models of the I8085 trace simulator

`tool-i8085-trace` executes 8085 programs: a processor core in C, a run loop with a schedule
of interrupts, plugins that stand for the chips of a board, a netlist engine that wires the
pins of the chips and of the processor, host channels (TCP, stdout) behind the serial chip,
and a GDB stub. These modules state what those parts promise to each other, check it with TLC
on small boards and prove the most important part of it with TLAPS. Paths are relative to the
repository.

## The system

Everything the simulator does happens in one thread. One iteration of the loop in
`src/main.cpp` raises the interrupts that are due, looks for a reason to stop, calls
`io_runtime_on_step` (ticks the host channels, steps every plugin, settles the netlist and
delivers its levels), calls `Emulate8085Op` (accepts an interrupt and executes one
instruction, which calls plugins back for IN, OUT and memory writes) and fires the timers.
Concurrency comes from outside: terminals on a socket, and the order in which requests meet
instructions.

| Component | State it keeps | Operations | Interacts with | What makes it correct |
|---|---|---|---|---|
| CPU core (`i8085_exec.c`, `i8085_state.c`) | registers, flags, interrupt enable and its delay, masks, pending requests, halt | `Emulate8085Op`, `triggerInterrupt`, `Reset8085` | called by run loop and GDB stub; calls the I/O hooks | critical sections hold, no request is lost, EI and HLT combine, priorities serve everyone they should; instructions compute what programs rely on |
| Run loop (`main.cpp`) | step, schedule index, last pc/sp, clock, timers, tracepoint hits | the loop; option parsing, loading, output | core, I/O runtime | interrupts on time; a run stops for the reason it gives |
| Logic net (`logic_net.cpp`) | node levels, gate outputs, warnings given | `parse`, `bind`, `step` | reads and writes pins through `io_runtime.cpp` | delivered levels solve the net's equations; instability and conflicts are reported |
| I/O runtime (`io_runtime.cpp`) | plugins, pin handles, wiring flag | `on_step`, `io_write`, `io_pre_read`, `io_read`, `mem_write`, plugin and netlist loading | everyone | wired and directly driven boards agree |
| MC6850 (`plugins/mc6850.cpp`) | receive register, script position, live queue, /RTS, interrupt enable | `on_step`, port handlers, `snapshot`, `pin_set` | channels, core, netlist | bytes in order, none lost, flow control, each byte interrupts |
| Host channels (`io_channel.cpp`) | sockets, receive and transmit queues | `open`, `tick`, `read`, `write`, `close` | plugins, terminals | order and completeness on both ways; a terminal that left is replaced |
| GDB stub (`gdb_stub.cpp`) | breakpoints, poll counter, whether it runs the target | packets, step, continue, break | core, debugger on a socket | requests and answers stay in step; a stop is true; the target runs as without a debugger; registers mean what they say |
| 8254 timer (`plugins/pit8254.cpp`) | three counters, latches, read/write phase, clock remainder | control, counter access, `on_step` | core, netlist | output and count follow time; latched counts are read whole |
| 8255 ports (`plugins/i8255.cpp`) | mode word, latches, pin levels | mode set, bit set/reset, ports, `pin_set` | netlist | a read shows the board as it stands |
| Memory plugin (`plugins/memory.cpp`) | regions | `on_mem_write` | core | protected regions keep their contents |
| Disk emulator (`disk_emu.cpp`) | two open files, name address, data byte, status | port handlers | host files, memory | files hold what was written; a failed command does no harm |
| Board viewer, console, disassembler | none the simulation reads | | | not modelled |

Hard to test here: a request that meets EI, DI, HLT or SIM at the wrong instruction; requests
that share a latch; the two paths (direct and wired) from chip to processor; a netlist with
feedback or long gate chains, settled from stale levels; terminals that come and go in the
middle of flow control; ends of a run that are decided on state sampled earlier in the
iteration; flags that are wrong for a few operands only; words and stacks that meet the end of
memory or a protected region; a break of the debugger that crosses a stop reply; a count latched, half read
and loaded again while it runs; ports that turn round under a netlist; a disk command that fails half way.
`PROJECT.json` lists every such hazard at its line with the properties that watch it.

## Modules

| Module | Models | Notes |
|---|---|---|
| `I8085Core` | the processor as operators on a record | used by the three specifications below it |
| `InterruptCore` | the processor under arbitrary requests | `Trigger` may happen between any two instructions |
| `InterruptCore_proofs` | | typing, critical sections, requests, nesting; `GdbStub_proofs` instantiates it |
| `Alu` | arithmetic, logic and flags on bytes and words | pure operators, at full width |
| `InstructionSet` | registers, flags, memory and every data and control instruction; the memory plugins | each program runs with and without an interrupt |
| `CarefulJobs` | which programs and handlers an interrupt cannot disturb | extends `InstructionSet` |
| `InstructionSet_proofs` | | what the arithmetic amounts to; protected memory, widths and the debugger's registers, for every program; that interrupts change nothing for careful ones |
| `RunLoop` | the main loop, one action per way an iteration ends | plugins and netlist are arbitrary levels on the wired pins |
| `RunLoop_proofs` | | timers keep their phase, the schedule is kept, an idle stop is final |
| `NetEquations` | nets, gates, resolution of a node, the equations of a net | pure operators |
| `WiredNet` | abstract: inputs get a solution of the equations, or instability is reported | |
| `LogicNet` | `Net::step`, one action per settle pass | implements `WiredNet` |
| `LogicNet_proofs` | | settling without feedback, conflicts, the refinement |
| `Mc6850` | the serial chip as operators on its context | |
| `SerialPort` | chip, TCP channel, terminals and an arbitrary program | |
| `SerialPort_proofs` | | order, flow control and the script, for all scripts and outputs |
| `WiredBoard` | processor and chip as the run loop drives them, with and without a netlist | composes `I8085Core`, `Mc6850`, `NetEquations` |
| `WiredBoard_proofs` | | both boards agree; a handler that reads first finds a byte |
| `Pit8254` | the timer as operators on its context, and the wave of a mode as a function of time | |
| `I8255` | the ports as operators on the chip's context | |
| `DiskEmu` | the disk emulator as operators on its state and the files of its directory | |
| `IoBoard` | timer, ports and disk behind the I/O runtime, a netlist and an arbitrary program | composes `Pit8254`, `I8255`, `DiskEmu`, `NetEquations` |
| `IoBoard_proofs` | | the wave, the latch, the ports and the disk, for every program and board |
| `GdbStub` | the stub's session with a debugger, and its own loop around an instruction | extends `I8085Core`; compared with `RunLoop` |
| `GdbStub_proofs` | | requests and answers stay in step, stops are true, the target is undisturbed |
| `GdbRegisters` | the debugger's register packets in both numberings | extends `InstructionSet` |
| `MC...` | programs, nets, scenarios and inputs for TLC | |

### How state and actions correspond to the code

* **Processor.** The record `Cpu` has the fields of `State8085` under their names. Its data is
  abstract: the accumulator is the set of its 1 bits (RIM, SIM and the serial chip's control
  word give them a meaning), computing instructions are one `NOP`, a conditional jump takes
  either branch, and the stack is a small circular area of words apart from the program.
  `Emulate8085Op` is the whole call: acceptance, early return while halted, the instruction,
  the EI countdown at its end. Addresses wrap at `AddrSize` (65536 in the code).
* **Instruction set.** The record in `m` has the registers, the flags of `Flags` and the memory, kept as
  the bytes that were loaded or stored (all others are 0, as `calloc` leaves them). An opcode is
  decoded by its fields of 2, 3 and 3 bits, which is how the 256 cases of the switch are laid out;
  the cases that repeat one body for every register are one operator. Every store goes through
  `mem_wr`, which asks the memory plugins as `io_runtime_mem_write` does. Addresses of stores wrap
  at 64K; the code's reads of a second or third byte (`memory[sp + 1]`, `opcode[1]`) do not, and what lies
  behind the array is any of `Beyond`. `m` may be interrupted at every instruction boundary and `plain`
  executes the same program undisturbed, which lets an invariant compare the two. A job ends at its
  HLT. T-states are left out here (they are in `I8085Core` and `RunLoop`); a reader of the source will
  notice that CNZ (1243) lacks the braces the other conditional calls have and always counts 9.
* **Careful jobs.** `CarefulJobs` adds no behaviour. It says, instruction by instruction, which bytes an opcode
  reads (`Reads`), which it pushes (`Pushed`), how long it is and which registers it may change, and builds on these
  two conditions. The program is followed along its undisturbed run, the trail: every point of it has the
  bytes that a handler may have spoiled by then (the words below the stack pointer wherever interrupts are on, and the
  handler's variables), and no instruction may read one; a PUSH or CALL makes two of them good again. The handler is
  checked like a typed program, whatever the program was doing: a frame for each of its addresses says what the
  registers and the pushed words hold there in terms of what the interrupt found, every instruction has to lead from
  its frame into the next one's, and RET needs an empty stack and all pairs given back, flags included.
* **Run loop.** An iteration is one action, in the order of the code: schedule, tracepoints,
  stop address, loop detection, pins, instruction, timers, halt. A scenario is what the option
  parser can produce. `std::sort` leaves requests of the same step in any order, and so does
  `Sorted`.
* **Logic net.** `Begin` reads directions and drivers once, `Settle` is one pass over nodes
  and gates, `Deliver` reports and writes the inputs. The order of nodes inside a pass does
  not matter because a pass reads only drivers and old gate outputs.
* **Serial chip and channel.** Bytes are opaque. `nextArrival` is kept relative to the step, so
  there is no clock. A step is `io_channels_tick` and then `on_step`, which drains everything
  a tick can receive (64 bytes both), so the channel's own queue is empty between steps.
  Sockets behave as on Linux; a write to a terminal that left may be lost or fail.
* **Board.** One action is one iteration on both boards: the chip's step, the direct latch or
  the netlist, one instruction and its port access. The netlist settles between instructions,
  as `LogicNet` shows, so its level is given by the recursive definition `Evaluated`.
* **Board of I/O devices.** An iteration of `IoBoard` is `io_runtime_on_step` and one instruction: the timer
  steps by the T-states of the last instruction, the netlist carries levels between pins whose
  directions are read at that moment, and a RUN, IN or OUT follows, with the hook after a read.
  The program is any sequence of the board's instructions. Beside the devices the specification
  keeps an account of its own: `age`, the ticks since a counter was loaded; `watch`, a latched count and the
  bytes read of it; `said`, what was written to the port; `told`, the disk as the program knows it from its own commands
  and the host's refusals: files, which of them are open, how much was read, the registers and the answer
  (`Commanded`); nothing of it is taken from the emulator's state. Modes 6 and 7 of a control word are 2 and 3 as in the
  code; a byte has `ByteSize` values, 256 in the code, so that a count has `ByteSize * ByteSize`. The host may refuse to open a file or to
  take a byte (`Refusals`). It refuses a byte when the program writes it; in the code `fputc` fills a buffer
  (`src/disk_emu.cpp:154`), so that a flush the host refuses may lose bytes that were answered "ok" before, and what
  `fclose` returns is ignored (112, 171): that loss is left out.
* **GDB stub.** `phase` is where `gdb_main` is: in `recv_packet`, stepping off a breakpoint, in the loop
  of a continue, in the one-byte read after an answer (`ack`, and `bye` after the last). The connection keeps
  order until the debugger leaves, which it may do at any moment; it may send a break once after a
  request that resumes the target. Requests that read and write registers or memory are one
  request, `data`, and `GdbRegisters` has the register packets: g, G, p and P as sequences
  of numbers, at the ends of `InstructionSet`'s programs.

A definition whose name ends in a fault (`EndDelay_NoFloor`, `Poke_OnArrival`, ...) is the
definition before or after it with a plausible mistake; it is used by nothing and serves to
show that a property notices that mistake.

## Runs

| Run | Shows |
|---|---|
| `interrupt_core` | DI opens a critical section that only an executed EI ends; EI lets one instruction pass; EI and HLT cannot lose the wake-up; executing loses no request; handlers ending in EI; RET do not nest; RST 7.5 is served |
| `instruction_set` | programs for multi-byte and decimal arithmetic, shifts, products, scans, copies, recursion, dispatch and inline parameters leave the right numbers in memory, with an interrupt before any one of their instructions; the handler is invisible, flags included; protected bytes keep their value; every program ends |
| `run_loop` | scheduled interrupts come in their own iteration, timers keep their phase, a run without interrupt sources ends only when nothing more could happen, a halted program waits for its schedule |
| `logic_net` | what is delivered solves the net, or instability is reported; a net without feedback settles to the levels of its inputs alone; conflicts are reported |
| `serial_port` | received and sent bytes keep their order and number; a stopped sender is stopped; a master reset returns a scripted byte; departures are noticed and typed bytes arrive |
| `wired_board` | direct and wired boards agree state by state; a handler that reads first always finds a byte; a received byte is read in the end |
| `io_board` | output and count of a timer are functions of time whatever is done between; latched counts are read whole; a port read shows the board as it stands; files hold what was written and are read as they are, and every disk command is answered by what is open, through failures and refusals |
| `gdb_stub` | the debugger's request is in exactly one place and its answer is one to it; a stop reply is true; the target moves only when resumed, and as the run loop would move it; every request, and every break of a continue, is answered |

`instruction_set` also looks at every program's end through the debugger's eyes (`RegistersExact`): what g and p
show are the registers, P changes the one it names and none that shares nothing with it, and for the i8085 numbering G puts back what g
has shown.

Four more runs show disagreements between the code and what it says of itself. Each checks one
property on the smallest scenario that shows it:

| Run | What the code does |
|---|---|
| `run_loop_loop` | a handler that is a bare RET looks like an infinite loop |
| `run_loop_timer` | a halted processor adds no T-states, so a `--timer` never wakes it |
| `serial_port_script` | reading a live byte also advances the script |
| `gdb_registers` | with `--gdb-arch=z80` G writes the registers in the other numbering and does not restore what g has shown |

### Observations without a run

The models have these behaviours as the code has them. Comments say otherwise of the first, which no run of its own
shows; no document does of the others.

* RST 7.5 is latched by level: `triggerInterrupt` sets the latch whenever it is told of a high level
  (`src/i8085_state.c:81`), the netlist tells it of the pin's level at every step (`src/io_runtime.cpp:390`) and the
  serial chip sets the latch at every step itself (`plugins/mc6850.cpp:188`), so a pin that stays high after an
  acceptance interrupts again as soon as interrupts are enabled. The comments call it a latch that is set "only on rising edge" (`src/i8085_state.c:82`) and an "edge-triggered
  flip-flop" (`src/i8085_exec.c:543`). A handler whose first instruction reads the byte is not called
  twice for it (`HandlerFindsByte`); one that reads it later is called again and finds none, unless it resets the latch
  with SIM after the read.
* A stop address or tracepoint at a handler's first instruction is passed over: pc is compared
  before the call that accepts the interrupt and executes that instruction (`src/main.cpp:986`).
* EI; HLT with a request already latched ends the run as halted although the next call would accept
  the request (`src/main.cpp:1023`).
* In mode 3 an odd count gives two halves of the same length (`plugins/pit8254.cpp:108`), where the low half of the
  chip is a tick shorter; `WaveOut` is the plugin's wave.
* ADI and CPI leave V as an earlier instruction set it (`src/i8085_exec.c:1258`), unlike ADD and CMP.
* Under `--gdb` the schedule of `--irq` is ignored; a breakpoint at a handler's first instruction
  is missed when the interrupt is accepted there, and so is one right behind another breakpoint
  (`src/gdb_stub.cpp:706`); a halted processor with timers is never woken (no T-states pass) and only a break
  ends the continue, and one without is reported as stopped, though a driven pin might
  wake it (`src/gdb_stub.cpp:728`); a debugger that leaves during a continue is not noticed.
* The packets M and `P 6` write memory past the hooks of `mem_wr`, so a debugger can change protected memory.
  A packet without content (`$#00`) is taken for the end of the connection.

### Bounds

* Address space 96 (vectors end at 60, programs stand above), stack of 3 words or fewer, so
  that nesting, wrap-around and underflow all occur. The interrupt state does not depend on
  either size; the proofs are for all.
* `InstructionSet`: full width throughout. 56 jobs take their operands at the borders of signs, carries,
  borrows and decimal digits (reference results are computed on the numbers, not with `Alu`), put the stack
  across the end of memory and their data across both borders of a ROM, of an EEPROM that is locked and of
  one that is not. One interrupt at every possible instruction (`MaxRequests` = 1: a handler
  runs with interrupts disabled until its RET, so a second one starts at a boundary of the program as the
  first did). `StackReach` = 64 bytes
  below the stack pointer are the handler's to use, far more than any job needs. All 252 opcodes
  of the module exist in it; the jobs execute those that their algorithms need.
* `RunLoop`: 20 steps (`MaxSteps` is `--max-steps`, itself a feature); schedules end by step 7 and
  timer periods are between 4 and 50 T-states, below and above the length of an instruction.
* `LogicNet`: `MaxPasses` is 6 instead of 16. The nets have at most 5 gates and include a latch,
  a ring, reconvergent paths, a shared open-drain line and a pin that changes direction; a chain
  longer than the passes is covered by the theorem about the refinement.
* `SerialPort`: buffers of 1 byte kept and 2 per tick (8192 and 64), 2 connections, a script of
  2 bytes, 3 typed and 2 written: every queue fills, empties and overflows.
* `WiredBoard`: 2 scripted and 2 live bytes, five pairs of program and handler.
* `IoBoard`: bytes of 3 values, so that counts have 9 and odd, even, smallest and largest (0) counts all
  occur in every mode, and a counter wraps within a few instructions; divisors 3, 4 and 7 of T-states of 5 and 10,
  so that remainders are carried. Files of at most 2 bytes (`MaxFile`), two names, one of which a
  length cuts short. Six boards: pairs of bytes in modes 0 and 3, single bytes, a gate held low, the netlist of
  `test/wiring_selfloop.sh` with an inverter and the timer's output added, and the disk; 745,507 states.
  The theorems of `IoBoard_proofs` are for every size of a byte.
* `GdbStub`: the connection is looked at every 2 instructions (`PollEvery`, 1024 in the code), two breakpoints,
  a timer of 7 T-states (shorter than most instructions, so that it is several periods late), or a pin
  that may change at every instruction, or two timers that are late at once, whose requests meet in the order
  of the command line. The queues are not bounded: the protocol keeps them at 4 and 2
  messages.

### Fairness

The run loop waits for nothing, so a step is always taken again: weak fairness of the
processor's step (`InterruptCore` and `InstructionSet`, where requests are under no obligation), of the iteration
(`RunLoop`, `WiredBoard`), and of the simulator's step but not of terminals or program
(`SerialPort`). In `GdbStub` the stub goes on whenever it can and a debugger that is there reads what
it is sent (`Hear`); it is under no obligation to ask, to break in or to stay. `IoBoard` has safety properties
only and states no fairness. `AllTypedArrives` states what it needs of the program (/RTS asserted for good, the
register emptied again and again) in the formula. `LogicNet` states no liveness: a call runs
at most `MaxPasses` passes.

## Proofs

`tlapm` proves, for every value of the constants that meets the named assumptions, all the safety
properties that the passing runs check. The assumptions say what the code or the option parser gives: an
address space above the last vector, a non-empty stack, well-formed programs, boards, nets and scenarios (`IsBoard`,
`IsScenario`, `IsNet`, `IsJob`), the bounds of the runs being numbers. Five properties are about programs or nets that are built in
a certain way; the condition on them is a definition of its own (`Disciplined`, `ReadsFirst`, `Acyclic` for
nets, `IsCareful` for jobs) that TLC evaluates on the instances of the runs.

* `InterruptCore_proofs`: `TypeOK`, `CriticalSection`, `EIShadow`, `HaltedNotArmed`, `RequestsSurvive` and
  `NestingBounded`. None of
  the invariants behind `TypeOK` is inductive. The invariant `IInv` adds what relates the enable
  flip-flop to its countdown: after a DI or before the first EI both are 0; in the shadow of an EI the
  flip-flop is 0 and the countdown is 1; a halted processor has no countdown. `ExecuteLemma` says what
  every instruction does to those two fields, `EmulateLemma` what a whole call does, and the step proof
  needs nothing else of the instruction set. `RequestsSurvive` is an action property: acceptance clears
  the winner's request alone (`AcceptRequests`), no instruction but SIM with bit 4 clears one
  (`ExecuteRequests`), and a call is the one after the other. `NestingInv` says where the program is: in its main
  part with the stack as it started, or in a handler with one return address into the main part, interrupts off or armed
  in front of the RET.
* `RunLoop_proofs`: `TimerPhase`, `ScheduleKept` and `IdleStopIsFinal`. For timers, `CatchUp` shows that the loop's jump over
  missed periods lands on the first multiple of the period beyond the clock, and that no instruction takes
  negative time. For the schedule, the requests due are a prefix of the sorted list (`DueFirst`), so the
  index is their number (`NoGap`: an initial segment of a sequence is as long as its cardinality); equal steps may
  stand in any order. `IdleInv` says that without a source of requests none is ever latched, and that a pc and sp equal
  to those of the iteration before mean a jump to itself; it needs a stack of more than one word and a program
  that does not start at the last address with the stack at the top, where the loop's memory starts (`EntryElsewhere`).
* `SerialPort_proofs`: `TypeOK`, `RxInOrder`, `TxInOrder`, `StopHolds` and `ScriptKept`, for every script, output, set
  of typed texts and buffer size. The invariant adds where bytes come from (`Sources`: scripted and typed bytes are told
  apart), that a connected terminal has been handed everything kept for it (`HandedOver`), that what was
  read since /RTS went away and what is still in the register are one byte at most (`Paced`), and that without live input the register
  holds the next byte of the script (`ScriptRead`).
* `WiredBoard_proofs`: `WiringEquivalent`, because the pull-up and the inverter of `test/wiring_irq.sh` resolve to 1
  exactly while the chip asserts /IRQ (`PinFollowsRequest`, the recursive function `Evaluated` unfolded on the four nodes), so that the
  delivered level does what the chip's own call does. `HandlerFindsByte`: `FindInv` says that a latched RST 7.5 means a full
  register, that before the control byte is written no request can be raised, and that afterwards only the handler's first
  instruction empties the register, in the very call that accepted the request.
* `GdbStub_proofs`: `TypeOK`, `InSync`, `StopsTrue` and `Undisturbed`, for every program, timer, driven pin, request and poll
  distance. The
  invariant of the first three is the list of the four stages of a request (`Idle`, `Asking`, `Running`, `Answering`) with everything that can
  be on its way in each, six shapes of the stub's queue at most. It shows why a crossing break does no harm:
  the one byte the stub waits for after an answer absorbs it, and the acknowledgement it displaces is
  skipped before the next request. `Undisturbed` is an action property: whatever phase an instruction is executed in, the stub's own
  timers and pins (`fire_timers`, `Driven`) raise the same requests as the run loop's (`ExecutionFollows`). The typing of the
  processor behind the stub is that of `InterruptCore_proofs`, which is instantiated for it.
* `IoBoard_proofs`: the wave of a mode is a function of the time since the load. `TickFollowsWave`: one tick takes a
  counter from its wave's state to the next, in all modes and for all counts, 0 included; `StepFollowsWave`: so does a
  whole step of any number of ticks; `AccessKeepsWave`: no access but a whole new count disturbs it; `LatchHolds` and
  `LatchReadWhole`: a latched count
  stays and is read whole. `TimerInv` joins them to `OutFollowsTime` and `LatchExact` of the board. `PortsShowBoard`: the
  fold over the pins that a step delivers leaves each input with the level that the net's equations give it (`OnePinMore`),
  on boards that give a pin one node (`OneNodePerPin`; with two wires on a pin the code lets the last one win).
  `DiskExact`: `DiskAgrees` relates files, open files, positions, registers and status to the program's own account of its
  commands, one lemma per command, through every command that fails and every refusal.
* `InstructionSet_proofs`: `RomSafe`, that `RomKept` holds for every program, every set of plugins and every
  moment of an interrupt. The inductive invariant says that memory agrees with the loaded image on all
  protected bytes. `MemWrIntact` shows that the write path keeps it, `FieldIntact` that other assignments
  do, and one lemma per group of opcodes that all its stores use the write path. `WidthsKept`, that `TypeOK` holds: the same
  groups of opcodes, with a lemma each that what they store fits its C type (`Machine`, which is `Formed` and the
  fields being there, is the inductive form). `RegistersExactHolds`: in every such state the debugger's packets
  are exact. A write leaves alone what shares no part with it (`WriteElsewhere`), reads back as written (`WriteHere`), and the fifteen
  writes of G leave the processor as it was (`AllWritten`).
  About single instructions: additions and subtractions with carry lose nothing (`AdditionExact`,
  `SubtractionExact`); after CMP the sign and overflow flags order signed numbers (`SignedOrder`);
  ADD and ADC, SUB and SBB on two bytes agree with DAD and DSUB on words (`WordAddition`,
  `WordSubtraction`); DAA after an addition of packed decimals gives the decimal sum and its carry
  (`DecimalAddition`). The last rests on `Correction`, the same statement in plain numbers.
* Also in `InstructionSet_proofs`: `HandlerInvisible`, that `Transparent` holds for every job of `Careful`, and `ResultsRight`,
  that `JobsRight` does where the undisturbed run is right (`RightAlone`), for any number of interrupts anywhere
  and any set of plugins. The invariant `Guided` says that the undisturbed machine is at a point of the
  trail. While the program runs, the interrupted one differs from it at most in that point's hidden bytes (`Alike`);
  while the handler runs, the frame of its pc holds (`Serves`) and the program stands still. The step of the program is
  `EmulateAlike`: two machines that differ in bytes an instruction does not read (`Reads`) execute the same opcode and still differ in
  those bytes only, less what it pushed; one lemma per group of opcodes. The steps of the handler are
  `AcceptServes` and `HandlerEmulates`: acceptance establishes the first frame, every instruction leads to the next
  frame, and the RET gives back pc, sp, registers and flags. They need that the flags come back from their byte (`PswBack`),
  that a calm instruction changes no more than `Changes` says (`CalmQuiet`), and arithmetic on the ring of
  stack addresses (`BelowBelow`, `BelowBack`, `BelowApart`), whose words no other store of the handler can hit and no plugin
  protects (`Slot`). That the handler's stack pointer differs from the program's until its RET (`HandlerBelow`) is
  why the specification takes no other instruction for the end of the handler. TLC evaluates `IsCareful` on all 56 jobs
  of the run before it starts; the trails and frames it needs are computed from the jobs
  (`Discipline` of `MCInstructionSet`), those of the copying job with everything reads behind the memory may find.
* `LogicNet_proofs`: `TypeOK`, `GatesFollow` (which the refinement rests on), `ConflictsReported`, `AcyclicSettles` and the
  refinement `Implements`. The
  invariant says that gate outputs follow the levels after every pass, and that when the loop
  leaves without having run out of passes the levels are those that the present gate outputs give,
  hence a solution. A `Settle` step is a stutter of `WiredNet`, a `Deliver` step is `Deliver` or
  `Unstable`. For `AcyclicSettles` a node that still changes in a pass has a chain of as many gates in front of it
  (`DeepStep`); without a loop no gate occurs twice in a chain, so there is none as long as the passes (`NoDeep`), and the
  solution of such a net is the only one (`OneSolution`).

Folds and recursive functions are unfolded in these proofs with an explicit function that meets their
definition, or one whose existence is proved (`FoldExists`). The library's induction rules take an operator
and cannot be used; `SetInduction` and `SubsetInduction` state induction over numbers and over finite sets as facts about sets,
and are proved from the theorems on finite sets.

Only model-checked:

* that the 56 programs of `InstructionSet` compute the right numbers when nothing interrupts them (the hypothesis
  `RightAlone` of `ResultsRight`): each would need a proof of its own. TLC's behaviours without an
  interrupt show it, as part of `JobsRight`;
* liveness everywhere (`Rst75Served`, `AllEnd`, `HaltedWaitsForSchedule`, `LeftIsNoticed`, `AllTypedArrives`,
  `ByteIsServed`, `Answered`), which is out of the prover's reach.

## Not modelled, and the plan

Done: the core in two views (interrupts, instruction set), the run loop, the logic net, the serial chip
with its channel, the serial board, the GDB stub, the timer, the ports and the disk, each of them in the
composition in which it runs. What could still be added, in this order:

1. T-states: one table for `I8085Core` and `InstructionSet`, and a refinement from the second to the first.
2. The memory packets of the stub and the form of its packets (lengths, checksums, the empty packet).
3. The stdout and gdbtx channels, and several channels on one chip.
4. Proofs: that the chip of `SerialPort` on the wired board loses no byte, from the invariants of the two; `CarefulJobs`
   for handlers that push a bounded but varying number of words, or call subroutines.

Left out for good: file loading (flat and ELF), the parser of the netlist text, trace, coverage and
dump output, dynamic loading of plugins, the board viewer, the console program and the
disassembler: input, output and formatting with no state that the rest reads. The SIGPIPE that a
send may raise and Windows' sockets are the platform's.
