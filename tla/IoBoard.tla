------------------------------ MODULE IoBoard ------------------------------
(***************************************************************************)
(* The timer, the parallel port and the disk emulator behind the I/O       *)
(* runtime (io_runtime.cpp), driven by an arbitrary program.  Each         *)
(* iteration of the run loop steps the chips by the time the last          *)
(* instruction took, lets the netlist carry levels from pin to pin, and    *)
(* executes an instruction: an OUT, an IN or one that only takes time.     *)
(*                                                                         *)
(* A port is a device and one of its four registers: the windows of the    *)
(* devices do not overlap.  The netlist settles between two instructions,  *)
(* as LogicNet shows; of the processor's pins there are none here, they    *)
(* are in WiredBoard.                                                      *)
(*                                                                         *)
(* What the properties compare the devices with is kept beside them: the   *)
(* time since a counter was loaded, and what the program said to the port  *)
(* and the disk.                                                           *)
(***************************************************************************)
EXTENDS Pit8254, SequencesExt

CONSTANTS
  Boards,       \* the boards and programs to explore: see IsBoard
  Memory,       \* file names in memory
  MaxFile       \* bound on the bytes of a file

Ppi == INSTANCE I8255
Disk == INSTANCE DiskEmu
Net == INSTANCE NetEquations

Device == {"pit", "ppi", "disk"}

\* What an OUT to a register may carry: a byte, and a control word or a command as its
\* fields.
Values(dev, reg) ==
  CASE dev = "pit" /\ reg # 3 -> Octet
    [] dev = "pit" /\ reg = 3 -> [sc : 0 .. 3, rw : 0 .. 3, mode : 0 .. 7]
    [] dev = "ppi" /\ reg # 3 -> SUBSET (0 .. 7)
    [] dev = "ppi" /\ reg = 3 -> Ppi!ModeWord \cup Ppi!BitWord
    [] dev = "disk" /\ reg = 0 -> Disk!Commands
    [] OTHER -> Nat

\* An instruction of the program: RUN takes T-states, no more than the timer counts in
\* one step; IN and OUT have a register of a device.
MaxStates == 262144
IsInstruction(i) ==
  \/ i.op = "RUN" /\ i.states \in Nat /\ i.states <= MaxStates
  \/ i.op = "IN" /\ i.dev \in Device /\ i.reg \in 0 .. 3
  \/ i.op = "OUT" /\ i.dev \in Device /\ i.reg \in 0 .. 3 /\ i.value \in Values(i.dev, i.reg)

\* guest has the instructions of the program, files what is in the directory of the disk.
\* pins tells which pin an endpoint of the netlist is: OUT of a counter or a bit of a port.
IsBoard(b) ==
  /\ b.clkdiv \in Nat \ {0} /\ b.gateMask \subseteq 0 .. 2
  /\ Net!IsNet(b.net) /\ IsFiniteSet(Net!Endpoints(b.net))
  /\ b.pins \in [Net!Endpoints(b.net) -> [port : {"OUT"}, bit : 0 .. 2]
                                            \cup [port : {"A", "B", "C"}, bit : 0 .. 7]]
  /\ b.files \in [DOMAIN b.files -> Seq(Nat)]
  /\ \A i \in b.guest : IsInstruction(i)

ASSUME BoardsAssumption == \A b \in Boards : IsBoard(b)
ASSUME MemoryAssumption == \A a \in DOMAIN Memory : a \in Nat /\ Memory[a] \in Seq(Nat)

VARIABLES
  board,      \* the board of this behaviour
  pit, ppi, disk,
  states,     \* T-states of the last instruction
  got,        \* what the last instruction read from a port of the 8255
  clock,      \* history: all T-states, modulo clkdiv
  age,        \* history: ticks since a counter was loaded, as SinceLoad counts them
  watch,      \* history: the count at a latch command and the bytes read since
  torn,       \* history: such bytes were not those of the count
  said,       \* history: the port as the program has set it up
  told        \* history: the disk as the program knows it from what it has done

vars == <<board, pit, ppi, disk, states, got, clock, age, watch, torn, said, told>>

None == [none |-> TRUE]

Init ==
  /\ board \in Boards
  /\ pit = Reset(board.clkdiv, board.gateMask)
  /\ ppi = Ppi!on_reset(Ppi!Created(Ppi!NoBits))
  /\ disk = Disk!disk_emu_init(board.files)
  /\ states = 0 /\ got = None
  /\ clock = 0 /\ age = [i \in 0 .. 2 |-> 0]
  /\ watch = [i \in 0 .. 2 |-> None] /\ torn = FALSE
  /\ said = ppi
  /\ told = [files |-> board.files, reading |-> <<>>, writing |-> <<>>, taken |-> 0,
             lo |-> 0, hi |-> 0, data |-> 0, status |-> "ok"]

----------------------------------------------------------------------------
(* The netlist, between two instructions *)

LevelOf(high) == IF high THEN "1" ELSE "0"

\* rt_is_output: the direction of a pin at this moment.
IsOutput(q, e) ==
  LET pin == board.pins[e] IN pin.port = "OUT" \/ pin.bit \notin Ppi!InputBits(q, pin.port)

\* rt_read_output of the pins that are outputs.
Driven(p, q) ==
  [e \in Net!Endpoints(board.net) |->
     LET pin == board.pins[e]
     IN  IF ~IsOutput(q, e) THEN "Z"
         ELSE IF pin.port = "OUT" THEN LevelOf(p.c[pin.bit].out)
         ELSE LevelOf(pin.bit \in Ppi!readPort(q, pin.port))]

\* rt_write_input: the port as its input pins have been given their levels.
Wired(p, q) ==
  LET level == Net!Evaluated(board.net, Driven(p, q))
      inputs == {e \in Net!Endpoints(board.net) : ~IsOutput(q, e)}
  IN  FoldSet(LAMBDA e, r : Ppi!pin_set(r, board.pins[e].port, board.pins[e].bit,
                                        level[board.net.wire[e]]), q, inputs)

----------------------------------------------------------------------------
(* One instruction *)

\* The T-states of IN and OUT.
IoStates == 10

\* The devices after their step, p and q.
Run(i, p, q) ==
  /\ i.op = "RUN"
  /\ pit' = p /\ ppi' = q /\ UNCHANGED disk
  /\ states' = i.states /\ got' = None

\* The host may refuse what a command to the disk asks of it.
IsCommand(i) == i.op = "OUT" /\ i.dev = "disk" /\ i.reg = 0
Refusals(i) == IF IsCommand(i) THEN BOOLEAN ELSE {FALSE}

Out(i, p, q, refused) ==
  /\ i.op = "OUT"
  /\ pit' = IF i.dev = "pit" THEN on_io_write(p, i.reg, i.value) ELSE p
  /\ ppi' = IF i.dev = "ppi" THEN Ppi!on_io_write(q, i.reg, i.value) ELSE q
  /\ disk' = IF i.dev = "disk" THEN Disk!disk_emu_on_io_write(disk, i.reg, i.value, refused)
             ELSE disk
  /\ states' = IoStates /\ got' = None

ReadValue(i, p, q) ==
  CASE i.dev = "pit" -> readCounterByte(p.c[i.reg])
    [] i.dev = "ppi" -> Ppi!readPort(q, <<"A", "B", "C">>[i.reg + 1])
    [] OTHER -> Disk!disk_emu_on_io_pre_read(disk, i.reg)

\* The read itself, then the hook after it.
In(i, p, q) ==
  /\ i.op = "IN"
  /\ got' = IF i.dev = "ppi" /\ i.reg # 3 THEN [reg |-> i.reg, value |-> ReadValue(i, p, q)]
           ELSE None
  /\ pit' = IF i.dev = "pit" THEN on_io_post_read(p, i.reg) ELSE p
  /\ ppi' = q /\ UNCHANGED disk
  /\ states' = IoStates

----------------------------------------------------------------------------
(* The account that is kept of it *)

Ticks == (clock + states) \div board.clkdiv

\* An OUT that gives counter n its count.
Loads(i, n) ==
  /\ i.op = "OUT" /\ i.dev = "pit" /\ i.reg = n
  /\ pit.c[n].rw = 3 => pit.c[n].writeMsbNext

Aged(i, n) ==
  IF Loads(i, n) \/ ~pit.c[n].running THEN 0
  ELSE IF n \notin board.gateMask THEN age[n]
  ELSE SinceLoad(pit.c[n], age[n] + Ticks)

ToControl(i, n) == i.op = "OUT" /\ i.dev = "pit" /\ i.reg = 3 /\ i.value.sc = n
ReadsCounter(i, n) == i.op = "IN" /\ i.dev = "pit" /\ i.reg = n /\ watch[n] # None

\* The bytes that make up what a latched counter is read as.
Expected(k, value) ==
  CASE k.rw = 1 -> <<Low(value)>>
    [] k.rw = 2 -> <<High(value)>>
    [] OTHER -> <<Low(value), High(value)>>

BytesRead(n, p) == Append(watch[n].bytes, readCounterByte(p.c[n]))

Watched(i, n, p) ==
  CASE ToControl(i, n) /\ i.value.rw # 0 -> None
    [] ToControl(i, n) /\ i.value.rw = 0 /\ watch[n] = None ->
         [value |-> p.c[n].count % FullSize, bytes |-> <<>>]
    [] ReadsCounter(i, n) ->
         IF Len(BytesRead(n, p)) = Len(Expected(p.c[n], watch[n].value)) THEN None
         ELSE [watch[n] EXCEPT !.bytes = BytesRead(n, p)]
    [] OTHER -> watch[n]

\* The bytes read are not, or not the beginning of, those of the latched count.
Torn(i, n, p) ==
  ReadsCounter(i, n) /\ ~IsPrefix(BytesRead(n, p), Expected(p.c[n], watch[n].value))

\* A mode word leaves the outputs of the port 0.
Said(i) ==
  IF ~(i.op = "OUT" /\ i.dev = "ppi") THEN said
  ELSE CASE i.reg = 3 /\ i.value.set -> [said EXCEPT !.ctrl = i.value, !.out = Ppi!NoBits]
         [] i.reg = 3 /\ ~i.value.set ->
              [said EXCEPT !.out["C"] = IF i.value.value THEN @ \cup {i.value.bit} ELSE @ \ {i.value.bit}]
         [] OTHER -> [said EXCEPT !.out[<<"A", "B", "C">>[i.reg + 1]] = i.value]

\* The disk, by what the program has asked and by what the host refuses it: told.reading
\* and told.writing are the names of the files it has open, each none or one, and
\* told.taken is how many bytes it has read of the first.
NameSaid == Disk!extractFilename(256 * told.hi + told.lo, told.data)
TextRead == Disk!Contents(told, told.reading[1])

Succeeds(cmd, refused) ==
  CASE cmd = "open_read" -> ~refused /\ NameSaid \in DOMAIN told.files \cup {<<>>}
    [] cmd = "open_write" -> ~refused /\ NameSaid # <<>>
    [] cmd = "read" -> told.reading # <<>> /\ told.taken < Len(TextRead)
    [] cmd = "write" -> ~refused /\ told.writing # <<>>
    [] cmd = "rewind" -> told.reading # <<>>
    [] OTHER -> cmd = "close"

FilesAfter(cmd, ok) ==
  CASE ok /\ cmd = "open_write" ->
         [x \in DOMAIN told.files \cup {NameSaid} |-> IF x = NameSaid THEN <<>> ELSE told.files[x]]
    [] ok /\ cmd = "write" -> [told.files EXCEPT ![told.writing[1]] = Append(@, told.data)]
    [] OTHER -> told.files

\* The file open for reading, or for writing, after a command: "open" is the one that
\* opens such a file and closes it, if it fails.
OpenAfter(cmd, ok, open, before) ==
  CASE cmd = open -> IF ok THEN <<NameSaid>> ELSE <<>>
    [] cmd = "close" -> <<>>
    [] OTHER -> before

Commanded(cmd, refused) ==
  LET ok == Succeeds(cmd, refused)
  IN  [files |-> FilesAfter(cmd, ok),
       reading |-> OpenAfter(cmd, ok, "open_read", told.reading),
       writing |-> OpenAfter(cmd, ok, "open_write", told.writing),
       taken |-> CASE cmd \in {"open_read", "rewind", "close"} -> 0
                   [] cmd = "read" /\ ok -> told.taken + 1
                   [] OTHER -> told.taken,
       lo |-> told.lo, hi |-> told.hi,
       data |-> IF cmd # "read" THEN told.data ELSE IF ok THEN TextRead[told.taken + 1] ELSE 0,
       status |-> CASE ok -> "ok"
                    [] ~ok /\ cmd = "read" /\ told.reading # <<>> -> "eof"
                    [] OTHER -> "error"]

Told(i, refused) ==
  IF ~(i.op = "OUT" /\ i.dev = "disk") THEN told
  ELSE CASE i.reg = 0 -> Commanded(i.value, refused)
         [] i.reg = 1 -> [told EXCEPT !.data = i.value]
         [] i.reg = 2 -> [told EXCEPT !.lo = i.value]
         [] OTHER -> [told EXCEPT !.hi = i.value]

Record(i, p, refused) ==
  /\ clock' = (clock + states) % board.clkdiv
  /\ age' = [n \in 0 .. 2 |-> Aged(i, n)]
  /\ watch' = [n \in 0 .. 2 |-> Watched(i, n, p)]
  /\ torn' = (torn \/ \E n \in 0 .. 2 : Torn(i, n, p))
  /\ said' = Said(i)
  /\ told' = Told(i, refused)

----------------------------------------------------------------------------

\* The program keeps to what the model of the disk covers: files of bounded length,
\* none of them open twice.
Allowed(i) ==
  IsCommand(i) =>
    CASE i.value = "write" -> told.writing # <<>> => Len(told.files[told.writing[1]]) < MaxFile
      [] i.value = "open_write" -> told.reading # <<NameSaid>>
      [] i.value = "open_read" -> told.writing # <<NameSaid>>
      [] OTHER -> TRUE

\* Fault: the netlist settles before the chips have made their step.
Stepped_NetFirst == <<on_step(pit, states), Wired(pit, ppi)>>

\* io_runtime_on_step: the chips first, then the netlist.
Stepped == LET p == on_step(pit, states) IN <<p, Wired(p, ppi)>>

Instruction(i) ==
  \E s \in {Stepped}, refused \in Refusals(i) :
    /\ Allowed(i)
    /\ Run(i, s[1], s[2]) \/ Out(i, s[1], s[2], refused) \/ In(i, s[1], s[2])
    /\ Record(i, s[1], refused)
    /\ UNCHANGED board

Next == \E i \in board.guest : Instruction(i)

Spec == Init /\ [][Next]_vars

----------------------------------------------------------------------------
(* Properties *)

\* OUT and the count of a running counter are functions of the time since it was
\* loaded, whatever else the program did, and however instructions and clock ticks
\* meet: odd counts, a count of 0 for the largest, a frozen gate (pit8254.cpp 95-125, 212-229).
OutFollowsTime ==
  \A i \in 0 .. 2 : pit.c[i].running =>
    /\ pit.c[i].out = WaveOut(pit.c[i], age[i])
    /\ pit.c[i].count = WaveCount(pit.c[i], age[i])

\* The bytes read after a latch command are those of the count at the command: not
\* torn by ticks between them, by a second command or by a pair already half read
\* (pit8254.cpp 141-149, 187-210).
LatchExact == ~torn

\* The level a pin of the net has, from what the program has set up and from time alone.
IdealDrive(e) ==
  LET pin == board.pins[e]
      k == pit.c[pin.bit]
  IN  CASE pin.port = "OUT" -> LevelOf(IF k.running THEN WaveOut(k, age[pin.bit]) ELSE k.mode # 0)
        [] pin.port # "OUT" /\ pin.bit \in Ppi!InputBits(said, pin.port) -> "Z"
        [] OTHER -> LevelOf(pin.bit \in said.out[pin.port])

PinAt(port, bit) == {e \in Net!Endpoints(board.net) : board.pins[e] = [port |-> port, bit |-> bit]}

\* What a program reads from a port: its outputs as it has written them since the last
\* mode word, its wired inputs as the net stands at this moment, the others 0.
IdealPort(port) ==
  LET level == Net!Evaluated(board.net, [e \in Net!Endpoints(board.net) |-> IdealDrive(e)])
  IN  {bit \in 0 .. 7 :
         IF bit \in Ppi!InputBits(said, port)
         THEN \E e \in PinAt(port, bit) : level[board.net.wire[e]] = "1"
         ELSE bit \in said.out[port]}

\* A read of a port shows the board as it stands, though the chip has only levels it
\* was given before: also right after a mode word has turned ports round, for the
\* timer's output of this step, and for a pin that nothing drives (i8255.cpp 78-113,
\* io_runtime.cpp 310-376, 463-478; test/wiring_selfloop.sh).
PortsShowBoard ==
  got # None => got.value = IdealPort(<<"A", "B", "C">>[got.reg + 1])

\* Files hold what the program wrote, in order, it reads what they hold, and every
\* command is answered as its own account of open files says: a command that fails has
\* closed a file or changed the data byte all the same, which serves for lengths, for
\* bytes to write and for bytes read (disk_emu.cpp 84-198).
DiskExact ==
  /\ disk.files = told.files
  /\ disk.dataByte = told.data /\ disk.status = told.status
=============================================================================
