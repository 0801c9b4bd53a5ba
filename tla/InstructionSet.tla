--------------------------- MODULE InstructionSet ---------------------------
(***************************************************************************)
(* The instruction set: Emulate8085Op on registers, flags and memory, with *)
(* the write path through the memory plugins.  A program is bytes in       *)
(* memory.  Its opcodes are decoded by their fields, 2-3-3 bits, which the *)
(* 256 cases of the switch follow.                                         *)
(*                                                                         *)
(* A job runs twice: "m" may be interrupted before every instruction by a  *)
(* handler that saves what it uses; "plain" executes the same instructions *)
(* and is never interrupted.                                               *)
(*                                                                         *)
(* RIM, SIM, IN and OUT and the choice among several requests are those of *)
(* I8085Core; T-states are left out.                                       *)
(***************************************************************************)
EXTENDS Alu, Sequences

CONSTANTS Jobs,         \* programs with their data: see IsJob
          Plugins,      \* the regions of the loaded memory plugins
          Beyond,       \* what reads behind the 64K may find: two bytes each
          MaxRequests,  \* bound on the interrupts of one job
          StackReach    \* bound on the bytes a job and its handler have on the stack

IsJob(j) ==
  /\ DOMAIN j = {"image", "pc", "want", "private"}
  /\ \A x \in DOMAIN j.image : x \in Word /\ j.image[x] \in Byte
  /\ j.pc \in Word

ASSUME JobsAssumption == \A j \in Jobs : IsJob(j)
ASSUME PluginsAssumption ==
  Plugins \subseteq [base : Nat, end : Nat, eeprom : BOOLEAN, wren : BOOLEAN]
ASSUME BeyondAssumption == Beyond \subseteq [1 .. 2 -> Byte]
ASSUME BoundsAssumption == MaxRequests \in Nat /\ StackReach \in Nat

VARIABLES
  job,       \* the job of this behaviour
  m,         \* the processor and its memory
  plain,     \* the same without interrupts
  resume,    \* in a handler: the pc and sp it has to come back to
  requests   \* interrupts accepted

vars == <<job, m, plain, resume, requests>>

Core == INSTANCE I8085Core WITH AddrSize <- 65536, StackSize <- 1

Register == {"a", "b", "c", "d", "e", "h", "l"}

----------------------------------------------------------------------------
(* Memory.  The cleared 64K is kept as the bytes that were loaded or stored. *)

Read(s, addr) == IF addr \in DOMAIN s.mem THEN s.mem[addr] ELSE 0

\* Reads do not wrap: the byte after the last one is the host's.
Peek(s, addr, beyond) == IF addr > 65535 THEN beyond[addr - 65535] ELSE Read(s, addr)

PeekWord(s, addr, beyond) == 256 * Peek(s, addr + 1, beyond) + Peek(s, addr, beyond)

\* on_mem_write of a memory plugin vetoes the write.
Protected(addr) ==
  \E p \in Plugins : p.base <= addr /\ addr < p.end /\ (p.eeprom => ~p.wren)

Store(s, addr, val) ==
  [s EXCEPT !.mem = [x \in DOMAIN @ \cup {addr} |-> IF x = addr THEN val ELSE @[x]]]

\* Fault: a write that is not offered to the plugins.
mem_wr_Direct(s, addr, val) == Store(s, addr % 65536, val)

\* A veto by any plugin keeps the old byte.  Unlike reads, writes wrap.
mem_wr(s, addr, val) ==
  IF Protected(addr % 65536) THEN s ELSE Store(s, addr % 65536, val)

StoreWord(s, addr, word) == mem_wr(mem_wr(s, addr, Low(word)), addr + 1, High(word))

Push(s, word) ==
  [mem_wr(mem_wr(s, s.sp - 1, High(word)), s.sp - 2, Low(word)) EXCEPT !.sp = (@ - 2) % 65536]

----------------------------------------------------------------------------
(* Operands.  Operand 6 is the memory at HL, pair 3 the stack pointer. *)

RegisterOf == <<"b", "c", "d", "e", "h", "l", "m", "a">>
PairOf == <<[high |-> "b", low |-> "c"], [high |-> "d", low |-> "e"], [high |-> "h", low |-> "l"]>>

Pair(s, n) ==
  IF n = 3 THEN s.sp ELSE 256 * s.r[PairOf[n + 1].high] + s.r[PairOf[n + 1].low]

SetPair(s, n, word) ==
  IF n = 3 THEN [s EXCEPT !.sp = word]
  ELSE [s EXCEPT !.r[PairOf[n + 1].high] = High(word), !.r[PairOf[n + 1].low] = Low(word)]

BC(s) == Pair(s, 0)
DE(s) == Pair(s, 1)
HL(s) == Pair(s, 2)
A(s) == s.r["a"]

Operand(s, n) == IF n = 6 THEN Read(s, HL(s)) ELSE s.r[RegisterOf[n + 1]]

Assign(s, n, byte) ==
  IF n = 6 THEN mem_wr(s, HL(s), byte) ELSE [s EXCEPT !.r[RegisterOf[n + 1]] = byte]

Skip(s, n) == [s EXCEPT !.pc = (@ + n) % 65536]

Accumulate(s, result) == [s EXCEPT !.r["a"] = result.byte, !.cc = result.cc]
SetWord(s, n, result) == [SetPair(s, n, result.word) EXCEPT !.cc = result.cc]
Logic(s, byte, ac) == [s EXCEPT !.r["a"] = byte, !.cc = LogicFlagsA(s.cc, byte, ac)]

----------------------------------------------------------------------------
(* Opcodes 00-3F: the machine s has fetched the opcode; imm and word are the *)
(* one and the two bytes behind it.                                          *)

DoubleAdd(s, n) == SetWord(s, 2, AddWords(s.cc, HL(s), Pair(s, n)))

\* Opcodes x0 and x8: NOP and the undocumented instructions.
Special(s, y, imm) ==
  CASE y = 1 -> SetWord(s, 2, SubtractWords(s.cc, HL(s), BC(s)))
    [] y = 2 -> SetWord(s, 2, ShiftWordRight(s.cc, HL(s)))
    [] y = 3 -> SetWord(s, 1, RotateWordLeft(s.cc, DE(s)))
    [] y = 5 -> Skip(SetPair(s, 1, (HL(s) + imm) % 65536), 1)
    [] y = 7 -> Skip(SetPair(s, 1, (s.sp + imm) % 65536), 1)
    [] OTHER -> s

\* STAX, LDAX, SHLD, LHLD, STA, LDA.
LoadStore(s, y, word, beyond) ==
  CASE y \in {0, 2} -> mem_wr(s, Pair(s, y \div 2), A(s))
    [] y \in {1, 3} -> [s EXCEPT !.r["a"] = Read(s, Pair(s, y \div 2))]
    [] y = 4 -> Skip(StoreWord(s, word, HL(s)), 2)
    [] y = 5 -> Skip(SetPair(s, 2, PeekWord(s, word, beyond)), 2)
    [] y = 6 -> Skip(mem_wr(s, word, A(s)), 2)
    [] OTHER -> [Skip(s, 2) EXCEPT !.r["a"] = Read(s, word)]

\* Fault: the word does not wrap.
StepPair_NoWrap(s, n, by) ==
  [SetPair(s, n, Pair(s, n) + by) EXCEPT
     !.cc.x5 = Set((Pair(s, n) + by) % 65536 = IF by = 1 THEN 0 ELSE 65535)]

\* INX and DCX: x5 tells that the word has passed the end of its range.
StepPair(s, n, by) ==
  LET word == (Pair(s, n) + by) % 65536
  IN  [SetPair(s, n, word) EXCEPT !.cc.x5 = Set(word = IF by = 1 THEN 0 ELSE 65535)]

Increment(s, n) ==
  LET result == PreserveCarry(s.cc, addByte(s.cc, Operand(s, n), 1))
  IN  Assign([s EXCEPT !.cc = result.cc], n, result.byte)

Decrement(s, n) ==
  LET result == PreserveCarry(s.cc, subtractByte(s.cc, Operand(s, n), 1))
  IN  Assign([s EXCEPT !.cc = result.cc], n, result.byte)

\* RLC, RRC, RAL, RAR, DAA, CMA, STC, CMC.
Adjust(s, y) ==
  CASE y = 0 -> Accumulate(s, RotateLeft(s.cc, A(s), Sign(A(s))))
    [] y = 1 -> Accumulate(s, RotateRight(s.cc, A(s), A(s) % 2))
    [] y = 2 -> Accumulate(s, RotateLeft(s.cc, A(s), s.cc.cy))
    [] y = 3 -> Accumulate(s, RotateRight(s.cc, A(s), s.cc.cy))
    [] y = 4 -> Accumulate(s, Daa(s.cc, A(s)))
    [] y = 5 -> [s EXCEPT !.r["a"] = 255 - @]
    [] y = 6 -> [s EXCEPT !.cc.cy = 1]
    [] OTHER -> [s EXCEPT !.cc.cy = 1 - @]

FirstQuarter(s, y, z, imm, word, beyond) ==
  CASE z = 0 -> Special(s, y, imm)
    [] z = 1 /\ y % 2 = 0 -> Skip(SetPair(s, y \div 2, word), 2)
    [] z = 1 /\ y % 2 = 1 -> DoubleAdd(s, y \div 2)
    [] z = 2 -> LoadStore(s, y, word, beyond)
    [] z = 3 -> StepPair(s, y \div 2, IF y % 2 = 0 THEN 1 ELSE -1)
    [] z = 4 -> Increment(s, y)
    [] z = 5 -> Decrement(s, y)
    [] z = 6 -> Skip(Assign(s, y, imm), 1)
    [] OTHER -> Adjust(s, y)

----------------------------------------------------------------------------
(* Opcodes 40-BF *)

Move(s, y, z) ==
  IF y = 6 /\ z = 6 THEN [s EXCEPT !.hlt_enable = 1] ELSE Assign(s, y, Operand(s, z))

\* ADD, ADC, SUB, SBB, ANA, XRA, ORA, CMP.
Compute(s, y, x) ==
  CASE y = 0 -> Accumulate(s, addByte(s.cc, A(s), x))
    [] y = 1 -> Accumulate(s, addByteWithCarry(s.cc, A(s), x))
    [] y = 2 -> Accumulate(s, subtractByte(s.cc, A(s), x))
    [] y = 3 -> Accumulate(s, subtractByteWithBorrow(s.cc, A(s), x))
    [] y = 4 -> Logic(s, And(A(s), x), 1)
    [] y = 5 -> Logic(s, Xor(A(s), x), 0)
    [] y = 6 -> Logic(s, Or(A(s), x), 0)
    [] OTHER -> [s EXCEPT !.cc = subtractByte(s.cc, A(s), x).cc]

----------------------------------------------------------------------------
(* Opcodes C0-FF *)

call(s, addr) == [Push(s, (s.pc + 2) % 65536) EXCEPT !.pc = addr]

returnToCaller(s, beyond) ==
  [s EXCEPT !.pc = PeekWord(s, s.sp, beyond), !.sp = (@ + 2) % 65536]

rst(s, vector) == [Push(s, s.pc) EXCEPT !.pc = vector]

Jump(s, taken, word) == IF taken THEN [s EXCEPT !.pc = word] ELSE Skip(s, 2)

\* Pair 3 is the accumulator and the flags; only this POP wraps between its bytes.
Pop(s, n, beyond) ==
  IF n = 3
  THEN [s EXCEPT !.cc = FlagsOf(Read(s, s.sp)), !.r["a"] = Read(s, (s.sp + 1) % 65536),
                 !.sp = (@ + 2) % 65536]
  ELSE [SetPair(s, n, PeekWord(s, s.sp, beyond)) EXCEPT !.sp = (@ + 2) % 65536]

PushPair(s, n) == Push(s, IF n = 3 THEN 256 * A(s) + PswByte(s.cc) ELSE Pair(s, n))

\* XTHL.
ExchangeTop(s, beyond) ==
  LET top == PeekWord(s, s.sp, beyond)
  IN  SetPair(StoreWord(s, s.sp, HL(s)), 2, top)

\* RET, SHLX, PCHL, SPHL.
Return(s, y, beyond) ==
  CASE y = 1 -> returnToCaller(s, beyond)
    [] y = 3 -> StoreWord(s, DE(s), HL(s))
    [] y = 5 -> [s EXCEPT !.pc = HL(s)]
    [] OTHER -> [s EXCEPT !.sp = HL(s)]

\* Fault: pc is taken back before it is pushed.
RestartOnOverflow_Itself(s) ==
  IF s.cc.v = 1 THEN rst([s EXCEPT !.pc = (@ - 1) % 65536], 64) ELSE s

\* RSTV.
RestartOnOverflow(s) == IF s.cc.v = 1 THEN rst(s, 64) ELSE s

\* JMP, RSTV, XTHL, XCHG, DI, EI.
Control(s, y, word, beyond) ==
  CASE y = 0 -> Jump(s, TRUE, word)
    [] y = 1 -> RestartOnOverflow(s)
    [] y = 4 -> ExchangeTop(s, beyond)
    [] y = 5 -> SetPair(SetPair(s, 1, HL(s)), 2, DE(s))
    [] y = 6 -> Core!DisableInterrupts(s)
    [] y = 7 -> Core!EnableInterrupts(s)
    [] OTHER -> s

\* CALL, JNX5, LHLX, JX5.
CallOrLoad(s, y, word, beyond) ==
  CASE y = 1 -> call(s, word)
    [] y = 3 -> Jump(s, s.cc.x5 = 0, word)
    [] y = 5 -> SetPair(s, 2, PeekWord(s, DE(s), beyond))
    [] OTHER -> Jump(s, s.cc.x5 = 1, word)

ComputeImmediate(s, y, imm) ==
  CASE y = 0 -> Accumulate(s, Adi(s.cc, A(s), imm))
    [] y = 7 -> [s EXCEPT !.cc = Cpi(s.cc, A(s), imm)]
    [] OTHER -> Compute(s, y, imm)

LastQuarter(s, y, z, imm, word, beyond) ==
  CASE z = 0 -> IF Condition(s.cc, y) THEN returnToCaller(s, beyond) ELSE s
    [] z = 1 /\ y % 2 = 0 -> Pop(s, y \div 2, beyond)
    [] z = 1 /\ y % 2 = 1 -> Return(s, y, beyond)
    [] z = 2 -> Jump(s, Condition(s.cc, y), word)
    [] z = 3 -> Control(s, y, word, beyond)
    [] z = 4 -> IF Condition(s.cc, y) THEN call(s, word) ELSE Skip(s, 2)
    [] z = 5 /\ y % 2 = 0 -> PushPair(s, y \div 2)
    [] z = 5 /\ y % 2 = 1 -> CallOrLoad(s, y, word, beyond)
    [] z = 6 -> Skip(ComputeImmediate(s, y, imm), 1)
    [] OTHER -> rst(s, 8 * y)

----------------------------------------------------------------------------
(* One call of Emulate8085Op that executes an instruction *)

Execute(s, beyond) ==
  LET opcode == Read(s, s.pc)
      y == (opcode \div 8) % 8
      z == opcode % 8
      imm == Peek(s, s.pc + 1, beyond)
      word == PeekWord(s, s.pc + 1, beyond)
      fetched == Skip(s, 1)
  IN  CASE opcode < 64 -> FirstQuarter(fetched, y, z, imm, word, beyond)
        [] opcode \in 64 .. 127 -> Move(fetched, y, z)
        [] opcode \in 128 .. 191 -> Compute(fetched, y, Operand(s, z))
        [] OTHER -> LastQuarter(fetched, y, z, imm, word, beyond)

Emulate8085Op(s, beyond) == Core!EndDelay(Execute(s, beyond))

\* checkInterrupts, with RST 7.5 the one request.
Accept(s) == rst([s EXCEPT !.int_enable = 0], 60)

\* RIM, SIM, IN and OUT.
Elsewhere == {32, 48, 211, 219}

----------------------------------------------------------------------------
(* Behaviour *)

\* Init8085 and Reset8085 after the program was loaded; the stack pointer is 0.
Reset(j) ==
  [r |-> [n \in Register |-> 0], sp |-> 0, pc |-> j.pc,
   cc |-> [cy |-> 0, z |-> 0, s |-> 0, p |-> 0, ac |-> 0, v |-> 0, x5 |-> 0],
   mem |-> j.image, int_enable |-> 0, int_enable_delay |-> 0, hlt_enable |-> 0]

None == [pc |-> -1, sp |-> -1]

Init ==
  /\ job \in Jobs
  /\ m = Reset(job)
  /\ plain = Reset(job)
  /\ resume = None
  /\ requests = 0

Executes == m.hlt_enable = 0 /\ Read(m, m.pc) \notin Elsewhere

\* An instruction of the program.
Proceed ==
  /\ Executes
  /\ resume = None
  /\ \E beyond \in Beyond :
       m' = Emulate8085Op(m, beyond) /\ plain' = Emulate8085Op(plain, beyond)
  /\ UNCHANGED <<job, resume, requests>>

\* A request is accepted and the first instruction of the handler executed.
Interrupt ==
  /\ Executes
  /\ m.int_enable = 1
  /\ requests < MaxRequests
  /\ resume = None
  /\ \E beyond \in Beyond : m' = Emulate8085Op(Accept(m), beyond)
  /\ resume' = [pc |-> m.pc, sp |-> m.sp]
  /\ requests' = requests + 1
  /\ UNCHANGED <<job, plain>>

\* Another instruction of the handler, perhaps the one that goes back.
Handle ==
  /\ Executes
  /\ resume # None
  /\ \E beyond \in Beyond : m' = Emulate8085Op(m, beyond)
  /\ resume' = IF m'.pc = resume.pc /\ m'.sp = resume.sp THEN None ELSE resume
  /\ UNCHANGED <<job, plain, requests>>

\* HLT ends the job.
Halted == m.hlt_enable = 1 /\ UNCHANGED vars

Step == Proceed \/ Interrupt \/ Handle

Next == Step \/ Halted

\* The run loop calls Emulate8085Op again and again.
Spec == Init /\ [][Next]_vars /\ WF_vars(Step)

----------------------------------------------------------------------------
(* Properties *)

Formed(s) ==
  /\ s.r \in [Register -> Byte] /\ s.cc \in Flags /\ {s.sp, s.pc} \subseteq Word
  /\ DOMAIN s.mem \subseteq Word /\ \A x \in DOMAIN s.mem : s.mem[x] \in Byte
  /\ s.int_enable \in Flag /\ s.int_enable_delay \in 0 .. 2 /\ s.hlt_enable \in Flag

\* Registers, flags and memory keep their widths.
TypeOK ==
  /\ Formed(m) /\ Formed(plain)
  /\ resume = None \/ {resume.pc, resume.sp} \subseteq Word
  /\ requests \in 0 .. MaxRequests

\* No sequence of instructions changes a byte of a protected region: not a word
\* stored across its border, nor the stack, nor an address that wrapped
\* (memory.cpp: "firmware cannot corrupt ROM").
RomKept ==
  \A x \in DOMAIN m.mem :
    Protected(x) => x \in DOMAIN job.image /\ m.mem[x] = job.image[x]

\* Bytes under the stack pointer that a handler may have used.
Dead(x) == (plain.sp - 1 - x) % 65536 < StackReach

\* A handler that pushes the registers it uses is invisible: after it the program is
\* where it would be without it, undocumented flags (V and X5 of PUSH PSW) included.
Transparent ==
  resume = None =>
    /\ m.r = plain.r /\ m.cc = plain.cc
    /\ m.pc = plain.pc /\ m.sp = plain.sp /\ m.hlt_enable = plain.hlt_enable
    /\ \A x \in (DOMAIN m.mem \cup DOMAIN plain.mem) \ job.private :
         Dead(x) \/ Read(m, x) = Read(plain, x)

\* A finished job has left what it was to compute: words added, subtracted, compared and
\* shifted byte by byte (ADC, SBB) or at once (DAD, DSUB, ARHL, RDEL, RSTV), decimal
\* numbers of several digits (DAA), products and copies of loops that carry a flag past
\* the DCR, INX or DCX that counts, and what recursion, inline parameters and locals
\* find on a stack that may wrap around the end of memory; interrupted or not.
JobsRight ==
  m.hlt_enable = 1 => \A x \in DOMAIN job.want : Read(m, x) = job.want[x]

\* Every job comes to its HLT, interrupted or not.
AllEnd == <>(m.hlt_enable = 1)
============================================================================
