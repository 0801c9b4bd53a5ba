----------------------- MODULE InterruptCore_proofs ------------------------
(***************************************************************************)
(* Proofs about InterruptCore: type correctness and the interrupt          *)
(* discipline, for every program, every set of wired lines, every address  *)
(* space of at least 61 bytes and every stack area.                        *)
(***************************************************************************)
EXTENDS InterruptCore, TLAPS

(***************************************************************************)
(* The operators of I8085Core keep the CPU record well formed.             *)
(***************************************************************************)

\* c and d agree on what decides whether a maskable interrupt may be accepted.
SameEnable(c, d) ==
  /\ d.int_enable = c.int_enable
  /\ d.int_enable_delay = c.int_enable_delay
  /\ d.hlt_enable = c.hlt_enable

\* Entering a handler moves only pc, sp and the stack (rst, i8085_exec.c 124).
LEMMA RstLemma ==
  ASSUME NEW c \in Cpu, NEW v \in Addr
  PROVE  rst(c, v) \in Cpu /\ SameEnable(c, rst(c, v))
<1>1. (c.sp + StackSize - 1) % StackSize \in Slot
  BY StackSizeAssumption, SMT DEF Cpu, Slot
<1>2. QED
  BY <1>1, StackSizeAssumption DEF rst, Push, Cpu, SameEnable, Slot

\* Accepting a request disables maskable interrupts and touches neither a
\* countdown nor the halt flag; with nothing to accept nothing changes
\* (checkInterrupts, i8085_exec.c 132).
LEMMA AcceptLemma ==
  ASSUME NEW c \in Cpu
  PROVE  LET d == checkInterrupts(c)
         IN  /\ d \in Cpu
             /\ d.int_enable_delay = c.int_enable_delay
             /\ d.hlt_enable = c.hlt_enable
             /\ Winner(c) = "none" => d = c
             /\ Winner(c) # "none" => d.int_enable = 0
<1> DEFINE off == [c EXCEPT !.int_enable = 0]
<1>1. off \in Cpu /\ off.int_enable = 0
      /\ off.int_enable_delay = c.int_enable_delay /\ off.hlt_enable = c.hlt_enable
  BY DEF Cpu, Bit
<1>2. {36, 44, 52, 60} \subseteq Addr /\ 8 * c.int_rst_number \in Addr
  BY AddrSizeAssumption DEF Cpu, Addr
<1>3. CASE Winner(c) = "trap"
  <2> DEFINE x == [off EXCEPT !.pending_trap = 0]
  <2>1. x \in Cpu /\ SameEnable(off, x)
    BY <1>1 DEF Cpu, Bit, SameEnable
  <2>2. checkInterrupts(c) = rst(x, 36)
    BY <1>3 DEF checkInterrupts
  <2> HIDE DEF x, off
  <2>3. rst(x, 36) \in Cpu /\ SameEnable(x, rst(x, 36))
    BY <1>2, <2>1, RstLemma
  <2>4. QED
    BY <1>1, <1>3, <2>1, <2>2, <2>3 DEF SameEnable
<1>4. CASE Winner(c) = "r7"
  <2> DEFINE x == [off EXCEPT !.r7_latch = 0]
  <2>1. x \in Cpu /\ SameEnable(off, x)
    BY <1>1 DEF Cpu, Bit, SameEnable
  <2>2. checkInterrupts(c) = rst(x, 60)
    BY <1>4 DEF checkInterrupts
  <2> HIDE DEF x, off
  <2>3. rst(x, 60) \in Cpu /\ SameEnable(x, rst(x, 60))
    BY <1>2, <2>1, RstLemma
  <2>4. QED
    BY <1>1, <1>4, <2>1, <2>2, <2>3 DEF SameEnable
<1>5. CASE Winner(c) = "r6"
  <2> DEFINE x == [off EXCEPT !.pending_r6 = 0]
  <2>1. x \in Cpu /\ SameEnable(off, x)
    BY <1>1 DEF Cpu, Bit, SameEnable
  <2>2. checkInterrupts(c) = rst(x, 52)
    BY <1>5 DEF checkInterrupts
  <2> HIDE DEF x, off
  <2>3. rst(x, 52) \in Cpu /\ SameEnable(x, rst(x, 52))
    BY <1>2, <2>1, RstLemma
  <2>4. QED
    BY <1>1, <1>5, <2>1, <2>2, <2>3 DEF SameEnable
<1>6. CASE Winner(c) = "r5"
  <2> DEFINE x == [off EXCEPT !.pending_r5 = 0]
  <2>1. x \in Cpu /\ SameEnable(off, x)
    BY <1>1 DEF Cpu, Bit, SameEnable
  <2>2. checkInterrupts(c) = rst(x, 44)
    BY <1>6 DEF checkInterrupts
  <2> HIDE DEF x, off
  <2>3. rst(x, 44) \in Cpu /\ SameEnable(x, rst(x, 44))
    BY <1>2, <2>1, RstLemma
  <2>4. QED
    BY <1>1, <1>6, <2>1, <2>2, <2>3 DEF SameEnable
<1>7. CASE Winner(c) = "int"
  <2> DEFINE x == [off EXCEPT !.pending_int = 0]
  <2>1. x \in Cpu /\ SameEnable(off, x)
    BY <1>1 DEF Cpu, Bit, SameEnable
  <2>2. checkInterrupts(c) = rst(x, 8 * c.int_rst_number)
    BY <1>7 DEF checkInterrupts
  <2> HIDE DEF x, off
  <2>3. rst(x, 8 * c.int_rst_number) \in Cpu /\ SameEnable(x, rst(x, 8 * c.int_rst_number))
    BY <1>2, <2>1, RstLemma
  <2>4. QED
    BY <1>1, <1>7, <2>1, <2>2, <2>3 DEF SameEnable
<1>8. CASE Winner(c) = "none"
  BY <1>8 DEF checkInterrupts
<1>9. Winner(c) \in {"trap", "r7", "r6", "r5", "int", "none"}
  BY DEF Winner
<1>10. QED
  BY <1>3, <1>4, <1>5, <1>6, <1>7, <1>8, <1>9

\* Every pc an instruction leaves is an address.
LEMMA AdvanceLemma ==
  ASSUME NEW c \in Cpu, NEW length \in 1 .. 3
  PROVE  Advance(c, length) \in Cpu /\ SameEnable(c, Advance(c, length))
<1>1. (c.pc + length) % AddrSize \in Addr
  BY AddrSizeAssumption, SMT DEF Cpu, Addr
<1>2. QED
  BY <1>1 DEF Advance, Cpu, SameEnable

\* What an instruction does to the interrupt state, by its kind: EI arms the
\* delay, DI clears it with the enable flag, HLT halts and the rest leave the
\* three flags alone (the switch of Emulate8085Op, i8085_exec.c 199).
LEMMA ExecuteLemma ==
  ASSUME NEW c \in Cpu, NEW i \in Instruction, NEW taken \in BOOLEAN
  PROVE  LET d == Execute(c, i, taken)
         IN  /\ d \in Cpu
             /\ d.int_enable = IF i.op = "DI" THEN 0 ELSE c.int_enable
             /\ d.int_enable_delay = IF i.op = "EI" THEN 2
                                     ELSE IF i.op = "DI" THEN 0 ELSE c.int_enable_delay
             /\ d.hlt_enable = IF i.op = "HLT" THEN 1 ELSE c.hlt_enable
<1>1. /\ Advance(c, 1) \in Cpu /\ SameEnable(c, Advance(c, 1))
      /\ Advance(c, 2) \in Cpu /\ SameEnable(c, Advance(c, 2))
      /\ Advance(c, 3) \in Cpu /\ SameEnable(c, Advance(c, 3))
  BY AdvanceLemma
<1>2. CASE i.op \in {"JMP", "JCC"}
  <2> DEFINE x == [c EXCEPT !.pc = i.arg]
  <2>1. i.arg \in Addr
    BY <1>2 DEF Instruction
  <2>2. x \in Cpu /\ SameEnable(c, x)
    BY <2>1 DEF Cpu, SameEnable
  <2>3. Execute(c, i, taken) = x \/ Execute(c, i, taken) = Advance(c, 3)
    BY <1>2 DEF Execute
  <2> HIDE DEF x
  <2>4. QED
    BY <1>1, <1>2, <2>2, <2>3 DEF SameEnable
<1>3. CASE i.op = "CALL"
  <2> DEFINE x == [c EXCEPT !.pc = Advance(c, 3).pc]
  <2>1. i.arg \in Addr
    BY <1>3 DEF Instruction
  <2>2. x \in Cpu /\ SameEnable(c, x)
    BY <1>1 DEF Cpu, SameEnable
  <2>3. Execute(c, i, taken) = rst(x, i.arg)
    BY <1>1, <1>3 DEF Execute, rst, Push, Cpu
  <2> HIDE DEF x
  <2>4. rst(x, i.arg) \in Cpu /\ SameEnable(x, rst(x, i.arg))
    BY <2>1, <2>2, RstLemma
  <2>5. QED
    BY <1>3, <2>2, <2>3, <2>4 DEF SameEnable
<1>4. CASE i.op = "RST"
  <2>1. 8 * i.arg \in Addr
    BY <1>4, AddrSizeAssumption DEF Instruction, Addr
  <2>2. rst(Advance(c, 1), 8 * i.arg) \in Cpu
        /\ SameEnable(Advance(c, 1), rst(Advance(c, 1), 8 * i.arg))
    BY <1>1, <2>1, RstLemma
  <2>3. Execute(c, i, taken) = rst(Advance(c, 1), 8 * i.arg)
    BY <1>4 DEF Execute
  <2>4. QED
    BY <1>1, <1>4, <2>2, <2>3 DEF SameEnable
<1>5. CASE i.op = "RET"
  <2>1. (c.sp + 1) % StackSize \in Slot /\ c.stack[c.sp] \in Addr
    BY StackSizeAssumption, SMT DEF Cpu, Slot
  <2>2. QED
    BY <1>5, <2>1 DEF Execute, Cpu, SameEnable
<1>6. CASE i.op = "MVI"
  <2>1. i.arg \in SUBSET (0 .. 7)
    BY <1>6 DEF Instruction
  <2>2. QED
    BY <1>1, <1>6, <2>1 DEF Execute, Cpu, SameEnable
<1>7. CASE i.op = "RIM"
  <2>1. RimBits(c) \in SUBSET (0 .. 7)
    BY DEF RimBits
  <2>2. QED
    BY <1>1, <1>7, <2>1 DEF Execute, Cpu, SameEnable
<1>8. CASE i.op = "SIM"
  <2> DEFINE x == Advance(c, 1)
  <2>1. Execute(c, i, taken) = Sim(x)
    BY <1>8 DEF Execute
  <2>2. x \in Cpu /\ SameEnable(c, x)
    BY <1>1
  <2> HIDE DEF x
  <2> DEFINE x1 == [x EXCEPT !.sod_line = IF 6 \in x.a THEN BitOf(x.a, 7) ELSE @]
             x2 == [x1 EXCEPT !.r7_latch = IF 4 \in x.a THEN 0 ELSE @]
             x3 == [x2 EXCEPT !.r7_mask = IF 3 \in x.a THEN BitOf(x.a, 2) ELSE @]
             x4 == [x3 EXCEPT !.r6_mask = IF 3 \in x.a THEN BitOf(x.a, 1) ELSE @]
             x5 == [x4 EXCEPT !.r5_mask = IF 3 \in x.a THEN BitOf(x.a, 0) ELSE @]
  <2>3. Sim(x) \in Cpu
    <3>1. /\ BitOf(x.a, 7) \in Bit /\ BitOf(x.a, 2) \in Bit
          /\ BitOf(x.a, 1) \in Bit /\ BitOf(x.a, 0) \in Bit
      BY DEF BitOf, Bit
    <3>2. x1 \in Cpu
      BY <2>2, <3>1 DEF Cpu
    <3>3. x2 \in Cpu
      <4> HIDE DEF x1
      <4>1. QED BY <3>2 DEF Cpu, Bit
    <3>4. x3 \in Cpu
      <4> HIDE DEF x2
      <4>1. QED BY <3>1, <3>3 DEF Cpu
    <3>5. x4 \in Cpu
      <4> HIDE DEF x3
      <4>1. QED BY <3>1, <3>4 DEF Cpu
    <3>6. x5 \in Cpu
      <4> HIDE DEF x4
      <4>1. QED BY <3>1, <3>5 DEF Cpu
    <3>7. Sim(x) = x5
      BY <2>2 DEF Sim, Cpu
    <3>8. QED
      BY <3>6, <3>7
  <2>4. SameEnable(x, Sim(x))
    BY <2>2 DEF Sim, Cpu, SameEnable
  <2>5. QED
    BY <1>8, <2>1, <2>2, <2>3, <2>4 DEF SameEnable
<1>9. CASE i.op = "DI"
  <2> DEFINE x == Advance(c, 1)
  <2>1. Execute(c, i, taken) = DisableInterrupts(x)
    BY <1>9 DEF Execute
  <2>2. x \in Cpu /\ SameEnable(c, x)
    BY <1>1
  <2> HIDE DEF x
  <2>3. DisableInterrupts(x) \in Cpu
    <3> DEFINE y == [x EXCEPT !.int_enable = 0]
    <3>1. y \in Cpu
      BY <2>2 DEF Cpu, Bit
    <3>2. [y EXCEPT !.int_enable_delay = 0] \in Cpu
      <4> HIDE DEF y
      <4>1. QED BY <3>1 DEF Cpu
    <3>3. DisableInterrupts(x) = [y EXCEPT !.int_enable_delay = 0]
      BY <2>2 DEF DisableInterrupts, Cpu
    <3>4. QED
      BY <3>2, <3>3
  <2>4. /\ DisableInterrupts(x).int_enable = 0
        /\ DisableInterrupts(x).int_enable_delay = 0
        /\ DisableInterrupts(x).hlt_enable = x.hlt_enable
    BY <2>2 DEF DisableInterrupts, Cpu
  <2>5. QED
    BY <1>9, <2>1, <2>2, <2>3, <2>4 DEF SameEnable
<1>10. CASE i.op = "EI"
  <2>1. Execute(c, i, taken) = EnableInterrupts(Advance(c, 1))
    BY <1>10 DEF Execute
  <2>2. QED
    BY <1>1, <1>10, <2>1 DEF EnableInterrupts, Cpu, Bit, SameEnable
<1>11. CASE i.op = "HLT"
  BY <1>1, <1>11 DEF Execute, Cpu, Bit, SameEnable
<1>12. CASE i.op = "NOP"
  BY <1>1, <1>12 DEF Execute, SameEnable
<1>13. CASE i.op \in {"IN", "OUT"}
  BY <1>1, <1>13 DEF Execute, SameEnable
<1>14. i.op \in {"NOP", "EI", "DI", "HLT", "RIM", "SIM", "RET", "JMP", "JCC", "CALL", "RST",
                 "MVI", "IN", "OUT"}
  BY DEF Instruction
<1>15. QED
  BY <1>2, <1>3, <1>4, <1>5, <1>6, <1>7, <1>8, <1>9, <1>10, <1>11, <1>12, <1>13, <1>14

\* What one call of Emulate8085Op does to the interrupt state, seen from before
\* the call: an acceptance first, then the instruction, then the countdown
\* (i8085_exec.c 181, 1711).
LEMMA EmulateLemma ==
  ASSUME NEW image, \A x \in DOMAIN image : image[x] \in Instruction,
         NEW c \in Cpu, NEW taken \in BOOLEAN, ~StaysHalted(c)
  PROVE  LET d == Emulate8085Op(image, c, taken)
             op == Current(image, c).op
             e == Entered(c)
             delay == IF op = "EI" THEN 2 ELSE IF op = "DI" THEN 0 ELSE c.int_enable_delay
         IN  /\ d \in Cpu
             /\ e \in Cpu
             /\ e.int_enable = IF Winner(c) = "none" THEN c.int_enable ELSE 0
             /\ d.int_enable_delay = IF delay > 0 THEN delay - 1 ELSE 0
             /\ d.int_enable = IF delay = 1 THEN 1
                               ELSE IF op = "DI" THEN 0 ELSE e.int_enable
             /\ d.hlt_enable = IF op = "HLT" THEN 1 ELSE 0
<1> DEFINE e == Entered(c)
           i == Current(image, c)
           f == Execute(e, i, taken)
<1>1. /\ e \in Cpu /\ e.hlt_enable = 0
      /\ e.int_enable_delay = c.int_enable_delay
      /\ e.int_enable = IF Winner(c) = "none" THEN c.int_enable ELSE 0
  <2> DEFINE d == checkInterrupts(c)
  <2>1. /\ d \in Cpu
        /\ d.int_enable_delay = c.int_enable_delay
        /\ Winner(c) = "none" => d = c
        /\ Winner(c) # "none" => d.int_enable = 0
    BY AcceptLemma
  <2>2. e = [d EXCEPT !.hlt_enable = 0]
    BY DEF Entered
  <2> HIDE DEF d, e
  <2>3. QED
    BY <2>1, <2>2 DEF Cpu, Bit
<1>2. i \in Instruction
  BY DEF Current, Fetch, Nop, Instruction
<1> HIDE DEF e, i
<1>3. /\ f \in Cpu
      /\ f.int_enable = IF i.op = "DI" THEN 0 ELSE e.int_enable
      /\ f.int_enable_delay = IF i.op = "EI" THEN 2
                              ELSE IF i.op = "DI" THEN 0 ELSE e.int_enable_delay
      /\ f.hlt_enable = IF i.op = "HLT" THEN 1 ELSE e.hlt_enable
  BY <1>1, <1>2, ExecuteLemma
<1> HIDE DEF f
<1>4. /\ EndDelay(f) \in Cpu
      /\ EndDelay(f).int_enable_delay = IF f.int_enable_delay > 0
                                        THEN f.int_enable_delay - 1 ELSE 0
      /\ EndDelay(f).int_enable = IF f.int_enable_delay = 1 THEN 1 ELSE f.int_enable
      /\ EndDelay(f).hlt_enable = f.hlt_enable
  <2> DEFINE v == IF f.int_enable_delay > 0 THEN f.int_enable_delay - 1 ELSE 0
             w == IF f.int_enable_delay = 1 THEN 1 ELSE f.int_enable
             g == [f EXCEPT !.int_enable_delay = v]
  <2>1. v \in 0 .. 2 /\ w \in Bit
    BY <1>3 DEF Cpu, Bit
  <2>2. EndDelay(f) = [f EXCEPT !.int_enable_delay = v, !.int_enable = w]
    BY <1>3 DEF EndDelay, Cpu
  <2> HIDE DEF v, w
  <2>3. g \in Cpu
    BY <1>3, <2>1 DEF Cpu
  <2>4. EndDelay(f) = [g EXCEPT !.int_enable = w]
    BY <1>3, <2>2 DEF Cpu
  <2>5. /\ EndDelay(f).int_enable_delay = v /\ EndDelay(f).int_enable = w
        /\ EndDelay(f).hlt_enable = f.hlt_enable
    BY <1>3, <2>2 DEF Cpu
  <2> HIDE DEF g
  <2>6. EndDelay(f) \in Cpu
    BY <2>1, <2>3, <2>4 DEF Cpu
  <2>7. QED
    BY <2>5, <2>6 DEF v, w
<1>5. Emulate8085Op(image, c, taken) = EndDelay(f)
  BY DEF Emulate8085Op, e, i, f
<1>6. QED
  BY <1>1, <1>3, <1>4, <1>5 DEF e, i

\* A line that changes leaves the interrupt enable, its countdown and the halt
\* flag as they are (triggerInterrupt, i8085_state.c 63).
LEMMA TriggerLemma ==
  ASSUME NEW c \in Cpu, NEW code \in InterruptCode, NEW active \in Bit
  PROVE  /\ triggerInterrupt(c, code, active) \in Cpu
         /\ SameEnable(c, triggerInterrupt(c, code, active))
<1>1. CASE code \in 0 .. 7
  <2> DEFINE x == [c EXCEPT !.pending_int = active]
  <2>1. x \in Cpu
    BY DEF Cpu
  <2>2. triggerInterrupt(c, code, active) = [c EXCEPT !.pending_int = active, !.int_rst_number = code]
    BY <1>1 DEF triggerInterrupt
  <2>3. triggerInterrupt(c, code, active) = [x EXCEPT !.int_rst_number = code]
    BY <2>2 DEF Cpu
  <2>4. SameEnable(c, triggerInterrupt(c, code, active))
    BY <2>2 DEF Cpu, SameEnable
  <2> HIDE DEF x
  <2>5. triggerInterrupt(c, code, active) \in Cpu
    BY <1>1, <2>1, <2>3 DEF Cpu
  <2>6. QED
    BY <2>4, <2>5
<1>2. CASE code \in {45, 55, 65, 75}
  BY <1>2 DEF triggerInterrupt, Cpu, Bit, SameEnable
<1>3. QED
  BY <1>1, <1>2 DEF InterruptCode

----------------------------------------------------------------------------
(***************************************************************************)
(* The inductive invariant.  CriticalSection, EIShadow and HaltedNotArmed  *)
(* speak of the request that wins, or of the moment of a halt; what a step *)
(* keeps is why none can win: the enable flag and the countdown are both   *)
(* off until an EI, the flag is off while an EI is in its shadow, and the  *)
(* countdown never outlives the instruction after EI, so HLT finds it done.*)
(***************************************************************************)
Discipline ==
  /\ cpu.int_enable_delay <= 1
  /\ lastFlip # "EI" => cpu.int_enable = 0 /\ cpu.int_enable_delay = 0
  /\ shadow => cpu.int_enable = 0
  /\ cpu.hlt_enable = 1 => cpu.int_enable_delay = 0

IInv == TypeOK /\ Discipline

\* Reset8085 establishes the invariant.
LEMMA InitIInv == Init => IInv
<1> SUFFICES ASSUME Init PROVE IInv
  OBVIOUS
<1>1. cpu \in Cpu
  <2>1. 0 \in Addr /\ [s \in Slot |-> 0] \in [Slot -> Addr]
    BY AddrSizeAssumption DEF Addr
  <2>2. QED
    BY <2>1, BoardsAssumption DEF Init, Reset8085, Cpu, Bit
<1>2. board \in Boards /\ lastFlip = "none" /\ shadow = FALSE
  BY DEF Init
<1>3. cpu.int_enable = 0 /\ cpu.int_enable_delay = 0
  BY DEF Init, Reset8085
<1>4. Discipline
  BY <1>2, <1>3 DEF Discipline
<1>5. QED
  BY <1>1, <1>2, <1>4 DEF IInv, TypeOK

\* Every step keeps it.
LEMMA NextIInv == IInv /\ [Next]_vars => IInv'
<1> SUFFICES ASSUME IInv, [Next]_vars PROVE IInv'
  OBVIOUS
<1> USE DEF IInv, TypeOK, Discipline
<1>1. CASE Halted
  <2>1. vars' = vars
    BY <1>1 DEF Halted, Emulate8085Op, vars
  <2>2. QED
    BY <2>1 DEF vars
<1>2. ASSUME NEW taken \in BOOLEAN, Instruct(taken) PROVE IInv'
  <2> DEFINE op == Current(board.image, cpu).op
  <2>1. \A x \in DOMAIN board.image : board.image[x] \in Instruction
    BY BoardsAssumption
  <2>2. cpu \in Cpu /\ ~StaysHalted(cpu)
    BY <1>2 DEF Instruct
  <2>3. /\ cpu' \in Cpu
        /\ Entered(cpu) \in Cpu
        /\ Entered(cpu).int_enable = IF Winner(cpu) = "none" THEN cpu.int_enable ELSE 0
        /\ LET delay == IF op = "EI" THEN 2
                        ELSE IF op = "DI" THEN 0 ELSE cpu.int_enable_delay
           IN  /\ cpu'.int_enable_delay = IF delay > 0 THEN delay - 1 ELSE 0
               /\ cpu'.int_enable = IF delay = 1 THEN 1
                                    ELSE IF op = "DI" THEN 0 ELSE Entered(cpu).int_enable
        /\ cpu'.hlt_enable = IF op = "HLT" THEN 1 ELSE 0
    BY <1>2, <2>1, <2>2, EmulateLemma DEF Instruct
  <2>4. /\ lastFlip' = IF op \in {"EI", "DI"} THEN op ELSE lastFlip
        /\ shadow' = (op = "EI" /\ Entered(cpu).int_enable = 0)
        /\ board' = board
    BY <1>2 DEF Instruct
  <2>5. cpu.int_enable_delay \in 0 .. 2 /\ cpu.int_enable \in Bit
    BY <2>2 DEF Cpu
  <2> HIDE DEF op
  <2>6. TypeOK'
    <3>1. lastFlip' \in {"none", "EI", "DI"}
      BY <2>4
    <3>2. shadow' \in BOOLEAN
      BY <2>4, Zenon
    <3>3. QED
      BY <2>3, <2>4, <3>1, <3>2
  <2>7. cpu'.int_enable_delay <= 1
    BY <2>3, <2>5
  <2>8. (lastFlip # "EI" => cpu.int_enable = 0 /\ cpu.int_enable_delay = 0)'
    BY <2>3, <2>4, <2>5
  <2>9. (shadow => cpu.int_enable = 0)'
    <3>1. shadow' => op = "EI" /\ Entered(cpu).int_enable = 0
      BY <2>4, Zenon
    <3>2. op = "EI" /\ Entered(cpu).int_enable = 0 => cpu'.int_enable = 0
      BY <2>3
    <3>3. QED
      BY <3>1, <3>2
  <2>10. (cpu.hlt_enable = 1 => cpu.int_enable_delay = 0)'
    BY <2>3, <2>4, <2>5
  <2>11. QED
    BY <2>6, <2>7, <2>8, <2>9, <2>10
<1>3. ASSUME NEW code \in board.codes, NEW active \in Bit, Trigger(code, active) PROVE IInv'
  <2>1. code \in InterruptCode
    BY BoardsAssumption
  <2>2. cpu' \in Cpu /\ SameEnable(cpu, cpu')
    BY <1>3, <2>1, TriggerLemma DEF Trigger
  <2>3. QED
    BY <1>3, <2>2 DEF Trigger, SameEnable
<1>4. CASE UNCHANGED vars
  BY <1>4 DEF vars
<1>5. QED
  BY <1>1, <1>2, <1>3, <1>4 DEF Next, Step

\* The CPU record stays well formed under every program and every interrupt:
\* registers in range, flags 0 or 1, a countdown of at most 2.
THEOREM TypeCorrect == Spec => []TypeOK
<1>1. IInv => TypeOK
  BY DEF IInv
<1>2. QED
  BY <1>1, InitIInv, NextIInv, PTL DEF Spec

\* No maskable interrupt is accepted between DI and the next EI, nor before the
\* program's first EI (CriticalSection).
THEOREM CriticalSectionHolds == Spec => []CriticalSection
<1>1. IInv => CriticalSection
  BY DEF IInv, Discipline, CriticalSection, Winner, Maskable
<1>2. QED
  BY <1>1, InitIInv, NextIInv, PTL DEF Spec

\* An EI that turns interrupts on lets one more instruction through (EIShadow).
THEOREM EIShadowHolds == Spec => []EIShadow
<1>1. IInv => EIShadow
  BY DEF IInv, Discipline, EIShadow, Winner, Maskable
<1>2. QED
  BY <1>1, InitIInv, NextIInv, PTL DEF Spec

\* A halted processor has no EI counting down (HaltedNotArmed).
THEOREM HaltedNotArmedHolds == Spec => []HaltedNotArmed
<1>1. IInv => HaltedNotArmed
  BY DEF IInv, Discipline, HaltedNotArmed
<1>2. QED
  BY <1>1, InitIInv, NextIInv, PTL DEF Spec

----------------------------------------------------------------------------
(***************************************************************************)
(* No request is lost.  One call of Emulate8085Op is three changes of the  *)
(* record, and each says for itself which requests it may clear.           *)
(***************************************************************************)

\* c and d have the same requests, but for those of "cleared".
KeepsRequests(c, d, cleared) ==
  /\ "trap" \notin cleared => d.pending_trap = c.pending_trap
  /\ "r7" \notin cleared => d.r7_latch = c.r7_latch
  /\ "r6" \notin cleared => d.pending_r6 = c.pending_r6
  /\ "r5" \notin cleared => d.pending_r5 = c.pending_r5
  /\ "int" \notin cleared => d.pending_int = c.pending_int

\* Entering a handler clears no request and leaves the accumulator (rst, 124).
LEMMA RstRequests ==
  ASSUME NEW c \in Cpu, NEW v
  PROVE  KeepsRequests(c, rst(c, v), {}) /\ rst(c, v).a = c.a
BY DEF rst, Push, Cpu, KeepsRequests

\* An acceptance clears the request it accepts (checkInterrupts, 132).
LEMMA AcceptRequests ==
  ASSUME NEW c \in Cpu
  PROVE  /\ KeepsRequests(c, checkInterrupts(c), {Winner(c)})
         /\ checkInterrupts(c).a = c.a
<1> DEFINE off == [c EXCEPT !.int_enable = 0]
<1>1. off \in Cpu /\ KeepsRequests(c, off, {}) /\ off.a = c.a
  BY DEF Cpu, Bit, KeepsRequests
<1>2. ASSUME NEW x \in Cpu, NEW v, KeepsRequests(off, x, {Winner(c)}), x.a = off.a,
             checkInterrupts(c) = rst(x, v)
      PROVE  /\ KeepsRequests(c, checkInterrupts(c), {Winner(c)})
             /\ checkInterrupts(c).a = c.a
  <2> HIDE DEF off
  <2>1. KeepsRequests(x, rst(x, v), {}) /\ rst(x, v).a = x.a
    BY RstRequests
  <2>2. QED
    BY <1>1, <1>2, <2>1 DEF KeepsRequests
<1>3. CASE Winner(c) = "trap"
  <2> DEFINE x == [off EXCEPT !.pending_trap = 0]
  <2>1. x \in Cpu /\ KeepsRequests(off, x, {Winner(c)}) /\ x.a = off.a
    BY <1>1, <1>3 DEF Cpu, Bit, KeepsRequests
  <2>2. checkInterrupts(c) = rst(x, 36)
    BY <1>3 DEF checkInterrupts
  <2> HIDE DEF x, off
  <2>3. QED
    BY <1>2, <2>1, <2>2
<1>4. CASE Winner(c) = "r7"
  <2> DEFINE x == [off EXCEPT !.r7_latch = 0]
  <2>1. x \in Cpu /\ KeepsRequests(off, x, {Winner(c)}) /\ x.a = off.a
    BY <1>1, <1>4 DEF Cpu, Bit, KeepsRequests
  <2>2. checkInterrupts(c) = rst(x, 60)
    BY <1>4 DEF checkInterrupts
  <2> HIDE DEF x, off
  <2>3. QED
    BY <1>2, <2>1, <2>2
<1>5. CASE Winner(c) = "r6"
  <2> DEFINE x == [off EXCEPT !.pending_r6 = 0]
  <2>1. x \in Cpu /\ KeepsRequests(off, x, {Winner(c)}) /\ x.a = off.a
    BY <1>1, <1>5 DEF Cpu, Bit, KeepsRequests
  <2>2. checkInterrupts(c) = rst(x, 52)
    BY <1>5 DEF checkInterrupts
  <2> HIDE DEF x, off
  <2>3. QED
    BY <1>2, <2>1, <2>2
<1>6. CASE Winner(c) = "r5"
  <2> DEFINE x == [off EXCEPT !.pending_r5 = 0]
  <2>1. x \in Cpu /\ KeepsRequests(off, x, {Winner(c)}) /\ x.a = off.a
    BY <1>1, <1>6 DEF Cpu, Bit, KeepsRequests
  <2>2. checkInterrupts(c) = rst(x, 44)
    BY <1>6 DEF checkInterrupts
  <2> HIDE DEF x, off
  <2>3. QED
    BY <1>2, <2>1, <2>2
<1>7. CASE Winner(c) = "int"
  <2> DEFINE x == [off EXCEPT !.pending_int = 0]
  <2>1. x \in Cpu /\ KeepsRequests(off, x, {Winner(c)}) /\ x.a = off.a
    BY <1>1, <1>7 DEF Cpu, Bit, KeepsRequests
  <2>2. checkInterrupts(c) = rst(x, 8 * c.int_rst_number)
    BY <1>7 DEF checkInterrupts
  <2> HIDE DEF x, off
  <2>3. QED
    BY <1>2, <2>1, <2>2
<1>8. CASE Winner(c) = "none"
  BY <1>8 DEF checkInterrupts, KeepsRequests
<1>9. Winner(c) \in {"trap", "r7", "r6", "r5", "int", "none"}
  BY DEF Winner
<1>10. QED
  BY <1>3, <1>4, <1>5, <1>6, <1>7, <1>8, <1>9

\* Of the instructions only SIM with bit 4 clears one, the latch of RST 7.5.
LEMMA ExecuteRequests ==
  ASSUME NEW c \in Cpu, NEW i \in Instruction, NEW taken \in BOOLEAN
  PROVE  KeepsRequests(c, Execute(c, i, taken),
                       IF i.op = "SIM" /\ 4 \in c.a THEN {"r7"} ELSE {})
<1> DEFINE cleared == IF i.op = "SIM" /\ 4 \in c.a THEN {"r7"} ELSE {}
           d == Execute(c, i, taken)
<1>1. ASSUME NEW n \in 1 .. 3
      PROVE  /\ Advance(c, n) \in Cpu /\ Advance(c, n).a = c.a
             /\ KeepsRequests(c, Advance(c, n), {})
  BY <1>1, AdvanceLemma DEF Advance, Cpu, KeepsRequests
<1>2. CASE i.op \in {"JMP", "JCC", "CALL", "RET"}
  BY <1>1, <1>2 DEF Execute, Push, Cpu, KeepsRequests
<1>3. CASE i.op = "RST"
  <2>1. d = rst(Advance(c, 1), 8 * i.arg)
    BY <1>3 DEF Execute
  <2>2. KeepsRequests(Advance(c, 1), rst(Advance(c, 1), 8 * i.arg), {})
    BY <1>1, RstRequests
  <2>3. QED
    BY <1>1, <1>3, <2>1, <2>2 DEF KeepsRequests
<1>4. CASE i.op \in {"MVI", "RIM", "HLT", "NOP", "IN", "OUT"}
  BY <1>1, <1>4 DEF Execute, Cpu, KeepsRequests
<1>5. CASE i.op = "SIM"
  <2>1. d = Sim(Advance(c, 1))
    BY <1>5 DEF Execute
  <2> DEFINE x == Advance(c, 1)
  <2>2. x \in Cpu /\ x.a = c.a /\ KeepsRequests(c, x, {})
    BY <1>1
  <2> HIDE DEF x
  <2>3. KeepsRequests(x, Sim(x), IF 4 \in x.a THEN {"r7"} ELSE {})
    BY <2>2 DEF Sim, Cpu, KeepsRequests
  <2>4. QED
    BY <1>5, <2>1, <2>2, <2>3 DEF x, KeepsRequests
<1>6. CASE i.op \in {"DI", "EI"}
  <2>1. d = IF i.op = "DI" THEN DisableInterrupts(Advance(c, 1))
            ELSE EnableInterrupts(Advance(c, 1))
    BY <1>6 DEF Execute
  <2> DEFINE x == Advance(c, 1)
  <2>2. x \in Cpu /\ KeepsRequests(c, x, {})
    BY <1>1
  <2> HIDE DEF x
  <2>3. KeepsRequests(x, DisableInterrupts(x), {}) /\ KeepsRequests(x, EnableInterrupts(x), {})
    BY <2>2 DEF DisableInterrupts, EnableInterrupts, Cpu, KeepsRequests
  <2>4. QED
    BY <1>6, <2>1, <2>2, <2>3 DEF x, KeepsRequests
<1>7. i.op \in {"NOP", "EI", "DI", "HLT", "RIM", "SIM", "RET", "JMP", "JCC", "CALL", "RST",
                "MVI", "IN", "OUT"}
  BY DEF Instruction
<1>8. QED
  BY <1>2, <1>3, <1>4, <1>5, <1>6, <1>7

\* The whole call, seen from before it.
LEMMA EmulateRequests ==
  ASSUME NEW image, \A x \in DOMAIN image : image[x] \in Instruction,
         NEW c \in Cpu, NEW taken \in BOOLEAN, ~StaysHalted(c)
  PROVE  KeepsRequests(c, Emulate8085Op(image, c, taken),
           {Winner(c)} \cup (IF Current(image, c).op = "SIM" /\ 4 \in c.a THEN {"r7"} ELSE {}))
<1> DEFINE d == checkInterrupts(c)
           e == Entered(c)
           i == Current(image, c)
           f == Execute(e, i, taken)
<1>1. d \in Cpu /\ KeepsRequests(c, d, {Winner(c)}) /\ d.a = c.a
  BY AcceptLemma, AcceptRequests
<1>2. e = [d EXCEPT !.hlt_enable = 0]
  BY DEF Entered
<1>3. i \in Instruction
  BY DEF Current, Fetch, Nop, Instruction
<1>4. Emulate8085Op(image, c, taken) = EndDelay(f)
  BY DEF Emulate8085Op
<1> HIDE DEF d, e, i
<1>5. e \in Cpu /\ KeepsRequests(d, e, {}) /\ e.a = d.a
  BY <1>1, <1>2 DEF Cpu, Bit, KeepsRequests
<1>6. f \in Cpu /\ KeepsRequests(e, f, IF i.op = "SIM" /\ 4 \in e.a THEN {"r7"} ELSE {})
  BY <1>3, <1>5, ExecuteLemma, ExecuteRequests
<1> HIDE DEF f
<1>7. KeepsRequests(f, EndDelay(f), {})
  BY <1>6 DEF EndDelay, Cpu, KeepsRequests
<1>8. KeepsRequests(c, EndDelay(f),
        {Winner(c)} \cup (IF i.op = "SIM" /\ 4 \in c.a THEN {"r7"} ELSE {}))
  BY <1>1, <1>5, <1>6, <1>7 DEF KeepsRequests
<1>9. QED
  BY <1>4, <1>8 DEF i

\* What RequestsSurvive says of one step.
Survive ==
  Step =>
    /\ cpu.pending_trap = 1 /\ cpu'.pending_trap = 0 => Winner(cpu) = "trap"
    /\ cpu.r7_latch = 1 /\ cpu'.r7_latch = 0 =>
         Winner(cpu) = "r7" \/ (Current(board.image, cpu).op = "SIM" /\ 4 \in cpu.a)
    /\ cpu.pending_r6 = 1 /\ cpu'.pending_r6 = 0 => Winner(cpu) = "r6"
    /\ cpu.pending_r5 = 1 /\ cpu'.pending_r5 = 0 => Winner(cpu) = "r5"
    /\ cpu.pending_int = 1 /\ cpu'.pending_int = 0 => Winner(cpu) = "int"

LEMMA StepSurvives == TypeOK => Survive
<1> SUFFICES ASSUME TypeOK, Step PROVE Survive
  BY DEF Survive
<1>1. CASE Halted
  BY <1>1 DEF Halted, Emulate8085Op, Survive
<1>2. ASSUME NEW taken \in BOOLEAN, Instruct(taken) PROVE Survive
  <2> DEFINE sim == Current(board.image, cpu).op = "SIM" /\ 4 \in cpu.a
  <2>1. \A x \in DOMAIN board.image : board.image[x] \in Instruction
    BY BoardsAssumption DEF TypeOK
  <2>2. KeepsRequests(cpu, cpu', {Winner(cpu)} \cup (IF sim THEN {"r7"} ELSE {}))
    BY <1>2, <2>1, EmulateRequests DEF Instruct, TypeOK
  <2> HIDE DEF sim
  <2>3. /\ cpu.pending_trap = 1 /\ cpu'.pending_trap = 0 => Winner(cpu) = "trap"
        /\ cpu.r7_latch = 1 /\ cpu'.r7_latch = 0 => Winner(cpu) = "r7" \/ sim
        /\ cpu.pending_r6 = 1 /\ cpu'.pending_r6 = 0 => Winner(cpu) = "r6"
        /\ cpu.pending_r5 = 1 /\ cpu'.pending_r5 = 0 => Winner(cpu) = "r5"
        /\ cpu.pending_int = 1 /\ cpu'.pending_int = 0 => Winner(cpu) = "int"
    BY <2>2 DEF KeepsRequests
  <2>4. QED
    BY <2>3 DEF sim, Survive
<1>3. QED
  BY <1>1, <1>2 DEF Step

\* No request is lost: executing clears only the one that is accepted, or the RST 7.5
\* latch by a SIM that asks for it (RequestsSurvive).
THEOREM RequestsSurviveHolds == Spec => RequestsSurvive
<1>1. TypeOK /\ [Next]_vars => [Survive]_vars
  BY StepSurvives
<1>2. Spec => [][Survive]_vars
  BY <1>1, TypeCorrect, PTL DEF Spec
<1>3. QED
  BY <1>2 DEF RequestsSurvive, Survive

----------------------------------------------------------------------------
(***************************************************************************)
(* Handlers do not nest.  Between two instructions a disciplined program   *)
(* is either in its main part, with nothing on the stack and interrupts    *)
(* off outside the open addresses, or in its one handler, with interrupts  *)
(* off, an open return address on the stack, and an EI counting down only  *)
(* in front of the RET.                                                    *)
(***************************************************************************)

\* No request appears, and the number of the RST stays.
NoneRaised(c, d) ==
  /\ d.int_rst_number = c.int_rst_number
  /\ d.pending_trap = 1 => c.pending_trap = 1
  /\ d.r7_latch = 1 => c.r7_latch = 1
  /\ d.pending_r6 = 1 => c.pending_r6 = 1
  /\ d.pending_r5 = 1 => c.pending_r5 = 1
  /\ d.pending_int = 1 => c.pending_int = 1

\* The slot below.
Below(sp) == (sp + StackSize - 1) % StackSize

\* d is c in a handler at v.
Calls(c, d, v) ==
  d.pc = v /\ d.sp = Below(c.sp) /\ d.stack[d.sp] = c.pc

LEMMA RstFlow ==
  ASSUME NEW c \in Cpu, NEW v
  PROVE  Calls(c, rst(c, v), v) /\ NoneRaised(c, rst(c, v))
<1>1. Below(c.sp) \in Slot
  BY StackSizeAssumption, SMT DEF Cpu, Slot, Below
<1> QED BY <1>1 DEF rst, Push, Cpu, NoneRaised, Calls, Below

\* An acceptance enters the handler of the request it takes back.
LEMMA AcceptFlow ==
  ASSUME NEW c \in Cpu, Winner(c) \notin {"none", "trap"}
  PROVE  \E code \in {55, 65, 75} \cup 0 .. 7 :
           /\ Calls(c, checkInterrupts(c), CASE code = 55 -> 44 [] code = 65 -> 52
                                             [] code = 75 -> 60 [] OTHER -> 8 * code)
           /\ NoneRaised(c, checkInterrupts(c))
           /\ \/ code = 55 /\ c.pending_r5 = 1
              \/ code = 65 /\ c.pending_r6 = 1
              \/ code = 75 /\ c.r7_latch = 1
              \/ code = c.int_rst_number /\ code \in 0 .. 7 /\ c.pending_int = 1
<1> DEFINE off == [c EXCEPT !.int_enable = 0]
           d == checkInterrupts(c)
<1>1. off \in Cpu /\ NoneRaised(c, off) /\ off.pc = c.pc /\ off.sp = c.sp
  BY DEF Cpu, Bit, NoneRaised
<1>2. ASSUME NEW x \in Cpu, NEW v, NoneRaised(off, x), x.pc = off.pc, x.sp = off.sp, d = rst(x, v)
      PROVE  Calls(c, d, v) /\ NoneRaised(c, d)
  <2> HIDE DEF off, d
  <2>1. Calls(x, rst(x, v), v) /\ NoneRaised(x, rst(x, v))
    BY RstFlow
  <2> QED BY <1>1, <1>2, <2>1 DEF NoneRaised, Calls
<1> HIDE DEF off
<1>3. CASE Winner(c) = "r7"
  <2> DEFINE x == [off EXCEPT !.r7_latch = 0]
  <2>1. x \in Cpu /\ NoneRaised(off, x) /\ x.pc = off.pc /\ x.sp = off.sp
    BY <1>1 DEF Cpu, Bit, NoneRaised
  <2>2. d = rst(x, 60) /\ c.r7_latch = 1
    BY <1>3 DEF checkInterrupts, Winner, off
  <2> HIDE DEF x, d
  <2>3. Calls(c, d, 60) /\ NoneRaised(c, d)
    BY <1>2, <2>1, <2>2
  <2> QED BY <2>2, <2>3 DEF d
<1>4. CASE Winner(c) = "r6"
  <2> DEFINE x == [off EXCEPT !.pending_r6 = 0]
  <2>1. x \in Cpu /\ NoneRaised(off, x) /\ x.pc = off.pc /\ x.sp = off.sp
    BY <1>1 DEF Cpu, Bit, NoneRaised
  <2>2. d = rst(x, 52) /\ c.pending_r6 = 1
    BY <1>4 DEF checkInterrupts, Winner, off
  <2> HIDE DEF x, d
  <2>3. Calls(c, d, 52) /\ NoneRaised(c, d)
    BY <1>2, <2>1, <2>2
  <2> QED BY <2>2, <2>3 DEF d
<1>5. CASE Winner(c) = "r5"
  <2> DEFINE x == [off EXCEPT !.pending_r5 = 0]
  <2>1. x \in Cpu /\ NoneRaised(off, x) /\ x.pc = off.pc /\ x.sp = off.sp
    BY <1>1 DEF Cpu, Bit, NoneRaised
  <2>2. d = rst(x, 44) /\ c.pending_r5 = 1
    BY <1>5 DEF checkInterrupts, Winner, off
  <2> HIDE DEF x, d
  <2>3. Calls(c, d, 44) /\ NoneRaised(c, d)
    BY <1>2, <2>1, <2>2
  <2> QED BY <2>2, <2>3 DEF d
<1>6. CASE Winner(c) = "int"
  <2> DEFINE x == [off EXCEPT !.pending_int = 0]
             code == c.int_rst_number
  <2>1. x \in Cpu /\ NoneRaised(off, x) /\ x.pc = off.pc /\ x.sp = off.sp
    BY <1>1 DEF Cpu, Bit, NoneRaised
  <2>2. d = rst(x, 8 * code) /\ c.pending_int = 1
    BY <1>6 DEF checkInterrupts, Winner, off
  <2>3. code \in 0 .. 7
    BY DEF Cpu
  <2> HIDE DEF x, d, code
  <2>4. Calls(c, d, 8 * code) /\ NoneRaised(c, d)
    BY <1>2, <2>1, <2>2
  <2>5. 8 * code = CASE code = 55 -> 44 [] code = 65 -> 52 [] code = 75 -> 60 [] OTHER -> 8 * code
    BY <2>3
  <2> QED BY <2>2, <2>3, <2>4, <2>5 DEF d, code
<1>7. Winner(c) \in {"trap", "r7", "r6", "r5", "int", "none"}
  BY DEF Winner
<1> QED BY <1>3, <1>4, <1>5, <1>6, <1>7

\* Where an instruction other than a call leads, and that it raises no request.
LEMMA ExecuteFlow ==
  ASSUME NEW c \in Cpu, NEW i \in Instruction, NEW taken \in BOOLEAN, i.op \notin {"CALL", "RST"}
  PROVE  LET d == Execute(c, i, taken)
         IN  /\ NoneRaised(c, d) /\ d.stack = c.stack
             /\ i.op # "RET" => d.sp = c.sp /\ d.pc \in Successors(i, c.pc)
             /\ i.op = "RET" => d.sp = (c.sp + 1) % StackSize /\ d.pc = c.stack[c.sp]
<1> DEFINE d == Execute(c, i, taken)
           Same(x, y) == NoneRaised(x, y) /\ y.stack = x.stack /\ y.sp = x.sp
<1>1. ASSUME NEW n \in 1 .. 3
      PROVE  /\ Advance(c, n) \in Cpu /\ Same(c, Advance(c, n))
             /\ Advance(c, n).pc = (c.pc + n) % AddrSize
  <2>1. Advance(c, n) \in Cpu
    BY AdvanceLemma
  <2> QED BY <2>1 DEF Advance, Cpu, NoneRaised
<1> DEFINE one == Advance(c, 1)
<1>2. one \in Cpu /\ Same(c, one) /\ one.pc = (c.pc + 1) % AddrSize
  BY <1>1
<1>3. CASE i.op = "RET"
  BY <1>3 DEF Execute, Cpu, NoneRaised
<1>4. CASE i.op \in {"JMP", "JCC"}
  <2>1. Same(c, [c EXCEPT !.pc = i.arg]) /\ [c EXCEPT !.pc = i.arg].pc = i.arg
    BY DEF Cpu, NoneRaised
  <2>2. /\ d = [c EXCEPT !.pc = i.arg] \/ (i.op = "JCC" /\ d = Advance(c, 3))
        /\ i.arg \in Successors(i, c.pc)
        /\ i.op = "JCC" => (c.pc + 3) % AddrSize \in Successors(i, c.pc)
    BY <1>4 DEF Execute, Successors
  <2> DEFINE three == Advance(c, 3)
  <2>3. Same(c, three) /\ three.pc = (c.pc + 3) % AddrSize
    BY <1>1
  <2> HIDE DEF three, d
  <2>4. Same(c, d) /\ d.pc \in Successors(i, c.pc)
    BY <2>1, <2>2, <2>3 DEF three
  <2> QED BY <1>4, <2>4 DEF d
<1>5. CASE i.op \in {"MVI", "IN", "OUT"}
  <2> DEFINE two == Advance(c, 2)
  <2>1. two \in Cpu /\ Same(c, two) /\ two.pc = (c.pc + 2) % AddrSize
    BY <1>1
  <2>2. d = two \/ d = [two EXCEPT !.a = i.arg]
    <3>1. CASE i.op = "MVI"
      BY <3>1 DEF Execute
    <3>2. CASE i.op \in {"IN", "OUT"}
      BY <3>2 DEF Execute
    <3> QED BY <1>5, <3>1, <3>2
  <2>3. (c.pc + 2) % AddrSize \in Successors(i, c.pc)
    BY <1>5 DEF Successors
  <2> HIDE DEF two, d
  <2>4. Same(two, [two EXCEPT !.a = i.arg]) /\ [two EXCEPT !.a = i.arg].pc = two.pc
    BY <2>1 DEF Cpu, NoneRaised
  <2> QED BY <1>5, <2>1, <2>2, <2>3, <2>4 DEF NoneRaised, d
<1>6. CASE i.op \in {"NOP", "HLT", "RIM", "SIM", "DI", "EI"}
  <2>1. (c.pc + 1) % AddrSize \in Successors(i, c.pc)
    BY <1>6 DEF Successors
  <2>2. \/ d = one \/ d = [one EXCEPT !.hlt_enable = 1] \/ d = [one EXCEPT !.a = RimBits(c)]
        \/ d = Sim(one) \/ d = DisableInterrupts(one) \/ d = EnableInterrupts(one)
    <3>1. CASE i.op = "NOP"
      BY <3>1 DEF Execute
    <3>2. CASE i.op = "HLT"
      BY <3>2 DEF Execute
    <3>3. CASE i.op = "RIM"
      BY <3>3 DEF Execute
    <3>4. CASE i.op = "SIM"
      BY <3>4 DEF Execute
    <3>5. CASE i.op = "DI"
      BY <3>5 DEF Execute
    <3>6. CASE i.op = "EI"
      BY <3>6 DEF Execute
    <3> HIDE DEF one, d
    <3> QED BY <1>6, <3>1, <3>2, <3>3, <3>4, <3>5, <3>6
  <2> HIDE DEF one, d
  <2>3. Same(one, d) /\ d.pc = one.pc
    <3>1. CASE d = one \/ d = [one EXCEPT !.hlt_enable = 1] \/ d = [one EXCEPT !.a = RimBits(c)]
      BY <1>2, <3>1 DEF Cpu, NoneRaised
    <3>2. CASE d = Sim(one)
      BY <1>2, <3>2 DEF Cpu, NoneRaised, Sim
    <3>3. CASE d = DisableInterrupts(one) \/ d = EnableInterrupts(one)
      BY <1>2, <3>3 DEF Cpu, NoneRaised, DisableInterrupts, EnableInterrupts
    <3> QED BY <2>2, <3>1, <3>2, <3>3
  <2> QED BY <1>2, <1>6, <2>1, <2>3 DEF NoneRaised, d
<1>7. i.op \in {"NOP", "EI", "DI", "HLT", "RIM", "SIM", "RET", "JMP", "JCC", "CALL", "RST",
                "MVI", "IN", "OUT"}
  BY DEF Instruction
<1> QED BY <1>3, <1>4, <1>5, <1>6, <1>7

\* The countdown leaves the rest alone.
LEMMA EndFlow ==
  ASSUME NEW f \in Cpu
  PROVE  LET d == EndDelay(f)
         IN  /\ NoneRaised(f, d) /\ d.stack = f.stack /\ d.sp = f.sp /\ d.pc = f.pc
             /\ d.int_enable_delay = IF f.int_enable_delay > 0 THEN f.int_enable_delay - 1 ELSE 0
             /\ d.int_enable = IF f.int_enable_delay = 1 THEN 1 ELSE f.int_enable
BY DEF EndDelay, Cpu, NoneRaised

InMain(b, c) ==
  /\ c.pc \in b.main /\ c.sp = EntrySp
  /\ c.int_enable = 1 \/ c.int_enable_delay # 0 => c.pc \in b.open
  /\ c.int_enable = 1 => c.int_enable_delay = 0

InHandler(b, c) ==
  /\ c.pc \in b.handlers /\ c.sp = Below(EntrySp) /\ c.stack[c.sp] \in b.open
  /\ c.int_enable = 0
  /\ c.int_enable_delay # 0 => Fetch(b.image, c.pc).op = "RET"

\* Only what is wired has been requested.
Requested(b, c) ==
  /\ c.pending_trap = 0
  /\ c.r7_latch = 1 => 75 \in b.codes
  /\ c.pending_r6 = 1 => 65 \in b.codes
  /\ c.pending_r5 = 1 => 55 \in b.codes
  /\ c.pending_int = 1 => c.int_rst_number \in b.codes

\* One instruction of the handler or of the main part.
LEMMA InstructionFlow ==
  ASSUME NEW b \in DisciplinedBoards, NEW e \in Cpu, NEW taken \in BOOLEAN,
         e.int_enable_delay <= 1, InMain(b, e) \/ InHandler(b, e)
  PROVE  LET d == EndDelay(Execute(e, Fetch(b.image, e.pc), taken))
         IN  /\ InMain(b, d) \/ InHandler(b, d)
             /\ NoneRaised(e, d)
<1> DEFINE i == Fetch(b.image, e.pc)
           f == Execute(e, i, taken)
           d == EndDelay(f)
<1>1. i \in Instruction
  BY BoardsAssumption DEF Fetch, Nop, Instruction
<1>2. /\ b.open \subseteq b.main
      /\ e.pc \in b.main =>
           /\ i.op \notin {"CALL", "RST", "RET"} /\ Successors(i, e.pc) \subseteq b.main
           /\ i.op = "EI" => e.pc \notin b.open /\ Successors(i, e.pc) \subseteq b.open
           /\ e.pc \in b.open /\ i.op # "DI" => Successors(i, e.pc) \subseteq b.open
      /\ e.pc \in b.handlers =>
           /\ i.op \notin {"CALL", "RST"} /\ Successors(i, e.pc) \subseteq b.handlers
           /\ i.op = "EI" => \A y \in Successors(i, e.pc) : Fetch(b.image, y).op = "RET"
  BY DisciplineAssumption DEF Disciplined
<1> HIDE DEF i
<1>3. i.op \notin {"CALL", "RST"}
  BY <1>2 DEF InMain, InHandler
<1>4. /\ f \in Cpu
      /\ f.int_enable = IF i.op = "DI" THEN 0 ELSE e.int_enable
      /\ f.int_enable_delay = IF i.op = "EI" THEN 2
                              ELSE IF i.op = "DI" THEN 0 ELSE e.int_enable_delay
  BY <1>1, ExecuteLemma
<1>5. /\ NoneRaised(e, f) /\ f.stack = e.stack
      /\ i.op # "RET" => f.sp = e.sp /\ f.pc \in Successors(i, e.pc)
      /\ i.op = "RET" => f.sp = (e.sp + 1) % StackSize /\ f.pc = e.stack[e.sp]
  BY <1>1, <1>3, ExecuteFlow
<1> HIDE DEF f
<1>6. /\ NoneRaised(f, d) /\ d.stack = f.stack /\ d.sp = f.sp /\ d.pc = f.pc
      /\ d.int_enable_delay = IF f.int_enable_delay > 0 THEN f.int_enable_delay - 1 ELSE 0
      /\ d.int_enable = IF f.int_enable_delay = 1 THEN 1 ELSE f.int_enable
  BY <1>4, EndFlow
<1> HIDE DEF d
<1>7. e.int_enable_delay \in 0 .. 1 /\ e.int_enable \in 0 .. 1
  BY DEF Cpu, Bit
<1>8. NoneRaised(e, d)
  BY <1>5, <1>6 DEF NoneRaised
<1>9. CASE InMain(b, e)
  <2>1. i.op # "RET"
    BY <1>2, <1>9 DEF InMain
  <2>2. d.pc \in Successors(i, e.pc) /\ d.pc \in b.main /\ d.sp = EntrySp
    BY <1>2, <1>5, <1>6, <1>9, <2>1 DEF InMain
  <2>3. d.int_enable = 1 => d.int_enable_delay = 0
    BY <1>2, <1>4, <1>6, <1>7, <1>9 DEF InMain
  <2>4. d.int_enable = 1 \/ d.int_enable_delay # 0 => d.pc \in b.open
    BY <1>2, <1>4, <1>6, <1>7, <1>9, <2>2 DEF InMain
  <2> QED BY <1>8, <2>2, <2>3, <2>4 DEF InMain, d, f, i
<1>10. CASE InHandler(b, e)
  <2>1. CASE i.op = "RET"
    <3>1. d.pc \in b.open /\ d.pc \in b.main
      BY <1>2, <1>5, <1>6, <1>10, <2>1 DEF InHandler
    <3>2. d.sp = EntrySp
      <4>1. (Below(EntrySp) + 1) % StackSize = EntrySp
        BY StackSizeAssumption, BoardsAssumption, SMT DEF Below, Slot
      <4> QED BY <1>5, <1>6, <1>10, <2>1, <4>1 DEF InHandler
    <3>3. d.int_enable_delay = 0
      BY <1>4, <1>6, <1>7, <2>1
    <3> QED BY <1>8, <3>1, <3>2, <3>3 DEF InMain, d, f, i
  <2>2. CASE i.op # "RET"
    <3>1. e.int_enable_delay = 0
      BY <1>10, <2>2 DEF InHandler, i
    <3>2. d.pc \in Successors(i, e.pc) /\ d.pc \in b.handlers
      BY <1>2, <1>5, <1>6, <1>10, <2>2 DEF InHandler
    <3>3. d.sp = Below(EntrySp) /\ d.stack[d.sp] \in b.open
      BY <1>5, <1>6, <1>10, <2>2 DEF InHandler
    <3>4. d.int_enable = 0
      BY <1>4, <1>6, <1>10, <3>1 DEF InHandler
    <3>5. d.int_enable_delay # 0 => Fetch(b.image, d.pc).op = "RET"
      BY <1>2, <1>4, <1>6, <1>10, <3>1, <3>2 DEF InHandler
    <3> QED BY <1>8, <3>2, <3>3, <3>4, <3>5 DEF InHandler, d, f, i
  <2> QED BY <2>1, <2>2
<1> QED BY <1>9, <1>10

\* An acceptance: only in the main part, at an open address.
LEMMA EnterFlow ==
  ASSUME NEW b \in DisciplinedBoards, NEW c \in Cpu, Requested(b, c),
         InMain(b, c) \/ InHandler(b, c)
  PROVE  LET e == Entered(c)
         IN  /\ InMain(b, e) \/ InHandler(b, e)
             /\ NoneRaised(c, e)
             /\ e \in Cpu /\ e.int_enable_delay = c.int_enable_delay
<1> DEFINE a == checkInterrupts(c)
           e == Entered(c)
<1>1. /\ a \in Cpu /\ a.int_enable_delay = c.int_enable_delay
      /\ Winner(c) = "none" => a = c
      /\ Winner(c) # "none" => a.int_enable = 0
  BY AcceptLemma
<1>2. e = [a EXCEPT !.hlt_enable = 0]
  BY DEF Entered
<1>3. /\ e \in Cpu /\ NoneRaised(a, e) /\ e.pc = a.pc /\ e.sp = a.sp /\ e.stack = a.stack
      /\ e.int_enable = a.int_enable /\ e.int_enable_delay = a.int_enable_delay
  <2> HIDE DEF a, e
  <2> QED BY <1>1, <1>2 DEF Cpu, Bit, NoneRaised
<1> HIDE DEF e
<1>4. CASE Winner(c) = "none"
  <2>1. a = c
    BY <1>1, <1>4
  <2> HIDE DEF a
  <2> QED BY <1>3, <2>1 DEF InMain, InHandler, e
<1>5. CASE Winner(c) # "none"
  <2>1. c.int_enable = 1 /\ Winner(c) # "trap"
    BY <1>5 DEF Winner, Requested, Cpu, Bit
  <2>2. InMain(b, c) /\ c.pc \in b.open /\ c.int_enable_delay = 0
    BY <2>1 DEF InMain, InHandler
  <2>3. PICK code \in {55, 65, 75} \cup 0 .. 7 :
           /\ Calls(c, a, CASE code = 55 -> 44 [] code = 65 -> 52
                            [] code = 75 -> 60 [] OTHER -> 8 * code)
           /\ NoneRaised(c, a)
           /\ \/ code = 55 /\ c.pending_r5 = 1
              \/ code = 65 /\ c.pending_r6 = 1
              \/ code = 75 /\ c.r7_latch = 1
              \/ code = c.int_rst_number /\ code \in 0 .. 7 /\ c.pending_int = 1
    BY <1>5, <2>1, AcceptFlow
  <2> DEFINE v == CASE code = 55 -> 44 [] code = 65 -> 52 [] code = 75 -> 60 [] OTHER -> 8 * code
             vector == [x \in InterruptCode |->
                          CASE x = 45 -> 36 [] x = 55 -> 44 [] x = 65 -> 52
                            [] x = 75 -> 60 [] OTHER -> 8 * x]
  <2>4. code \in b.codes
    BY <2>3 DEF Requested
  <2>5. vector[code] \in b.handlers
    BY <2>4, DisciplineAssumption DEF Disciplined
  <2>6. code # 45 /\ code \in InterruptCode
    BY DEF InterruptCode
  <2>7. v = vector[code]
    BY <2>6
  <2> HIDE DEF v, vector, a
  <2>8. a.pc \in b.handlers /\ a.sp = Below(EntrySp) /\ a.stack[a.sp] \in b.open
    BY <2>2, <2>3, <2>5, <2>7 DEF Calls, InMain, v
  <2>9. InHandler(b, e) /\ NoneRaised(c, e)
    BY <1>1, <1>3, <1>5, <2>2, <2>3, <2>8 DEF InHandler, NoneRaised
  <2> QED BY <1>1, <1>3, <2>9 DEF e
<1> QED BY <1>4, <1>5

NestingInv ==
  /\ IInv
  /\ board \in DisciplinedBoards =>
       Requested(board, cpu) /\ (InMain(board, cpu) \/ InHandler(board, cpu))

LEMMA NestingInit == Init => NestingInv
<1> SUFFICES ASSUME Init, board \in DisciplinedBoards
             PROVE  Requested(board, cpu) /\ InMain(board, cpu)
  BY InitIInv DEF NestingInv
<1>1. cpu = Reset8085(EntryPc, EntrySp)
  BY DEF Init
<1>2. EntryPc \in board.main
  BY DisciplineAssumption DEF Disciplined
<1> QED BY <1>1, <1>2 DEF Reset8085, Requested, InMain

LEMMA NestingNext == NestingInv /\ [Next]_vars => NestingInv'
<1> SUFFICES ASSUME NestingInv, [Next]_vars, board' \in DisciplinedBoards
             PROVE  (Requested(board, cpu) /\ (InMain(board, cpu) \/ InHandler(board, cpu)))'
  BY NextIInv DEF NestingInv
<1>1. board' = board
  BY DEF Next, Step, Halted, Instruct, Trigger, vars
<1>2. /\ cpu \in Cpu /\ cpu.int_enable_delay <= 1 /\ Requested(board, cpu)
      /\ InMain(board, cpu) \/ (InHandler(board, cpu) /\ board \in DisciplinedBoards)
  BY <1>1 DEF NestingInv, IInv, TypeOK, Discipline
<1>3. CASE Halted \/ UNCHANGED vars
  <2>1. cpu' = cpu
    BY <1>3 DEF Halted, Emulate8085Op, vars
  <2> QED BY <1>1, <1>2, <2>1
<1>4. ASSUME NEW taken \in BOOLEAN, Instruct(taken)
      PROVE  (Requested(board, cpu) /\ (InMain(board, cpu) \/ InHandler(board, cpu)))'
  <2> DEFINE e == Entered(cpu)
             d == EndDelay(Execute(e, Fetch(board.image, e.pc), taken))
  <2>1. cpu' = d
    BY <1>4 DEF Instruct, Emulate8085Op, Current
  <2>2. /\ InMain(board, e) \/ InHandler(board, e)
        /\ NoneRaised(cpu, e) /\ e \in Cpu /\ e.int_enable_delay = cpu.int_enable_delay
    BY <1>1, <1>2, EnterFlow
  <2> HIDE DEF e
  <2>3. (InMain(board, d) \/ InHandler(board, d)) /\ NoneRaised(e, d)
    BY <1>1, <1>2, <2>2, InstructionFlow
  <2> HIDE DEF d
  <2>4. Requested(board, d)
    <3>1. d.pending_trap \in Bit
      <4>1. cpu' \in Cpu
        BY NextIInv DEF NestingInv, IInv, TypeOK
      <4> QED BY <2>1, <4>1 DEF Cpu
    <3> QED BY <1>2, <2>2, <2>3, <3>1 DEF Requested, NoneRaised, Bit
  <2> QED BY <1>1, <2>1, <2>3, <2>4
<1>5. ASSUME NEW code \in board.codes, NEW active \in Bit, Trigger(code, active)
      PROVE  (Requested(board, cpu) /\ (InMain(board, cpu) \/ InHandler(board, cpu)))'
  <2>1. code \in InterruptCode /\ code # 45
    BY <1>1, BoardsAssumption, DisciplineAssumption DEF Disciplined
  <2>2. cpu' = triggerInterrupt(cpu, code, active) /\ (code \in 0 .. 7 => active = 1)
    BY <1>5 DEF Trigger
  <2>3. /\ cpu'.pc = cpu.pc /\ cpu'.sp = cpu.sp /\ cpu'.stack = cpu.stack
        /\ cpu'.int_enable = cpu.int_enable /\ cpu'.int_enable_delay = cpu.int_enable_delay
    BY <1>2, <2>1, <2>2 DEF triggerInterrupt, Cpu, InterruptCode
  <2>4. Requested(board, cpu')
    <3>1. CASE code \in 0 .. 7
      BY <1>2, <2>2, <3>1 DEF triggerInterrupt, Cpu, Requested
    <3>2. CASE code = 55
      BY <1>2, <2>2, <3>2 DEF triggerInterrupt, Cpu, Requested
    <3>3. CASE code = 65
      BY <1>2, <2>2, <3>3 DEF triggerInterrupt, Cpu, Requested
    <3>4. CASE code = 75
      BY <1>2, <2>2, <3>4 DEF triggerInterrupt, Cpu, Requested
    <3> QED BY <2>1, <3>1, <3>2, <3>3, <3>4 DEF InterruptCode
  <2> QED BY <1>1, <1>2, <2>3, <2>4 DEF InMain, InHandler
<1> QED BY <1>3, <1>4, <1>5 DEF Next, Step

\* A handler is never entered before the last one returned, however the requests fall
\* (NestingBounded): acceptance disables interrupts (i8085_exec.c 136), and the EI in
\* front of a RET takes effect only behind it (1711).
THEOREM NestingBoundedHolds == Spec => []NestingBounded
<1>1. NestingInv => NestingBounded
  <2> SUFFICES ASSUME NestingInv, board \in DisciplinedBoards
               PROVE  (EntrySp + StackSize - cpu.sp) % StackSize <= 1
    BY DEF NestingBounded
  <2>1. StackSize \in Nat /\ StackSize > 0 /\ EntrySp \in 0 .. StackSize - 1
    BY StackSizeAssumption, BoardsAssumption DEF Slot
  <2>2. cpu.sp = EntrySp \/ cpu.sp = Below(EntrySp)
    BY DEF NestingInv, InMain, InHandler
  <2>3. CASE cpu.sp = EntrySp
    BY <2>1, <2>3
  <2>4. CASE cpu.sp = Below(EntrySp) /\ EntrySp = 0
    <3>1. Below(EntrySp) = StackSize - 1
      BY <2>1, <2>4 DEF Below
    <3>2. (EntrySp + StackSize - cpu.sp) = 1
      BY <2>1, <2>4, <3>1
    <3> QED BY <2>1, <3>2
  <2>5. CASE cpu.sp = Below(EntrySp) /\ EntrySp > 0
    <3>1. Below(EntrySp) = EntrySp - 1
      BY <2>1, <2>5 DEF Below
    <3>2. (EntrySp + StackSize - cpu.sp) = StackSize + 1
      BY <2>1, <2>5, <3>1
    <3> QED BY <2>1, <3>2
  <2> QED BY <2>1, <2>2, <2>3, <2>4, <2>5
<1> QED BY <1>1, NestingInit, NestingNext, PTL DEF Spec
=============================================================================
