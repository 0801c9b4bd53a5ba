----------------------------- MODULE I8085Core -----------------------------
(***************************************************************************)
(* The 8085 processor of the simulator as operators on one CPU record:     *)
(* i8085_state.c (reset, interrupt lines, serial lines) and the control    *)
(* part of i8085_exec.c (interrupt acceptance, calls and returns, the      *)
(* instructions that enable, mask, reset or wait for interrupts, and the   *)
(* bookkeeping around every instruction).                                  *)
(*                                                                         *)
(* Data is abstract where nothing here depends on it.  Every instruction   *)
(* that only computes is "NOP"; a conditional jump takes either branch;    *)
(* the accumulator is the set of its bits that are 1, because SIM and RIM  *)
(* give its bits a meaning; the stack is an area of its own, of StackSize  *)
(* words, that wraps as the 64K memory does and that the program does not  *)
(* execute from or store into.                                             *)
(***************************************************************************)
EXTENDS Integers, Sequences

CONSTANTS AddrSize,     \* size of the address space, 65536 in the code
          StackSize     \* words of the stack area

ASSUME AddrSizeAssumption == AddrSize \in Nat /\ AddrSize > 60
ASSUME StackSizeAssumption == StackSize \in Nat \ {0}

Addr == 0 .. AddrSize - 1
Slot == 0 .. StackSize - 1
Bit == 0 .. 1

(***************************************************************************)
(* Instructions.  "arg" is the target of a jump or a call, the number of   *)
(* an RST, the bits MVI A loads or the port of IN and OUT; the others have *)
(* none.  What IN reads and OUT does is left to the board.                 *)
(***************************************************************************)
Instruction ==
  [op : {"NOP", "EI", "DI", "HLT", "RIM", "SIM", "RET"}]
    \cup [op : {"JMP", "JCC", "CALL"}, arg : Addr]
    \cup [op : {"RST"}, arg : 0 .. 7]
    \cup [op : {"MVI"}, arg : SUBSET (0 .. 7)]
    \cup [op : {"IN", "OUT"}, arg : 0 .. 255]

Nop == [op |-> "NOP"]

Cpu == [pc : Addr, sp : Slot, stack : [Slot -> Addr], a : SUBSET (0 .. 7),
        int_enable : Bit, int_enable_delay : 0 .. 2,
        r5_mask : Bit, r6_mask : Bit, r7_mask : Bit,
        pending_trap : Bit, pending_r5 : Bit, pending_r6 : Bit, r7_latch : Bit,
        pending_int : Bit, int_rst_number : 0 .. 7,
        sid_line : Bit, sod_line : Bit, hlt_enable : Bit]

\* What memory holds at an address: an image lists its instructions, and the
\* rest of the cleared 64K reads as 00, which is NOP.
Fetch(image, addr) == IF addr \in DOMAIN image THEN image[addr] ELSE Nop

----------------------------------------------------------------------------
(* State management: i8085_state.c *)

Reset8085(pc, sp) ==
  [pc |-> pc, sp |-> sp, stack |-> [s \in Slot |-> 0], a |-> {},
   int_enable |-> 0, int_enable_delay |-> 0,
   r5_mask |-> 0, r6_mask |-> 0, r7_mask |-> 0,
   pending_trap |-> 0, pending_r5 |-> 0, pending_r6 |-> 0, r7_latch |-> 0,
   pending_int |-> 0, int_rst_number |-> 0,
   sid_line |-> 0, sod_line |-> 0, hlt_enable |-> 0]

InterruptCode == 0 .. 7 \cup {45, 55, 65, 75}

\* RST 7.5 has a latch that only its acceptance or SIM clears; the other
\* lines follow the level.  An unknown code changes nothing.
triggerInterrupt(c, code, active) ==
  CASE code \in 0 .. 7 -> [c EXCEPT !.pending_int = active, !.int_rst_number = code]
    [] code = 45 -> [c EXCEPT !.pending_trap = active]
    [] code = 55 -> [c EXCEPT !.pending_r5 = active]
    [] code = 65 -> [c EXCEPT !.pending_r6 = active]
    [] code = 75 /\ active = 1 -> [c EXCEPT !.r7_latch = 1]
    [] OTHER -> c

----------------------------------------------------------------------------
(* Interrupt acceptance: checkInterrupts and rst of i8085_exec.c *)

Push(c, word) ==
  LET top == (c.sp + StackSize - 1) % StackSize
  IN  [c EXCEPT !.sp = top, !.stack[top] = word]

rst(c, vector) == [Push(c, c.pc) EXCEPT !.pc = vector]

\* Fault: the priorities of the maskable requests are reversed.
Winner_Reversed(c) ==
  IF c.pending_trap = 1 THEN "trap"
  ELSE IF c.int_enable = 0 THEN "none"
  ELSE IF c.pending_int = 1 THEN "int"
  ELSE IF c.pending_r5 = 1 /\ c.r5_mask = 0 THEN "r5"
  ELSE IF c.pending_r6 = 1 /\ c.r6_mask = 0 THEN "r6"
  ELSE IF c.r7_latch = 1 /\ c.r7_mask = 0 THEN "r7" ELSE "none"

\* The request that the next instruction boundary accepts, highest first.
Winner(c) ==
  IF c.pending_trap = 1 THEN "trap"
  ELSE IF c.int_enable = 0 THEN "none"
  ELSE IF c.r7_latch = 1 /\ c.r7_mask = 0 THEN "r7"
  ELSE IF c.pending_r6 = 1 /\ c.r6_mask = 0 THEN "r6"
  ELSE IF c.pending_r5 = 1 /\ c.r5_mask = 0 THEN "r5"
  ELSE IF c.pending_int = 1 THEN "int" ELSE "none"

Maskable == {"r7", "r6", "r5", "int"}

\* Fault: acceptance leaves the interrupt-enable flip-flop set.
checkInterrupts_KeepsEnabled(c) ==
  CASE Winner(c) = "trap" -> rst([c EXCEPT !.pending_trap = 0], 36)
    [] Winner(c) = "r7" -> rst([c EXCEPT !.r7_latch = 0], 60)
    [] Winner(c) = "r6" -> rst([c EXCEPT !.pending_r6 = 0], 52)
    [] Winner(c) = "r5" -> rst([c EXCEPT !.pending_r5 = 0], 44)
    [] Winner(c) = "int" -> rst([c EXCEPT !.pending_int = 0], 8 * c.int_rst_number)
    [] OTHER -> c

\* Fault: acceptance leaves the latch of RST 7.5 set.
checkInterrupts_KeepsLatch(c) ==
  LET off == [c EXCEPT !.int_enable = 0]
  IN  CASE Winner(c) = "trap" -> rst([off EXCEPT !.pending_trap = 0], 36)
        [] Winner(c) = "r7" -> rst(off, 60)
        [] Winner(c) = "r6" -> rst([off EXCEPT !.pending_r6 = 0], 52)
        [] Winner(c) = "r5" -> rst([off EXCEPT !.pending_r5 = 0], 44)
        [] Winner(c) = "int" -> rst([off EXCEPT !.pending_int = 0], 8 * c.int_rst_number)
        [] OTHER -> c

\* The record after the acceptance, if any: the request is taken back, maskable
\* interrupts are disabled and the handler's address replaces pc.
checkInterrupts(c) ==
  LET off == [c EXCEPT !.int_enable = 0]
  IN  CASE Winner(c) = "trap" -> rst([off EXCEPT !.pending_trap = 0], 36)
        [] Winner(c) = "r7" -> rst([off EXCEPT !.r7_latch = 0], 60)
        [] Winner(c) = "r6" -> rst([off EXCEPT !.pending_r6 = 0], 52)
        [] Winner(c) = "r5" -> rst([off EXCEPT !.pending_r5 = 0], 44)
        [] Winner(c) = "int" -> rst([off EXCEPT !.pending_int = 0], 8 * c.int_rst_number)
        [] OTHER -> c

----------------------------------------------------------------------------
(* Instructions: the switch of Emulate8085Op *)

Advance(c, length) == [c EXCEPT !.pc = (c.pc + length) % AddrSize]

\* Bits of the accumulator as RIM composes them.
RimBits(c) ==
  {bit \in 0 .. 7 : \/ bit = 7 /\ c.sid_line = 1
                    \/ bit = 6 /\ c.r7_latch = 1
                    \/ bit = 5 /\ c.pending_r6 = 1
                    \/ bit = 4 /\ c.pending_r5 = 1
                    \/ bit = 3 /\ c.int_enable = 1
                    \/ bit = 2 /\ c.r7_mask = 1
                    \/ bit = 1 /\ c.r6_mask = 1
                    \/ bit = 0 /\ c.r5_mask = 1}

BitOf(bits, n) == IF n \in bits THEN 1 ELSE 0

\* Fault: the mask-set bit resets the latch.
Sim_ResetsByMse(c) ==
  [c EXCEPT !.sod_line = IF 6 \in c.a THEN BitOf(c.a, 7) ELSE @,
            !.r7_latch = IF 3 \in c.a THEN 0 ELSE @,
            !.r7_mask = IF 3 \in c.a THEN BitOf(c.a, 2) ELSE @,
            !.r6_mask = IF 3 \in c.a THEN BitOf(c.a, 1) ELSE @,
            !.r5_mask = IF 3 \in c.a THEN BitOf(c.a, 0) ELSE @]

\* SIM: bit 6 enables the serial output bit 7, bit 4 resets the RST 7.5 latch,
\* bit 3 enables the three mask bits.
Sim(c) ==
  [c EXCEPT !.sod_line = IF 6 \in c.a THEN BitOf(c.a, 7) ELSE @,
            !.r7_latch = IF 4 \in c.a THEN 0 ELSE @,
            !.r7_mask = IF 3 \in c.a THEN BitOf(c.a, 2) ELSE @,
            !.r6_mask = IF 3 \in c.a THEN BitOf(c.a, 1) ELSE @,
            !.r5_mask = IF 3 \in c.a THEN BitOf(c.a, 0) ELSE @]

\* Fault: DI leaves an EI that has not taken effect yet counting down.
DisableInterrupts_KeepsDelay(c) == [c EXCEPT !.int_enable = 0]

DisableInterrupts(c) == [c EXCEPT !.int_enable = 0, !.int_enable_delay = 0]

\* Fault: EI takes effect at once instead of after the next instruction.
EnableInterrupts_AtOnce(c) == [c EXCEPT !.int_enable_delay = 1]

\* Fault: the delay counts two instructions after EI.
EnableInterrupts_TooLate(c) == [c EXCEPT !.int_enable_delay = 3]

EnableInterrupts(c) == [c EXCEPT !.int_enable_delay = 2]

\* The instruction i at c.pc; "taken" is the outcome of a condition.
Execute(c, i, taken) ==
  CASE i.op = "JMP" -> [c EXCEPT !.pc = i.arg]
    [] i.op = "JCC" -> IF taken THEN [c EXCEPT !.pc = i.arg] ELSE Advance(c, 3)
    [] i.op = "CALL" -> [Push(c, Advance(c, 3).pc) EXCEPT !.pc = i.arg]
    [] i.op = "RST" -> rst(Advance(c, 1), 8 * i.arg)
    [] i.op = "RET" -> [c EXCEPT !.pc = c.stack[c.sp], !.sp = (c.sp + 1) % StackSize]
    [] i.op = "MVI" -> [Advance(c, 2) EXCEPT !.a = i.arg]
    [] i.op \in {"IN", "OUT"} -> Advance(c, 2)
    [] i.op = "RIM" -> [Advance(c, 1) EXCEPT !.a = RimBits(c)]
    [] i.op = "SIM" -> Sim(Advance(c, 1))
    [] i.op = "DI" -> DisableInterrupts(Advance(c, 1))
    [] i.op = "EI" -> EnableInterrupts(Advance(c, 1))
    [] i.op = "HLT" -> [Advance(c, 1) EXCEPT !.hlt_enable = 1]
    [] OTHER -> Advance(c, 1)

\* Where control is after the instruction i at x, other than into or out of a subroutine.
Successors(i, x) ==
  CASE i.op = "JMP" -> {i.arg}
    [] i.op = "JCC" -> {i.arg, (x + 3) % AddrSize}
    [] i.op \in {"MVI", "IN", "OUT"} -> {(x + 2) % AddrSize}
    [] i.op \in {"CALL", "RST", "RET"} -> {}
    [] OTHER -> {(x + 1) % AddrSize}

\* T-states an instruction adds, as the code counts them.
States(i, taken) ==
  CASE i.op \in {"JMP", "RET", "MVI", "IN", "OUT"} -> 10
    [] i.op = "JCC" -> IF taken THEN 10 ELSE 7
    [] i.op = "CALL" -> 18
    [] i.op = "RST" -> 12
    [] i.op = "HLT" -> 5
    [] OTHER -> 4

\* Fault: the countdown runs past its end.
EndDelay_NoFloor(c) ==
  [c EXCEPT !.int_enable_delay = @ - 1,
            !.int_enable = IF c.int_enable_delay = 1 THEN 1 ELSE @]

\* The epilogue of every instruction: an EI takes effect when its delay ends.
EndDelay(c) ==
  [c EXCEPT !.int_enable_delay = IF @ > 0 THEN @ - 1 ELSE 0,
            !.int_enable = IF c.int_enable_delay = 1 THEN 1 ELSE @]

----------------------------------------------------------------------------
(* One call of Emulate8085Op: accept an interrupt, and unless the processor *)
(* stays halted execute the instruction that is then at pc.                 *)

StaysHalted(c) == c.hlt_enable = 1 /\ Winner(c) = "none"

\* What the call executes after the acceptance, and in which state.
Entered(c) == [checkInterrupts(c) EXCEPT !.hlt_enable = 0]
Current(image, c) == Fetch(image, Entered(c).pc)

Emulate8085Op(image, c, taken) ==
  IF StaysHalted(c) THEN c
  ELSE EndDelay(Execute(Entered(c), Current(image, c), taken))

TStates(image, c, taken) ==
  IF StaysHalted(c) THEN 0 ELSE States(Current(image, c), taken)
============================================================================
