--------------------------- MODULE InterruptCore ---------------------------
(***************************************************************************)
(* The processor between its two callers: Emulate8085Op executes one       *)
(* instruction of a program, and between two instructions anything may     *)
(* call triggerInterrupt (the schedule of --irq, a --timer, a pin of the   *)
(* netlist).  The program, the lines that are wired and the moments they   *)
(* change are arbitrary, so an invariant of this specification holds under *)
(* the run loop, under the debugger and on every board.                    *)
(***************************************************************************)
EXTENDS I8085Core

CONSTANTS Boards,             \* [image, codes]: a program and the codes that may be triggered
          DisciplinedBoards,  \* boards whose programs keep to Disciplined
          EntryPc, EntrySp    \* the registers Reset8085 is called with

ASSUME BoardsAssumption ==
  /\ \A b \in Boards : /\ \A x \in DOMAIN b.image : b.image[x] \in Instruction
                       /\ b.codes \subseteq InterruptCode
  /\ DisciplinedBoards \subseteq Boards
  /\ EntryPc \in Addr /\ EntrySp \in Slot

\* A program in the style of the examples with interrupts.  Its main part has no
\* subroutines and executes EI only while interrupts are off; in a handler EI is
\* followed by RET, and TRAP is not wired.  The board lists the addresses of both
\* parts, and those of the main part that may be reached with interrupts on.
Disciplined(b) ==
  LET At(x) == Fetch(b.image, x)
      After(x) == Successors(At(x), x)
      Vector == [code \in InterruptCode |-> CASE code = 45 -> 36 [] code = 55 -> 44 [] code = 65 -> 52
                                            [] code = 75 -> 60 [] OTHER -> 8 * code]
  IN  /\ 45 \notin b.codes /\ \A code \in b.codes : Vector[code] \in b.handlers
      /\ b.open \subseteq b.main /\ EntryPc \in b.main
      /\ \A x \in b.main :
           /\ At(x).op \notin {"CALL", "RST", "RET"} /\ After(x) \subseteq b.main
           /\ At(x).op = "EI" => x \notin b.open /\ After(x) \subseteq b.open
           /\ x \in b.open /\ At(x).op # "DI" => After(x) \subseteq b.open
      /\ \A x \in b.handlers :
           /\ At(x).op \notin {"CALL", "RST"} /\ After(x) \subseteq b.handlers
           /\ At(x).op = "EI" => \A y \in After(x) : At(y).op = "RET"

ASSUME DisciplineAssumption == \A b \in DisciplinedBoards : Disciplined(b)

VARIABLES
  board,     \* the board of this behaviour, chosen once
  cpu,       \* State8085
  lastFlip,  \* history: the last of EI and DI that was executed
  shadow     \* history: the last instruction was an EI executed with interrupts disabled

vars == <<board, cpu, lastFlip, shadow>>

TypeOK ==
  /\ board \in Boards
  /\ cpu \in Cpu
  /\ lastFlip \in {"none", "EI", "DI"}
  /\ shadow \in BOOLEAN

Init ==
  /\ board \in Boards
  /\ cpu = Reset8085(EntryPc, EntrySp)
  /\ lastFlip = "none"
  /\ shadow = FALSE

\* A line changes between two instructions.  The 8080-style codes are only ever
\* raised; the others may be lowered again by the netlist.
Trigger(code, active) ==
  /\ code \in 0 .. 7 => active = 1
  /\ cpu' = triggerInterrupt(cpu, code, active)
  /\ UNCHANGED <<board, lastFlip, shadow>>

\* Emulate8085Op returns at once while the processor stays halted.
Halted ==
  /\ StaysHalted(cpu)
  /\ cpu' = Emulate8085Op(board.image, cpu, FALSE)
  /\ UNCHANGED <<board, lastFlip, shadow>>

Instruct(taken) ==
  LET op == Current(board.image, cpu).op
  IN  /\ ~StaysHalted(cpu)
      /\ cpu' = Emulate8085Op(board.image, cpu, taken)
      /\ lastFlip' = IF op \in {"EI", "DI"} THEN op ELSE lastFlip
      /\ shadow' = (op = "EI" /\ Entered(cpu).int_enable = 0)
      /\ UNCHANGED board

Step == Halted \/ \E taken \in BOOLEAN : Instruct(taken)

Next == Step \/ \E code \in board.codes, active \in Bit : Trigger(code, active)

\* Both callers of Emulate8085Op call it in a loop with nothing to wait for.
Spec == Init /\ [][Next]_vars /\ WF_vars(Step)

----------------------------------------------------------------------------
(* Properties *)

\* A critical section that DI opens stays closed to maskable interrupts until an
\* EI is executed, whatever EI was still counting down when DI came, and so
\* does the program before its first EI (DI: i8085_exec.c 1593, 181).
CriticalSection == lastFlip # "EI" => Winner(cpu) \notin Maskable

\* An EI that turns interrupts on lets one more instruction execute before a
\* maskable interrupt is accepted: the RET of a handler's EI; RET (1664, 1711).
EIShadow == shadow => Winner(cpu) \notin Maskable

\* A halted processor is not in the middle of an EI: the early return of a
\* halted call skips the countdown, so it would never be enabled (183, 1711).
HaltedNotArmed == cpu.hlt_enable = 1 => cpu.int_enable_delay = 0

\* Executing takes back a request only by accepting that one, or by a SIM that
\* resets the RST 7.5 latch: no other instruction or acceptance loses a request.
RequestsSurvive ==
  [][Step =>
       /\ cpu.pending_trap = 1 /\ cpu'.pending_trap = 0 => Winner(cpu) = "trap"
       /\ cpu.r7_latch = 1 /\ cpu'.r7_latch = 0 =>
            Winner(cpu) = "r7" \/ (Current(board.image, cpu).op = "SIM" /\ 4 \in cpu.a)
       /\ cpu.pending_r6 = 1 /\ cpu'.pending_r6 = 0 => Winner(cpu) = "r6"
       /\ cpu.pending_r5 = 1 /\ cpu'.pending_r5 = 0 => Winner(cpu) = "r5"
       /\ cpu.pending_int = 1 /\ cpu'.pending_int = 0 => Winner(cpu) = "int"]_vars

\* On a disciplined board a handler is never entered before the last one returned:
\* the stack holds at most one return address.
NestingBounded ==
  board \in DisciplinedBoards => (EntrySp + StackSize - cpu.sp) % StackSize <= 1

\* On such a board every RST 7.5 request is accepted in the end, also one that
\* arrives in a handler, in a critical section or while the processor is halted.
Rst75Served == board \in DisciplinedBoards /\ cpu.r7_latch = 1 ~> cpu.r7_latch = 0
============================================================================
