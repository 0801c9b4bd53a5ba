----------------------------- MODULE WiredBoard -----------------------------
(***************************************************************************)
(* The processor and the serial chip on one board, as the run loop drives  *)
(* them: a step of the chip, the netlist when there is one, and one        *)
(* instruction with its IN or OUT.                                         *)
(*                                                                         *)
(* The chip's interrupt reaches the processor in one of two ways.  Without *)
(* a netlist the chip sets the RST 7.5 latch itself; with one, the netlist *)
(* of test/wiring_irq.sh carries /IRQ through a pull-up and an inverter to *)
(* the RST 7.5 pin.  The two boards run the same program on the same input *)
(* side by side.  The netlist settles between two instructions, as         *)
(* LogicNet shows, so its levels are those Evaluated gives.                *)
(*                                                                         *)
(* Programs do not halt: the run loop's reasons to stop are in RunLoop.    *)
(***************************************************************************)
EXTENDS I8085Core, Mc6850
LOCAL INSTANCE SequencesExt

Net == INSTANCE NetEquations

CONSTANTS
  Programs,          \* the programs to explore
  ReadFirst,         \* those whose handler reads the data port before anything else, with
                     \* their parts: [image, setup, main, handlers]
  CtrlPort, DataPort,
  EntryPc, EntrySp,
  Script,            \* rx=
  Live               \* bytes that come in on the chip's channel, in this order

ASSUME BoardAssumption ==
  /\ \A image \in Programs : \A x \in DOMAIN image : image[x] \in Instruction
  /\ CtrlPort \in 0 .. 255 /\ DataPort \in 0 .. 255 /\ CtrlPort # DataPort
  /\ EntryPc \in Addr /\ EntrySp \in Slot
  /\ Script \in Seq(Byte) /\ Live \in Seq(Byte)

\* A program whose RST 7.5 handler starts with the read of the data port.  Its
\* setup ends where it loads the control byte that enables the chip's interrupt;
\* from there on it does no master reset, and only the handler reads the chip.
ReadsFirst(p) ==
  LET At(x) == Fetch(p.image, x)
      After(x) == Successors(At(x), x)
      Resets(x) == At(x).op = "MVI" /\ {0, 1} \subseteq At(x).arg
      Enables(x) == At(x).op = "MVI" /\ 7 \in At(x).arg
  IN  /\ At(60) = [op |-> "IN", arg |-> DataPort] /\ After(60) \subseteq p.handlers
      /\ EntryPc \in p.setup
      /\ \A x \in p.setup :
           /\ At(x).op \notin {"CALL", "RST", "RET", "RIM"}
           /\ IF Enables(x) THEN ~Resets(x) /\ After(x) \subseteq p.main
                            ELSE After(x) \subseteq p.setup
      /\ \A x \in p.main \cup p.handlers :
           /\ At(x).op \notin {"CALL", "RST", "RIM"} /\ ~Resets(x)
           /\ At(x).op = "IN" => At(x).arg \notin {CtrlPort, DataPort}
      /\ \A x \in p.main : At(x).op # "RET" /\ After(x) \subseteq p.main
      /\ \A x \in p.handlers : After(x) \subseteq p.handlers

ASSUME ReadFirstAssumption ==
  \A p \in ReadFirst : p.image \in Programs /\ ReadsFirst(p)

VARIABLES
  image,       \* the program of this behaviour
  direct,      \* the board without a netlist: [cpu, acia]
  wired,       \* the board with one
  arrivals,    \* how many of Live have come in
  empty        \* history: RST 7.5 was accepted there with nothing to read

vars == <<image, direct, wired, arrivals, empty>>

Init ==
  /\ image \in Programs
  /\ direct = [cpu |-> Reset8085(EntryPc, EntrySp), acia |-> on_reset(Created(Script))]
  /\ wired = direct
  /\ arrivals = 0
  /\ empty = FALSE

----------------------------------------------------------------------------
(* From the chip to the processor *)

\* The netlist of test/wiring_irq.sh.
IrqNet ==
  [pull |-> [IRQ_L |-> "up", RST_IN |-> "none"],
   wire |-> [IRQ |-> "IRQ_L", RST75 |-> "RST_IN"],
   gates |-> <<[type |-> "inv", ins |-> <<"IRQ_L">>, out |-> "RST_IN"]>>]

\* Fault: /IRQ follows the receive register alone.
IrqDrive_Ungated(acia) == IF acia.rdrFull THEN "0" ELSE "Z"

\* The pin /IRQ in the chip's snapshot: open drain, active low.
IrqDrive(acia) == IF irqAsserted(acia) THEN "0" ELSE "Z"

PinLevel(acia) ==
  Net!Evaluated(IrqNet, [IRQ |-> IrqDrive(acia), RST75 |-> "Z"])["RST_IN"]

\* Fault: the chip interrupts when a byte comes in, not as long as one is there.
Poke_OnArrival(before, acia, cpu) ==
  IF irqAsserted(acia) /\ ~before.rdrFull THEN triggerInterrupt(cpu, 75, 1) ELSE cpu

\* Without a netlist on_step sets the latch itself.
Poke(before, acia, cpu) == IF irqAsserted(acia) THEN triggerInterrupt(cpu, 75, 1) ELSE cpu

\* With one, the resolved level is delivered to the pin.
Wire(acia, cpu) == triggerInterrupt(cpu, 75, IF PinLevel(acia) = "1" THEN 1 ELSE 0)

----------------------------------------------------------------------------
(* One iteration of the run loop *)

\* The instruction of this iteration, and what its IN or OUT does to both.
Access(cpu, i, acia, after) ==
  CASE i.op = "IN" /\ i.arg = CtrlPort -> [cpu |-> [after EXCEPT !.a = Status(acia)], acia |-> acia]
    [] i.op = "IN" /\ i.arg = DataPort -> [cpu |-> [after EXCEPT !.a = {}], acia |-> on_io_post_read(acia)]
    [] i.op = "OUT" /\ i.arg = CtrlPort -> [cpu |-> after, acia |-> WriteControl(acia, cpu.a)]
    [] OTHER -> [cpu |-> after, acia |-> acia]

\* The board after the instruction, from the processor and the chip before it.
Instructed(cpu, acia, taken) ==
  IF StaysHalted(cpu) THEN [cpu |-> cpu, acia |-> acia]
  ELSE Access(cpu, Current(image, cpu), acia, Emulate8085Op(image, cpu, taken))

Iterate(arrived, taken) ==
  \E a \in {on_step(direct.acia, arrived)}, b \in {on_step(wired.acia, arrived)} :
  \E c \in {Wire(b, wired.cpu)} :
    /\ direct' = Instructed(Poke(direct.acia, a, direct.cpu), a, taken)
    /\ wired' = Instructed(c, b, taken)
    /\ empty' = (empty \/ (Winner(c) = "r7" /\ ~b.rdrFull))
    /\ arrivals' = arrivals + Len(arrived)
    /\ UNCHANGED image

Next ==
  \E n \in 0 .. 1, taken \in BOOLEAN :
    n <= Len(Live) - arrivals /\ Iterate(SubSeq(Live, arrivals + 1, arrivals + n), taken)

\* The run loop iterates for ever.
Spec == Init /\ [][Next]_vars /\ WF_vars(Next)

----------------------------------------------------------------------------
(* Properties *)

\* A board with the netlist does what the board without it does, step by step: the
\* latch, the handler and every byte are the same (mc6850.cpp 182-189, logic_net.cpp,
\* io_runtime.cpp 388-390).
WiringEquivalent == direct = wired

\* A handler that starts with the read of the data port always finds a byte: the level
\* of /IRQ does not interrupt twice for the same byte (mc6850.cpp 200-209).
HandlerFindsByte == (\E p \in ReadFirst : p.image = image) => ~empty

\* A byte that waits in the register is read in the end, on both boards, also when
\* it came in before the program enabled interrupts (mc6850.cpp 182-184).
ByteIsServed ==
  /\ direct.acia.rdrFull ~> ~direct.acia.rdrFull
  /\ wired.acia.rdrFull ~> ~wired.acia.rdrFull
=============================================================================
