-------------------------- MODULE WiredBoard_proofs --------------------------
(***************************************************************************)
(* Proofs about WiredBoard: the netlist of test/wiring_irq.sh stands for   *)
(* the chip's own call, and a handler that reads first always finds a      *)
(* byte, whatever the program, the script and the bytes that come in.      *)
(***************************************************************************)
EXTENDS WiredBoard, TLAPS

\* The pull-up and the inverter carry the request to the pin: the level the
\* netlist resolves there is 1 exactly while the chip asserts /IRQ.
LEMMA PinFollowsRequest ==
  ASSUME NEW acia
  PROVE  PinLevel(acia) = IF irqAsserted(acia) THEN "1" ELSE "0"
<1> DEFINE drive == [IRQ |-> IrqDrive(acia), RST75 |-> "Z"]
           pin == IrqDrive(acia)
           low == IF irqAsserted(acia) THEN "0" ELSE "1"
           high == IF irqAsserted(acia) THEN "1" ELSE "0"
           out(f) == [g \in Net!Gates(IrqNet) |-> Net!evalGate(IrqNet.gates[g], f)]
           Value(f) == f = [node \in Net!Nodes(IrqNet) |-> Net!Resolve(IrqNet, drive, out(f), node)]
           value == CHOOSE f : Value(f)
           levels == [node \in {"IRQ_L", "RST_IN"} |-> IF node = "IRQ_L" THEN low ELSE high]
<1>1. /\ Net!Nodes(IrqNet) = {"IRQ_L", "RST_IN"}
      /\ Net!Gates(IrqNet) = {1}
      /\ Net!Endpoints(IrqNet) = {"IRQ", "RST75"}
  BY DEF IrqNet, Net!Nodes, Net!Gates, Net!Endpoints
<1>2. ASSUME NEW f PROVE out(f)[1] = Net!Not(f["IRQ_L"])
  <2>1. IrqNet.gates[1] = [type |-> "inv", ins |-> <<"IRQ_L">>, out |-> "RST_IN"]
    BY DEF IrqNet
  <2>2. Net!evalGate(IrqNet.gates[1], f) = Net!Not(f["IRQ_L"])
    BY <2>1 DEF Net!evalGate
  <2>3. QED
    BY <1>1, <2>2
<1>3. ASSUME NEW o PROVE /\ Net!PinsAt(IrqNet, drive, "IRQ_L") = {pin}
                         /\ Net!PinsAt(IrqNet, drive, "RST_IN") = {"Z"}
                         /\ Net!GatesAt(IrqNet, o, "IRQ_L") = {}
                         /\ Net!GatesAt(IrqNet, o, "RST_IN") = {o[1]}
  <2>1. /\ {x \in {"IRQ", "RST75"} : IrqNet.wire[x] = "IRQ_L"} = {"IRQ"}
        /\ {x \in {"IRQ", "RST75"} : IrqNet.wire[x] = "RST_IN"} = {"RST75"}
        /\ {x \in {1} : IrqNet.gates[x].out = "IRQ_L"} = {}
        /\ {x \in {1} : IrqNet.gates[x].out = "RST_IN"} = {1}
    BY DEF IrqNet
  <2>2. drive["IRQ"] = pin /\ drive["RST75"] = "Z"
    OBVIOUS
  <2> HIDE DEF drive, pin
  <2>3. QED
    BY <1>1, <2>1, <2>2 DEF Net!PinsAt, Net!GatesAt
<1>4. ASSUME NEW o PROVE Net!Resolve(IrqNet, drive, o, "IRQ_L") = low
  <2>1. IrqNet.pull["IRQ_L"] = "up"
    BY DEF IrqNet
  <2>2. pin = IF irqAsserted(acia) THEN "0" ELSE "Z"
    BY DEF IrqDrive
  <2> HIDE DEF drive, pin
  <2>3. QED
    BY <1>3, <2>1, <2>2 DEF Net!Resolve, Net!Conflict
<1>5. ASSUME NEW o, o[1] = high
      PROVE  Net!Resolve(IrqNet, drive, o, "RST_IN") = high
  <2> HIDE DEF drive
  <2>1. QED
    BY <1>3, <1>5 DEF Net!Resolve, Net!Conflict
<1>6. Net!Not(low) = high
  BY DEF Net!Not
<1>7. \A f : f["IRQ_L"] = low => out(f)[1] = high
  BY <1>2, <1>6
<1>8. Value(levels)
  <2>1. levels["IRQ_L"] = low /\ levels["RST_IN"] = high
    OBVIOUS
  <2>2. /\ Net!Resolve(IrqNet, drive, out(levels), "IRQ_L") = low
        /\ Net!Resolve(IrqNet, drive, out(levels), "RST_IN") = high
    <3> HIDE DEF levels, low, high, out, drive
    <3>1. out(levels)[1] = high
      BY <1>7, <2>1
    <3>2. QED
      BY <3>1, <1>4, <1>5
  <2> HIDE DEF low, high, out, drive
  <2>3. QED
    BY <1>1, <2>2
<1>9. ASSUME NEW f, Value(f) PROVE f["RST_IN"] = high
  <2>1. /\ f["IRQ_L"] = Net!Resolve(IrqNet, drive, out(f), "IRQ_L")
        /\ f["RST_IN"] = Net!Resolve(IrqNet, drive, out(f), "RST_IN")
    <3> HIDE DEF low, high, out, drive
    <3> QED BY <1>1, <1>9
  <2> HIDE DEF Value, low, high, out, drive
  <2>2. f["IRQ_L"] = low
    BY <1>4, <2>1
  <2>3. out(f)[1] = high
    BY <1>7, <2>2
  <2>4. QED
    BY <1>5, <2>1, <2>3
<1>10. PinLevel(acia) = [node \in Net!Nodes(IrqNet) |-> value[node]]["RST_IN"]
  BY DEF PinLevel, Net!Evaluated
<1> HIDE DEF Value, levels
<1>11. Value(value)
  BY <1>8
<1> HIDE DEF value
<1>12. value["RST_IN"] = high
  BY <1>9, <1>11
<1>13. QED
  BY <1>1, <1>10, <1>12

\* So the delivery of that level does to the processor what the chip's own
\* call does, and a level of 0 does not disturb the latch.
LEMMA WireIsPoke ==
  ASSUME NEW before, NEW acia, NEW cpu
  PROVE  Wire(acia, cpu) = Poke(before, acia, cpu)
BY PinFollowsRequest DEF Wire, Poke, triggerInterrupt

\* A board with the netlist does what the board without it does (WiringEquivalent).
THEOREM WiringEquivalentHolds == Spec => []WiringEquivalent
<1>1. Init => WiringEquivalent
  BY DEF Init, WiringEquivalent
<1>2. WiringEquivalent /\ [Next]_vars => WiringEquivalent'
  <2> SUFFICES ASSUME WiringEquivalent, [Next]_vars PROVE WiringEquivalent'
    OBVIOUS
  <2>1. CASE UNCHANGED vars
    BY <2>1 DEF vars, WiringEquivalent
  <2>2. ASSUME NEW arrived, NEW taken, Iterate(arrived, taken) PROVE WiringEquivalent'
    <3>1. PICK a \in {on_step(direct.acia, arrived)}, b \in {on_step(wired.acia, arrived)} :
            \E c \in {Wire(b, wired.cpu)} :
              /\ direct' = Instructed(Poke(direct.acia, a, direct.cpu), a, taken)
              /\ wired' = Instructed(c, b, taken)
      BY <2>2 DEF Iterate
    <3>2. a = b /\ direct.cpu = wired.cpu
      BY <3>1 DEF WiringEquivalent
    <3>3. QED
      BY <3>1, <3>2, WireIsPoke DEF WiringEquivalent
  <2>3. QED
    BY <2>1, <2>2 DEF Next
<1>3. QED
  BY <1>1, <1>2, PTL DEF Spec


----------------------------------------------------------------------------
(***************************************************************************)
(* A handler that reads first always finds a byte.  The latch of RST 7.5   *)
(* is set only while the receive register is full, and the register is     *)
(* emptied only where the latch has just been cleared: by the read at the  *)
(* handler's first address, in the call that accepts the interrupt, and in *)
(* the setup, before the chip's interrupt is enabled.  What remains is     *)
(* that control never gets to either place by another way, which depends   *)
(* on the return addresses: handlers may nest, and the stack may be full.  *)
(***************************************************************************)

Fields == {"pc", "sp", "stack", "a", "pending_trap", "pending_r6", "pending_r5", "pending_int",
           "r7_latch"}

Shape(c) == Fields \subseteq DOMAIN c /\ DOMAIN c.stack = Slot /\ c.sp \in Slot

\* Nothing but RST 7.5 is requested on this board.
Quiet(c) ==
  /\ c.pending_trap = 0 /\ c.pending_r6 = 0 /\ c.pending_r5 = 0 /\ c.pending_int = 0

\* d has no request that c has not, and the same stack.
Calmer(c, d) ==
  /\ Shape(d) /\ Quiet(d)
  /\ d.r7_latch = 1 => c.r7_latch = 1
  /\ d.stack = c.stack

\* The slot of the k-th return address.
Pushed(k) == IF k <= EntrySp THEN EntrySp - k ELSE EntrySp + StackSize - k

\* d handlers are open: the first interrupted the main part, each other one a handler.
Nested(p, c, d) ==
  /\ c.sp = Pushed(d)
  /\ c.pc \in IF d = 0 THEN p.main ELSE p.handlers
  /\ \A k \in 1 .. d : c.stack[Pushed(k)] \in IF k = 1 THEN p.main ELSE p.handlers

\* So many were that every word of the stack is a return address.
Filled(p, c) ==
  /\ c.pc \in p.main \cup p.handlers
  /\ \A s \in Slot : c.stack[s] \in p.main \cup p.handlers

\* A RET of a handler leads back to where a handler was entered.
Returns(p, c) == Filled(p, c) \/ \E d \in 0 .. StackSize - 1 : Nested(p, c, d)

Setup(p, c, x) ==
  /\ c.pc \in p.setup /\ c.sp = EntrySp /\ c.r7_latch # 1
  /\ ~x.rxIntEnabled /\ 7 \notin c.a

Running(p, c) ==
  Returns(p, c) /\ ~({0, 1} \subseteq c.a)

Chip(x) == {"rdrFull", "rxIntEnabled"} \subseteq DOMAIN x

Sound(p, c, x) ==
  /\ Shape(c) /\ Quiet(c) /\ Chip(x)
  /\ c.r7_latch = 1 => x.rdrFull
  /\ Setup(p, c, x) \/ Running(p, c)

FindInv ==
  \A p \in ReadFirst : p.image = image => ~empty /\ Sound(p, wired.cpu, wired.acia)

\* Where an instruction other than a call or RIM leads, and what it leaves.
LEMMA ExecuteFlow ==
  ASSUME NEW c, Shape(c), Quiet(c), NEW i \in Instruction, NEW taken \in BOOLEAN,
         i.op \notin {"CALL", "RST", "RIM"}
  PROVE  LET d == Execute(c, i, taken)
         IN  /\ Calmer(c, d)
             /\ d.a = IF i.op = "MVI" THEN i.arg ELSE c.a
             /\ i.op # "RET" => d.sp = c.sp /\ d.pc \in Successors(i, c.pc)
             /\ i.op = "RET" => d.sp = (c.sp + 1) % StackSize /\ d.pc = c.stack[c.sp]
<1> DEFINE d == Execute(c, i, taken)
           Same(x, y) == Calmer(x, y) /\ y.sp = x.sp /\ y.a = x.a
<1>1. ASSUME NEW n \in 1 .. 3
      PROVE  Same(c, Advance(c, n)) /\ Advance(c, n).pc = (c.pc + n) % AddrSize
  BY DEF Advance, Shape, Fields, Quiet, Calmer
<1>2. CASE i.op = "RET"
  <2>1. (c.sp + 1) % StackSize \in Slot
    BY StackSizeAssumption, SMT DEF Slot, Shape
  <2>2. d = [c EXCEPT !.pc = c.stack[c.sp], !.sp = (c.sp + 1) % StackSize]
    BY <1>2 DEF Execute
  <2> DEFINE x == [c EXCEPT !.pc = c.stack[c.sp]]
             top == (c.sp + 1) % StackSize
  <2>3. Same(c, x) /\ x.pc = c.stack[c.sp]
    BY DEF Shape, Fields, Quiet, Calmer
  <2>4. d = [x EXCEPT !.sp = top]
    BY <2>2
  <2> HIDE DEF x, top, d
  <2>5. Calmer(x, d) /\ d.a = x.a /\ d.pc = x.pc /\ d.sp = top
    BY <2>1, <2>3, <2>4 DEF Shape, Fields, Quiet, Calmer, top
  <2>6. QED
    BY <1>2, <2>3, <2>5 DEF Calmer, top, d
<1>3. CASE i.op \in {"JMP", "JCC"}
  <2> DEFINE x == [c EXCEPT !.pc = i.arg]
             three == Advance(c, 3)
  <2>1. Same(c, x) /\ x.pc = i.arg
    BY DEF Shape, Fields, Quiet, Calmer
  <2>2. Same(c, three) /\ three.pc = (c.pc + 3) % AddrSize
    BY <1>1
  <2>3. /\ d = x \/ (i.op = "JCC" /\ d = three)
        /\ i.arg \in Successors(i, c.pc)
        /\ i.op = "JCC" => (c.pc + 3) % AddrSize \in Successors(i, c.pc)
    BY <1>3 DEF Execute, Successors
  <2> HIDE DEF x, three, d
  <2>4. Same(c, d) /\ d.pc \in Successors(i, c.pc)
    BY <2>1, <2>2, <2>3
  <2>5. QED
    BY <1>3, <2>4 DEF d
<1>4. CASE i.op \in {"MVI", "IN", "OUT"}
  <2> DEFINE two == Advance(c, 2)
             x == [two EXCEPT !.a = i.arg]
  <2>1. Same(c, two) /\ two.pc = (c.pc + 2) % AddrSize
    BY <1>1
  <2>2. /\ i.op = "MVI" => d = x
        /\ i.op # "MVI" => d = two
    <3>1. CASE i.op = "MVI"
      BY <3>1 DEF Execute
    <3>2. CASE i.op \in {"IN", "OUT"}
      BY <3>2 DEF Execute
    <3>3. QED
      BY <1>4, <3>1, <3>2
  <2>3. (c.pc + 2) % AddrSize \in Successors(i, c.pc)
    BY <1>4 DEF Successors
  <2> HIDE DEF two, d
  <2>4. Calmer(two, x) /\ x.sp = two.sp /\ x.pc = two.pc /\ x.a = i.arg
    BY <2>1 DEF Shape, Fields, Quiet, Calmer
  <2> HIDE DEF x
  <2>5. Calmer(c, d) /\ d.sp = c.sp /\ d.pc = (c.pc + 2) % AddrSize
    BY <2>1, <2>2, <2>4 DEF Calmer
  <2>6. d.a = IF i.op = "MVI" THEN i.arg ELSE c.a
    BY <2>1, <2>2, <2>4
  <2>7. QED
    BY <1>4, <2>3, <2>5, <2>6 DEF d
<1>5. CASE i.op \in {"NOP", "HLT", "SIM", "DI", "EI"}
  <2> DEFINE one == Advance(c, 1)
  <2>1. Same(c, one) /\ one.pc = (c.pc + 1) % AddrSize
    BY <1>1
  <2>2. (c.pc + 1) % AddrSize \in Successors(i, c.pc)
    BY <1>5 DEF Successors
  <2>3. \/ d = one \/ d = [one EXCEPT !.hlt_enable = 1]
        \/ d = Sim(one) \/ d = DisableInterrupts(one) \/ d = EnableInterrupts(one)
    <3>1. CASE i.op = "NOP"
      BY <3>1 DEF Execute
    <3>2. CASE i.op = "HLT"
      BY <3>2 DEF Execute
    <3>3. CASE i.op = "SIM"
      BY <3>3 DEF Execute
    <3>4. CASE i.op = "DI"
      BY <3>4 DEF Execute
    <3>5. CASE i.op = "EI"
      BY <3>5 DEF Execute
    <3> HIDE DEF one, d
    <3>6. QED
      BY <1>5, <3>1, <3>2, <3>3, <3>4, <3>5
  <2> HIDE DEF one, d
  <2>4. Same(one, d) /\ d.pc = one.pc
    <3>1. CASE d = one \/ d = [one EXCEPT !.hlt_enable = 1]
      BY <2>1, <3>1 DEF Shape, Fields, Quiet, Calmer
    <3>2. CASE d = Sim(one)
      BY <2>1, <3>2 DEF Shape, Fields, Quiet, Calmer, Sim
    <3>3. CASE d = DisableInterrupts(one) \/ d = EnableInterrupts(one)
      BY <2>1, <3>3 DEF Shape, Fields, Quiet, Calmer, DisableInterrupts, EnableInterrupts
    <3>4. QED
      BY <2>3, <3>1, <3>2, <3>3
  <2>5. QED
    BY <1>5, <2>1, <2>2, <2>4 DEF Calmer, d
<1>6. i.op \in {"NOP", "EI", "DI", "HLT", "RIM", "SIM", "RET", "JMP", "JCC", "CALL", "RST",
                "MVI", "IN", "OUT"}
  BY DEF Instruction
<1>7. QED
  BY <1>2, <1>3, <1>4, <1>5, <1>6

\* The countdown of an EI leaves all that alone.
LEMMA EndFlow ==
  ASSUME NEW c, Shape(c), Quiet(c)
  PROVE  LET d == EndDelay(c)
         IN  Calmer(c, d) /\ d.a = c.a /\ d.sp = c.sp /\ d.pc = c.pc
BY DEF EndDelay, Shape, Fields, Quiet, Calmer


----------------------------------------------------------------------------
(* The stack *)

\* Pushes go down from the entry and around; StackSize of them reach every slot.
LEMMA PushedSlots ==
  /\ \A k \in 0 .. StackSize : Pushed(k) \in Slot
  /\ \A k \in 0 .. StackSize - 1 : (Pushed(k) + StackSize - 1) % StackSize = Pushed(k + 1)
  /\ \A k \in 1 .. StackSize : (Pushed(k) + 1) % StackSize = Pushed(k - 1)
  /\ \A j, k \in 1 .. StackSize : Pushed(j) = Pushed(k) => j = k
  /\ \A s \in Slot : \E k \in 1 .. StackSize : s = Pushed(k)
<1> USE DEF Slot
<1>1. StackSize \in Nat /\ StackSize > 0 /\ EntrySp \in 0 .. StackSize - 1
  BY StackSizeAssumption, BoardAssumption
<1>2. \A k \in 0 .. StackSize : Pushed(k) \in 0 .. StackSize - 1
  BY <1>1 DEF Pushed
<1>3. \A x \in 0 .. StackSize - 1 :
        (x + StackSize - 1) % StackSize = IF x = 0 THEN StackSize - 1 ELSE x - 1
  BY <1>1, SMT
<1>4. \A x \in 0 .. StackSize - 1 :
        (x + 1) % StackSize = IF x = StackSize - 1 THEN 0 ELSE x + 1
  BY <1>1, SMT
<1>5. \A k \in 0 .. StackSize - 1 :
        Pushed(k + 1) = IF Pushed(k) = 0 THEN StackSize - 1 ELSE Pushed(k) - 1
  BY <1>1 DEF Pushed
<1>6. \A k \in 1 .. StackSize :
        Pushed(k - 1) = IF Pushed(k) = StackSize - 1 THEN 0 ELSE Pushed(k) + 1
  BY <1>1 DEF Pushed
<1>7. \A j, k \in 1 .. StackSize : Pushed(j) = Pushed(k) => j = k
  BY <1>1 DEF Pushed
<1>8. ASSUME NEW s \in Slot PROVE \E k \in 1 .. StackSize : s = Pushed(k)
  <2>1. CASE s < EntrySp
    <3>1. EntrySp - s \in 1 .. StackSize /\ s = Pushed(EntrySp - s)
      BY <1>1, <2>1 DEF Pushed
    <3>2. QED
      BY <3>1
  <2>2. CASE s >= EntrySp
    <3>1. EntrySp + StackSize - s \in 1 .. StackSize /\ s = Pushed(EntrySp + StackSize - s)
      BY <1>1, <2>2 DEF Pushed
    <3>2. QED
      BY <3>1
  <2>3. QED
    BY <1>1, <2>1, <2>2
<1>9. \A k \in 0 .. StackSize - 1 : (Pushed(k) + StackSize - 1) % StackSize = Pushed(k + 1)
  <2>1. \A k \in 0 .. StackSize - 1 : k \in 0 .. StackSize
    BY <1>1
  <2> HIDE DEF Pushed
  <2>2. QED
    BY <1>2, <1>3, <1>5, <2>1
<1>10. \A k \in 1 .. StackSize : (Pushed(k) + 1) % StackSize = Pushed(k - 1)
  <2>1. \A k \in 1 .. StackSize : k \in 0 .. StackSize
    BY <1>1
  <2> HIDE DEF Pushed
  <2>2. QED
    BY <1>2, <1>4, <1>6, <2>1
<1>11. QED
  BY <1>2, <1>7, <1>8, <1>9, <1>10

\* Acceptance pushes an address of the main part or of a handler.
LEMMA CallReturns ==
  ASSUME NEW p, NEW c, NEW d, Shape(c), Returns(p, c),
         d.sp = (c.sp + StackSize - 1) % StackSize, d.pc \in p.handlers,
         d.stack = [c.stack EXCEPT ![d.sp] = c.pc]
  PROVE  Returns(p, d) /\ DOMAIN d.stack = Slot /\ d.sp \in Slot
<1>1. StackSize \in Nat /\ StackSize > 0
  BY StackSizeAssumption
<1>2. d.sp \in Slot
  BY StackSizeAssumption, SMT DEF Slot, Shape
<1>3. \A s \in Slot : d.stack[s] = IF s = d.sp THEN c.pc ELSE c.stack[s]
  BY DEF Shape
<1>4. CASE Filled(p, c)
  <2>1. Filled(p, d)
    BY <1>3, <1>4 DEF Filled
  <2>2. QED
    BY <1>2, <2>1 DEF Returns, Shape
<1>5. ASSUME NEW n \in 0 .. StackSize - 1, Nested(p, c, n) PROVE Returns(p, d)
  <2>1. n + 1 \in 1 .. StackSize
    BY <1>1
  <2>2. d.sp = Pushed(n + 1)
    BY <1>5, PushedSlots DEF Nested
  <2>3. d.stack[Pushed(n + 1)] \in IF n + 1 = 1 THEN p.main ELSE p.handlers
    <3>1. d.stack[Pushed(n + 1)] = c.pc
      BY <1>2, <1>3, <2>2
    <3>2. n + 1 = 1 <=> n = 0
      BY <1>1
    <3>3. QED
      BY <1>5, <3>1, <3>2 DEF Nested
  <2>4. ASSUME NEW k \in 1 .. n
        PROVE  d.stack[Pushed(k)] \in IF k = 1 THEN p.main ELSE p.handlers
    <3>1. k \in 1 .. StackSize /\ k \in 0 .. StackSize /\ k # n + 1
      BY <1>1
    <3>2. Pushed(k) \in Slot /\ Pushed(k) # Pushed(n + 1)
      BY <2>1, <3>1, PushedSlots
    <3>3. QED
      BY <1>3, <1>5, <2>2, <3>2 DEF Nested
  <2>5. \A k \in 1 .. n + 1 : d.stack[Pushed(k)] \in IF k = 1 THEN p.main ELSE p.handlers
    <3>1. \A k \in 1 .. n + 1 : k \in 1 .. n \/ k = n + 1
      OBVIOUS
    <3>2. QED
      BY <2>3, <2>4, <3>1
  <2>6. CASE n + 1 < StackSize
    <3>1. n + 1 \in 0 .. StackSize - 1 /\ n + 1 # 0
      BY <1>1, <2>1, <2>6
    <3>2. Nested(p, d, n + 1)
      BY <2>2, <2>5, <3>1 DEF Nested
    <3>3. QED
      BY <3>1, <3>2 DEF Returns
  <2>7. CASE n + 1 = StackSize
    <3>1. \A s \in Slot : d.stack[s] \in p.main \cup p.handlers
      BY <2>5, <2>7, PushedSlots
    <3>2. QED
      BY <3>1 DEF Returns, Filled
  <2>8. QED
    BY <1>1, <2>1, <2>6, <2>7
<1>6. QED
  BY <1>2, <1>4, <1>5 DEF Returns, Shape

\* A RET of a handler.
LEMMA ReturnReturns ==
  ASSUME NEW p, NEW c, NEW d, Shape(c), Returns(p, c), c.pc \notin p.main,
         d.sp = (c.sp + 1) % StackSize, d.pc = c.stack[c.sp], d.stack = c.stack
  PROVE  Returns(p, d)
<1>1. StackSize \in Nat /\ StackSize > 0
  BY StackSizeAssumption
<1>2. CASE Filled(p, c)
  BY <1>2 DEF Filled, Returns, Shape
<1>3. ASSUME NEW n \in 0 .. StackSize - 1, Nested(p, c, n) PROVE Returns(p, d)
  <2>1. n # 0
    BY <1>3 DEF Nested
  <2>2. n \in 1 .. StackSize /\ n \in 1 .. n /\ n - 1 \in 0 .. StackSize - 1
    BY <1>1, <2>1
  <2>3. d.sp = Pushed(n - 1)
    BY <1>3, <2>2, PushedSlots DEF Nested
  <2>4. d.pc \in IF n - 1 = 0 THEN p.main ELSE p.handlers
    <3>1. n - 1 = 0 <=> n = 1
      OBVIOUS
    <3>2. QED
      BY <1>3, <2>2, <3>1 DEF Nested
  <2>5. \A k \in 1 .. n - 1 : k \in 1 .. n
    OBVIOUS
  <2>6. Nested(p, d, n - 1)
    BY <1>3, <2>3, <2>4, <2>5 DEF Nested
  <2>7. QED
    BY <2>2, <2>6 DEF Returns
<1>4. QED
  BY <1>2, <1>3 DEF Returns

\* Every other instruction stays in its part.
LEMMA StayReturns ==
  ASSUME NEW p, NEW c, NEW d, Returns(p, c), d.sp = c.sp, d.stack = c.stack,
         c.pc \in p.main => d.pc \in p.main,
         c.pc \in p.handlers => d.pc \in p.handlers
  PROVE  Returns(p, d)
<1>1. CASE Filled(p, c)
  BY <1>1 DEF Filled, Returns
<1>2. ASSUME NEW n \in 0 .. StackSize - 1, Nested(p, c, n) PROVE Returns(p, d)
  <2>1. Nested(p, d, n)
    BY <1>2 DEF Nested
  <2>2. QED
    BY <2>1 DEF Returns
<1>3. QED
  BY <1>1, <1>2 DEF Returns


----------------------------------------------------------------------------
(* One iteration *)

\* A step of the chip may fill the register and never empties it.
LEMMA ChipSteps ==
  ASSUME NEW x, Chip(x), NEW arrived
  PROVE  LET y == on_step(x, arrived)
         IN  Chip(y) /\ y.rxIntEnabled = x.rxIntEnabled /\ (x.rdrFull => y.rdrFull)
<1> DEFINE s == [x EXCEPT !.rxq = @ \o arrived, !.wait = IF @ > 0 THEN @ - 1 ELSE 0]
           f == FeedScripted(s)
           y == FeedLive(f)
<1>1. Chip(s) /\ s.rxIntEnabled = x.rxIntEnabled /\ s.rdrFull = x.rdrFull
  BY DEF Chip
<1> HIDE DEF s
<1>2. Chip(f) /\ f.rxIntEnabled = s.rxIntEnabled /\ (s.rdrFull => f.rdrFull)
  BY <1>1 DEF Chip, FeedScripted
<1> HIDE DEF f
<1>3. Chip(y) /\ y.rxIntEnabled = f.rxIntEnabled /\ (f.rdrFull => y.rdrFull)
  BY <1>2 DEF Chip, FeedLive
<1>4. on_step(x, arrived) = y
  BY DEF on_step, f, s
<1> HIDE DEF y
<1>5. QED
  BY <1>1, <1>2, <1>3, <1>4

\* The latch is set only while the register is full.
LEMMA WireKeeps ==
  ASSUME NEW p, NEW c, NEW x, Sound(p, c, x), NEW arrived
  PROVE  LET y == on_step(x, arrived) IN Sound(p, Wire(y, c), y)
<1> DEFINE y == on_step(x, arrived)
           d == Wire(y, c)
<1>1. Chip(y) /\ y.rxIntEnabled = x.rxIntEnabled /\ (x.rdrFull => y.rdrFull)
  BY ChipSteps DEF Sound
<1>2. d = IF irqAsserted(y) THEN [c EXCEPT !.r7_latch = 1] ELSE c
  BY WireIsPoke DEF Poke, triggerInterrupt
<1> HIDE DEF y, d
<1>3. CASE irqAsserted(y)
  <2>1. d = [c EXCEPT !.r7_latch = 1] /\ y.rdrFull /\ y.rxIntEnabled
    BY <1>2, <1>3 DEF irqAsserted
  <2>2. Running(p, c)
    BY <1>1, <2>1 DEF Sound, Setup
  <2>3. /\ Shape(d) /\ Quiet(d) /\ d.a = c.a
        /\ d.pc = c.pc /\ d.sp = c.sp /\ d.stack = c.stack
    BY <2>1 DEF Sound, Shape, Fields, Quiet
  <2>4. Running(p, d)
    BY <2>2, <2>3, StayReturns DEF Running
  <2>5. QED
    BY <1>1, <2>1, <2>3, <2>4 DEF Sound, d, y
<1>4. CASE ~irqAsserted(y)
  <2>1. d = c
    BY <1>2, <1>4
  <2>2. Sound(p, c, y)
    BY <1>1 DEF Sound, Setup
  <2>3. QED
    BY <2>1, <2>2 DEF d, y
<1>5. QED
  BY <1>3, <1>4

\* The state in which the instruction of the iteration executes.
LEMMA EnterFlow ==
  ASSUME NEW c, Shape(c), Quiet(c)
  PROVE  LET e == Entered(c)
         IN  /\ Winner(c) \in {"none", "r7"}
             /\ Winner(c) = "none" => Calmer(c, e) /\ e.pc = c.pc /\ e.sp = c.sp /\ e.a = c.a
             /\ Winner(c) = "r7" =>
                  /\ c.r7_latch = 1
                  /\ Fields \subseteq DOMAIN e /\ Quiet(e) /\ e.r7_latch = 0 /\ e.a = c.a
                  /\ e.pc = 60 /\ e.sp = (c.sp + StackSize - 1) % StackSize
                  /\ e.stack = [c.stack EXCEPT ![e.sp] = c.pc]
<1> DEFINE e == Entered(c)
<1>1. Winner(c) \in {"none", "r7"} /\ (Winner(c) = "r7" => c.r7_latch = 1)
  BY DEF Winner, Quiet
<1>2. CASE Winner(c) = "none"
  <2>1. e = [c EXCEPT !.hlt_enable = 0]
    BY <1>2 DEF Entered, checkInterrupts
  <2> HIDE DEF e
  <2>2. Calmer(c, e) /\ e.pc = c.pc /\ e.sp = c.sp /\ e.a = c.a
    BY <2>1 DEF Shape, Fields, Quiet, Calmer
  <2>3. QED
    BY <1>2, <2>2 DEF e
<1>3. CASE Winner(c) = "r7"
  <2> DEFINE Kept(x, y) == /\ Fields \subseteq DOMAIN y /\ Quiet(y)
                           /\ y.a = x.a /\ y.pc = x.pc /\ y.sp = x.sp /\ y.stack = x.stack
             off == [c EXCEPT !.int_enable = 0]
             n == [off EXCEPT !.r7_latch = 0]
             top == (n.sp + StackSize - 1) % StackSize
             q == [n EXCEPT !.sp = top]
             r == [q EXCEPT !.stack[top] = n.pc]
             v == [r EXCEPT !.pc = 60]
  <2>1. Kept(c, off)
    BY DEF Shape, Fields, Quiet
  <2>2. checkInterrupts(c) = rst(n, 60)
    BY <1>3 DEF checkInterrupts
  <2>3. rst(n, 60) = v
    <3> HIDE DEF n
    <3>1. QED
      BY DEF rst, Push
  <2>4. e = [v EXCEPT !.hlt_enable = 0]
    BY <2>2, <2>3 DEF Entered
  <2> HIDE DEF off, e
  <2>5. Kept(c, n) /\ n.r7_latch = 0
    BY <2>1 DEF Fields, Quiet
  <2> HIDE DEF n, top
  <2>6. /\ Fields \subseteq DOMAIN q /\ Quiet(q) /\ q.r7_latch = 0 /\ q.a = n.a
        /\ q.sp = top /\ q.stack = n.stack
    BY <2>5 DEF Fields, Quiet
  <2> HIDE DEF q
  <2>7. /\ Fields \subseteq DOMAIN r /\ Quiet(r) /\ r.r7_latch = 0 /\ r.a = n.a
        /\ r.sp = top /\ r.stack = [n.stack EXCEPT ![top] = n.pc]
    BY <2>6 DEF Fields, Quiet
  <2> HIDE DEF r
  <2>8. /\ Fields \subseteq DOMAIN v /\ Quiet(v) /\ v.r7_latch = 0 /\ v.a = n.a
        /\ v.sp = top /\ v.stack = [n.stack EXCEPT ![top] = n.pc] /\ v.pc = 60
    BY <2>7 DEF Fields, Quiet
  <2> HIDE DEF v
  <2>9. /\ Fields \subseteq DOMAIN e /\ Quiet(e) /\ e.r7_latch = 0 /\ e.a = n.a
        /\ e.sp = top /\ e.stack = [n.stack EXCEPT ![top] = n.pc] /\ e.pc = 60
    BY <2>4, <2>8 DEF Fields, Quiet
  <2>10. QED
    BY <1>1, <1>3, <2>5, <2>9 DEF e, top
<1>4. QED
  BY <1>1, <1>2, <1>3

\* What the access of an IN or OUT changes.
Accessed(c, i, x, d, r) ==
  /\ Calmer(d, r.cpu) /\ r.cpu.sp = d.sp /\ r.cpu.pc = d.pc /\ Chip(r.acia)
  /\ 7 \notin d.a => 7 \notin r.cpu.a
  /\ ~x.rxIntEnabled /\ 7 \notin c.a => ~r.acia.rxIntEnabled
  /\ ~(i.op = "IN" /\ i.arg \in {CtrlPort, DataPort}) =>
       /\ r.cpu.a = d.a
       /\ x.rdrFull /\ ~({0, 1} \subseteq c.a) => r.acia.rdrFull
  /\ i.op = "IN" /\ i.arg = DataPort => r.cpu.a = {}

LEMMA AccessFlow ==
  ASSUME NEW c, NEW i, NEW x, Chip(x), NEW d, Shape(d), Quiet(d)
  PROVE  Accessed(c, i, x, d, Access(c, i, x, d))
<1> DEFINE r == Access(c, i, x, d)
<1>0. CtrlPort # DataPort
  BY BoardAssumption
<1>1. CASE i.op = "IN" /\ i.arg = CtrlPort
  <2>1. r = [cpu |-> [d EXCEPT !.a = Status(x)], acia |-> x]
    BY <1>0, <1>1 DEF Access
  <2>2. 7 \notin Status(x)
    BY DEF Status
  <2> DEFINE s == Status(x)
             y == [d EXCEPT !.a = s]
  <2> HIDE DEF s
  <2>3. Calmer(d, y) /\ y.sp = d.sp /\ y.pc = d.pc /\ y.a = s
    BY DEF Calmer, Shape, Fields, Quiet
  <2>4. r.cpu = y /\ r.acia = x
    BY <2>1 DEF s
  <2> HIDE DEF y, r
  <2>5. QED
    BY <1>0, <1>1, <2>2, <2>3, <2>4 DEF r, s, Accessed
<1>2. CASE i.op = "IN" /\ i.arg = DataPort
  <2> DEFINE y == [d EXCEPT !.a = {}]
             z == on_io_post_read(x)
  <2>1. r = [cpu |-> y, acia |-> z]
    BY <1>0, <1>2 DEF Access
  <2>2. Calmer(d, y) /\ y.sp = d.sp /\ y.pc = d.pc /\ y.a = {}
    BY DEF Calmer, Shape, Fields, Quiet
  <2>3. Chip(z) /\ z.rxIntEnabled = x.rxIntEnabled
    BY DEF on_io_post_read, Chip
  <2>4. r.cpu = y /\ r.acia = z
    BY <2>1
  <2> HIDE DEF y, z, r
  <2>5. QED
    BY <1>2, <2>2, <2>3, <2>4 DEF r, Accessed
<1>3. CASE i.op = "OUT" /\ i.arg = CtrlPort
  <2> DEFINE z == WriteControl(x, c.a)
  <2>1. r = [cpu |-> d, acia |-> z]
    BY <1>3 DEF Access
  <2>2. /\ Chip(z)
        /\ 7 \notin c.a => ~z.rxIntEnabled
        /\ x.rdrFull /\ ~({0, 1} \subseteq c.a) => z.rdrFull
    <3>1. CASE {0, 1} \subseteq c.a
      BY <3>1 DEF WriteControl, Chip
    <3>2. CASE ~({0, 1} \subseteq c.a)
      BY <3>2 DEF WriteControl, Chip
    <3>3. QED
      BY <3>1, <3>2
  <2>3. r.cpu = d /\ r.acia = z
    BY <2>1
  <2> HIDE DEF z, r
  <2>4. QED
    BY <1>3, <2>2, <2>3 DEF r, Calmer, Accessed
<1>4. CASE ~(i.op = "IN" /\ i.arg \in {CtrlPort, DataPort}) /\ ~(i.op = "OUT" /\ i.arg = CtrlPort)
  <2>1. r = [cpu |-> d, acia |-> x]
    BY <1>4 DEF Access
  <2>2. r.cpu = d /\ r.acia = x
    BY <2>1
  <2> HIDE DEF r
  <2>3. QED
    BY <1>4, <2>2 DEF r, Calmer, Accessed
<1>5. QED
  BY <1>1, <1>2, <1>3, <1>4


\* What the parts of a program of ReadFirst hold.
LEMMA Parts ==
  ASSUME NEW p \in ReadFirst, NEW y, NEW i, i = Fetch(p.image, y)
  PROVE  /\ i \in Instruction
         /\ y \in p.setup =>
              /\ i.op \notin {"CALL", "RST", "RET", "RIM"}
              /\ IF i.op = "MVI" /\ 7 \in i.arg
                 THEN ~({0, 1} \subseteq i.arg) /\ Successors(i, y) \subseteq p.main
                 ELSE Successors(i, y) \subseteq p.setup
         /\ y \in p.main \cup p.handlers =>
              /\ i.op \notin {"CALL", "RST", "RIM"}
              /\ i.op = "MVI" => ~({0, 1} \subseteq i.arg)
              /\ i.op = "IN" => i.arg \notin {CtrlPort, DataPort}
         /\ y \in p.main => i.op # "RET" /\ Successors(i, y) \subseteq p.main
         /\ y \in p.handlers => Successors(i, y) \subseteq p.handlers
<1>1. p.image \in Programs /\ ReadsFirst(p)
  BY ReadFirstAssumption
<1>2. i \in Instruction
  <2>1. \A z \in DOMAIN p.image : p.image[z] \in Instruction
    BY <1>1, BoardAssumption
  <2>2. Nop \in Instruction
    BY DEF Nop, Instruction
  <2>3. QED
    BY <2>1, <2>2 DEF Fetch
<1>3. y \in p.setup =>
              /\ i.op \notin {"CALL", "RST", "RET", "RIM"}
              /\ IF i.op = "MVI" /\ 7 \in i.arg
                 THEN ~({0, 1} \subseteq i.arg) /\ Successors(i, y) \subseteq p.main
                 ELSE Successors(i, y) \subseteq p.setup
  BY <1>1 DEF ReadsFirst
<1>4. y \in p.main \cup p.handlers =>
              /\ i.op \notin {"CALL", "RST", "RIM"}
              /\ i.op = "MVI" => ~({0, 1} \subseteq i.arg)
              /\ i.op = "IN" => i.arg \notin {CtrlPort, DataPort}
  BY <1>1 DEF ReadsFirst
<1>5. /\ y \in p.main => i.op # "RET" /\ Successors(i, y) \subseteq p.main
      /\ y \in p.handlers => Successors(i, y) \subseteq p.handlers
  BY <1>1 DEF ReadsFirst
<1>6. QED
  BY <1>2, <1>3, <1>4, <1>5

\* The handler's first instruction.
LEMMA FirstRead ==
  ASSUME NEW p \in ReadFirst
  PROVE  LET i == Fetch(p.image, 60)
         IN  /\ i \in Instruction /\ i.op = "IN" /\ i.arg = DataPort
             /\ Successors(i, 60) \subseteq p.handlers
<1>1. ReadsFirst(p)
  BY ReadFirstAssumption
<1>2. /\ Fetch(p.image, 60) = [op |-> "IN", arg |-> DataPort]
      /\ Successors(Fetch(p.image, 60), 60) \subseteq p.handlers
  BY <1>1 DEF ReadsFirst
<1>3. DataPort \in 0 .. 255
  BY BoardAssumption
<1>4. QED
  BY <1>2, <1>3 DEF Instruction

\* An acceptance and the read of the data register, in one call.
LEMMA ReadFlow ==
  ASSUME NEW p \in ReadFirst, p.image = image, NEW c, NEW x, Sound(p, c, x),
         NEW taken \in BOOLEAN, Winner(c) = "r7"
  PROVE  LET r == Instructed(c, x, taken) IN Sound(p, r.cpu, r.acia)
<1> DEFINE e == Entered(c)
           i == Fetch(image, e.pc)
           f == Execute(e, i, taken)
           d == EndDelay(f)
           r == Access(c, i, x, d)
<1>1. Shape(c) /\ Quiet(c) /\ Chip(x)
  BY DEF Sound
<1>2. /\ c.r7_latch = 1 /\ Fields \subseteq DOMAIN e /\ Quiet(e) /\ e.r7_latch = 0
      /\ e.pc = 60 /\ e.sp = (c.sp + StackSize - 1) % StackSize
      /\ e.stack = [c.stack EXCEPT ![e.sp] = c.pc]
  BY <1>1, EnterFlow
<1>3. Instructed(c, x, taken) = r
  BY DEF Instructed, StaysHalted, Current, Emulate8085Op
<1> HIDE DEF e
<1>4. Shape(e)
  <2>1. (c.sp + StackSize - 1) % StackSize \in Slot
    BY <1>1, StackSizeAssumption, SMT DEF Slot, Shape
  <2>2. DOMAIN e.stack = Slot
    BY <1>1, <1>2 DEF Shape
  <2>3. QED
    BY <1>2, <2>1, <2>2 DEF Shape
<1>5. /\ i \in Instruction /\ i.op = "IN" /\ i.arg = DataPort
      /\ Successors(i, e.pc) \subseteq p.handlers
  <2>1. i = Fetch(p.image, 60) /\ e.pc = 60
    BY <1>2
  <2> HIDE DEF i
  <2>2. /\ i \in Instruction /\ i.op = "IN" /\ i.arg = DataPort
        /\ Successors(i, 60) \subseteq p.handlers
    BY <2>1, FirstRead
  <2>3. QED
    BY <2>1, <2>2
<1> HIDE DEF i
<1>6. /\ Calmer(e, f) /\ f.sp = e.sp /\ f.pc \in Successors(i, e.pc)
  BY <1>2, <1>4, <1>5, ExecuteFlow
<1> HIDE DEF f
<1>7. Calmer(f, d) /\ d.sp = f.sp /\ d.pc = f.pc
  BY <1>6, EndFlow DEF Calmer
<1> HIDE DEF d
<1>8. /\ Calmer(d, r.cpu) /\ r.cpu.sp = d.sp /\ r.cpu.pc = d.pc /\ Chip(r.acia)
      /\ r.cpu.a = {}
  <2>1. Shape(d) /\ Quiet(d)
    BY <1>7 DEF Calmer
  <2>2. QED
    <3>1. Accessed(c, i, x, d, r)
      BY <1>1, <2>1, AccessFlow
    <3> HIDE DEF r
    <3>2. QED
      BY <1>5, <3>1 DEF Accessed
<1> HIDE DEF r
<1>9. /\ r.cpu.r7_latch # 1 /\ r.cpu.sp = e.sp /\ r.cpu.pc \in p.handlers
      /\ r.cpu.stack = e.stack
  BY <1>2, <1>5, <1>6, <1>7, <1>8 DEF Calmer
<1>10. Returns(p, c)
  BY <1>2 DEF Sound, Setup, Running
<1>11. Returns(p, r.cpu)
  <2> DEFINE q == r.cpu
  <2>1. /\ q.sp = (c.sp + StackSize - 1) % StackSize /\ q.pc \in p.handlers
        /\ q.stack = [c.stack EXCEPT ![q.sp] = c.pc]
    BY <1>2, <1>9
  <2> HIDE DEF q
  <2>2. Returns(p, q)
    BY <1>1, <1>10, <2>1, CallReturns
  <2>3. QED
    BY <2>2 DEF q
<1>12. Sound(p, r.cpu, r.acia)
  BY <1>8, <1>9, <1>11 DEF Sound, Running, Calmer
<1>13. QED
  BY <1>3, <1>12

\* Any other instruction.
LEMMA OrdinaryFlow ==
  ASSUME NEW p \in ReadFirst, p.image = image, NEW c, NEW x, Sound(p, c, x),
         NEW taken \in BOOLEAN, Winner(c) = "none", ~StaysHalted(c)
  PROVE  LET r == Instructed(c, x, taken) IN Sound(p, r.cpu, r.acia)
<1> DEFINE e == Entered(c)
           i == Fetch(image, e.pc)
           f == Execute(e, i, taken)
           d == EndDelay(f)
           r == Access(c, i, x, d)
<1>1. Shape(c) /\ Quiet(c) /\ Chip(x) /\ (c.r7_latch = 1 => x.rdrFull)
  BY DEF Sound
<1>2. Calmer(c, e) /\ e.pc = c.pc /\ e.sp = c.sp /\ e.a = c.a
  BY <1>1, EnterFlow
<1>3. Instructed(c, x, taken) = r
  BY DEF Instructed, Current, Emulate8085Op
<1> HIDE DEF e
<1>4. i = Fetch(p.image, c.pc)
  BY <1>2
<1> HIDE DEF i
<1>5. c.pc \in p.setup \/ c.pc \in p.main \cup p.handlers
  BY DEF Sound, Setup, Running, Returns, Filled, Nested
<1>6. i \in Instruction /\ i.op \notin {"CALL", "RST", "RIM"}
  BY <1>4, <1>5, Parts
<1>7. /\ Calmer(e, f)
      /\ f.a = IF i.op = "MVI" THEN i.arg ELSE e.a
      /\ i.op # "RET" => f.sp = e.sp /\ f.pc \in Successors(i, e.pc)
      /\ i.op = "RET" => f.sp = (e.sp + 1) % StackSize /\ f.pc = e.stack[e.sp]
  BY <1>2, <1>6, ExecuteFlow DEF Calmer
<1> HIDE DEF f
<1>8. Calmer(f, d) /\ d.a = f.a /\ d.sp = f.sp /\ d.pc = f.pc
  BY <1>7, EndFlow DEF Calmer
<1> HIDE DEF d
<1>9. /\ Calmer(d, r.cpu) /\ r.cpu.sp = d.sp /\ r.cpu.pc = d.pc /\ Chip(r.acia)
      /\ 7 \notin d.a => 7 \notin r.cpu.a
      /\ ~x.rxIntEnabled /\ 7 \notin c.a => ~r.acia.rxIntEnabled
      /\ ~(i.op = "IN" /\ i.arg \in {CtrlPort, DataPort}) =>
           /\ r.cpu.a = d.a
           /\ x.rdrFull /\ ~({0, 1} \subseteq c.a) => r.acia.rdrFull
  <2>1. Shape(d) /\ Quiet(d)
    BY <1>8 DEF Calmer
  <2>2. Accessed(c, i, x, d, r)
    BY <1>1, <2>1, AccessFlow
  <2> HIDE DEF r
  <2>3. QED
    BY <2>2 DEF Accessed
<1> DEFINE q == r.cpu
           z == r.acia
<1>10. /\ Shape(q) /\ Quiet(q) /\ Chip(z) /\ (q.r7_latch = 1 => c.r7_latch = 1)
       /\ q.stack = c.stack
       /\ i.op # "RET" => q.sp = c.sp /\ q.pc \in Successors(i, c.pc)
       /\ i.op = "RET" => q.sp = (c.sp + 1) % StackSize /\ q.pc = c.stack[c.sp]
  BY <1>2, <1>7, <1>8, <1>9 DEF Calmer
<1>11. /\ d.a = IF i.op = "MVI" THEN i.arg ELSE c.a
       /\ 7 \notin d.a => 7 \notin q.a
       /\ ~x.rxIntEnabled /\ 7 \notin c.a => ~z.rxIntEnabled
       /\ ~(i.op = "IN" /\ i.arg \in {CtrlPort, DataPort}) =>
            /\ q.a = d.a
            /\ x.rdrFull /\ ~({0, 1} \subseteq c.a) => z.rdrFull
  BY <1>2, <1>7, <1>8, <1>9
<1> HIDE DEF q, z, r
<1>12. ASSUME Setup(p, c, x) PROVE Sound(p, q, z)
  <2>1. /\ i.op # "RET"
        /\ IF i.op = "MVI" /\ 7 \in i.arg
           THEN ~({0, 1} \subseteq i.arg) /\ Successors(i, c.pc) \subseteq p.main
           ELSE Successors(i, c.pc) \subseteq p.setup
    BY <1>4, <1>12, Parts DEF Setup
  <2>2. q.sp = EntrySp /\ q.r7_latch # 1 /\ ~z.rxIntEnabled
    BY <1>10, <1>11, <1>12, <2>1 DEF Setup
  <2>3. CASE i.op = "MVI" /\ 7 \in i.arg
    <3>1. q.pc \in p.main /\ ~({0, 1} \subseteq q.a)
      BY <1>10, <1>11, <2>1, <2>3
    <3>2. 0 \in 0 .. StackSize - 1 /\ Pushed(0) = EntrySp
      BY StackSizeAssumption, BoardAssumption DEF Pushed, Slot
    <3>3. Nested(p, q, 0)
      BY <2>2, <3>1, <3>2 DEF Nested
    <3>4. QED
      BY <1>10, <2>2, <3>1, <3>2, <3>3 DEF Sound, Running, Returns
  <2>4. CASE ~(i.op = "MVI" /\ 7 \in i.arg)
    <3>1. q.pc \in p.setup
      BY <1>10, <2>1, <2>4
    <3>2. 7 \notin q.a
      BY <1>11, <1>12, <2>4 DEF Setup
    <3>3. QED
      BY <1>10, <2>2, <3>1, <3>2 DEF Sound, Setup
  <2>5. QED
    BY <2>3, <2>4
<1>13. ASSUME Running(p, c) PROVE Sound(p, q, z)
  <2>1. c.pc \in p.main \cup p.handlers
    BY <1>13 DEF Running, Returns, Filled, Nested
  <2>2. /\ i.op = "MVI" => ~({0, 1} \subseteq i.arg)
        /\ i.op = "IN" => i.arg \notin {CtrlPort, DataPort}
        /\ c.pc \in p.main => i.op # "RET" /\ Successors(i, c.pc) \subseteq p.main
        /\ c.pc \in p.handlers => Successors(i, c.pc) \subseteq p.handlers
    BY <1>4, <2>1, Parts
  <2>3. ~({0, 1} \subseteq q.a)
    BY <1>11, <1>13, <2>2 DEF Running
  <2>4. q.r7_latch = 1 => z.rdrFull
    BY <1>1, <1>10, <1>11, <1>13, <2>2 DEF Running
  <2>5. CASE i.op = "RET"
    <3>1. Returns(p, q)
      BY <1>1, <1>10, <1>13, <2>2, <2>5, ReturnReturns DEF Running
    <3>2. QED
      BY <1>10, <2>3, <2>4, <3>1 DEF Sound, Running
  <2>6. CASE i.op # "RET"
    <3>1. Returns(p, q)
      BY <1>10, <1>13, <2>2, <2>6, StayReturns DEF Running
    <3>2. QED
      BY <1>10, <2>3, <2>4, <3>1 DEF Sound, Running
  <2>7. QED
    BY <2>5, <2>6
<1>14. Sound(p, q, z)
  BY <1>12, <1>13 DEF Sound
<1>15. QED
  BY <1>3, <1>14 DEF q, z

LEMMA FindInit == Init => FindInv
<1> SUFFICES ASSUME Init, NEW p \in ReadFirst, p.image = image
             PROVE  ~empty /\ Sound(p, wired.cpu, wired.acia)
  BY DEF FindInv
<1> DEFINE c == Reset8085(EntryPc, EntrySp)
           x == on_reset(Created(Script))
<1>1. wired.cpu = c /\ wired.acia = x /\ ~empty
  BY DEF Init
<1>2. EntryPc \in p.setup /\ EntrySp \in Slot
  BY ReadFirstAssumption, BoardAssumption DEF ReadsFirst
<1>3. /\ Shape(c) /\ Quiet(c) /\ c.r7_latch # 1
      /\ c.pc = EntryPc /\ c.sp = EntrySp /\ 7 \notin c.a
  BY <1>2 DEF Reset8085, Shape, Fields, Quiet
<1>4. Chip(x) /\ ~x.rxIntEnabled
  BY DEF Created, on_reset, Chip
<1> HIDE DEF c, x
<1>5. Sound(p, c, x)
  BY <1>2, <1>3, <1>4 DEF Sound, Setup
<1>6. QED
  BY <1>1, <1>5

LEMMA FindNext == FindInv /\ [Next]_vars => FindInv'
<1> SUFFICES ASSUME FindInv, [Next]_vars PROVE FindInv'
  OBVIOUS
<1>1. CASE UNCHANGED vars
  BY <1>1 DEF vars, FindInv
<1>2. ASSUME NEW arrived, NEW taken \in BOOLEAN, Iterate(arrived, taken) PROVE FindInv'
  <2> SUFFICES ASSUME NEW p \in ReadFirst, p.image = image'
               PROVE  ~empty' /\ Sound(p, wired'.cpu, wired'.acia)
    BY DEF FindInv
  <2> DEFINE b == on_step(wired.acia, arrived)
             c == Wire(b, wired.cpu)
             r == Instructed(c, b, taken)
  <2>1. /\ wired' = r /\ image' = image
        /\ empty' = (empty \/ (Winner(c) = "r7" /\ ~b.rdrFull))
    BY <1>2 DEF Iterate
  <2>2. p.image = image /\ ~empty /\ Sound(p, wired.cpu, wired.acia)
    BY <2>1 DEF FindInv
  <2>3. Sound(p, c, b)
    BY <2>2, WireKeeps
  <2> HIDE DEF b, c
  <2>4. Shape(c) /\ Quiet(c) /\ (c.r7_latch = 1 => b.rdrFull)
    BY <2>3 DEF Sound
  <2>5. Winner(c) \in {"none", "r7"} /\ (Winner(c) = "r7" => b.rdrFull)
    BY <2>4, EnterFlow
  <2>6. Sound(p, r.cpu, r.acia)
    <3>1. CASE StaysHalted(c)
      BY <2>3, <3>1 DEF Instructed
    <3>2. CASE Winner(c) = "r7"
      BY <2>2, <2>3, <3>2, ReadFlow
    <3>3. CASE Winner(c) = "none" /\ ~StaysHalted(c)
      BY <2>2, <2>3, <3>3, OrdinaryFlow
    <3>4. QED
      BY <2>5, <3>1, <3>2, <3>3
  <2>7. QED
    BY <2>1, <2>2, <2>5, <2>6
<1>3. QED
  BY <1>1, <1>2 DEF Next

\* A handler that starts with the read of the data port finds a byte there each
\* time it is entered (HandlerFindsByte), for every such program, however its
\* handlers nest.
THEOREM HandlerFindsByteHolds == Spec => []HandlerFindsByte
<1>1. FindInv => HandlerFindsByte
  BY DEF FindInv, HandlerFindsByte
<1>2. QED
  BY <1>1, FindInit, FindNext, PTL DEF Spec
=============================================================================
