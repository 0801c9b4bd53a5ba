----------------------------- MODULE MCRunLoop -----------------------------
(***************************************************************************)
(* Command lines for RunLoop.  Programs are entered at 64; handlers stand  *)
(* at the vectors 16 (RST 2), 44, 52 and 60 (RST 5.5, 6.5, 7.5).           *)
(***************************************************************************)
EXTENDS RunLoop, TLC

I(op) == [op |-> op]
IA(op, arg) == [op |-> op, arg |-> arg]

Scenario(image) ==
  [image |-> image, irqs |-> <<>>, timers |-> <<>>, stopAddrs |-> {}, loopDetect |-> TRUE,
   tracepoints |-> {}, tracepointMax |-> 0, tracepointStop |-> FALSE, pins |-> {}]

IRQ(code, atStep) == [code |-> code, atStep |-> atStep]
Timer(code, period) == [code |-> code, periodCycles |-> period]

Handlers ==
  (16 :> I("EI")) @@ (17 :> I("RET"))
    @@ (44 :> I("NOP")) @@ (45 :> I("EI")) @@ (46 :> I("RET"))
    @@ (60 :> I("EI")) @@ (61 :> I("RET"))

\* Calls, recursion, a halt and a jump to itself, by the branches taken.
Maze ==
  (64 :> IA("JCC", 80)) @@ (67 :> IA("CALL", 76)) @@ (70 :> IA("JCC", 64)) @@ (73 :> I("HLT"))
    @@ (76 :> I("RET"))
    @@ (80 :> IA("JCC", 86)) @@ (83 :> IA("JMP", 83))
    @@ (86 :> IA("JCC", 86)) @@ (89 :> IA("CALL", 89))

Sleeper == (64 :> I("EI")) @@ (65 :> I("HLT")) @@ (66 :> IA("JMP", 65)) @@ Handlers

Worker ==
  (64 :> I("EI")) @@ (65 :> IA("CALL", 76)) @@ (68 :> IA("JCC", 65)) @@ (71 :> I("DI"))
    @@ (72 :> IA("JMP", 64)) @@ (76 :> I("NOP")) @@ (77 :> I("RET")) @@ Handlers

Schedule == <<IRQ(75, 6), IRQ(2, 1), IRQ(75, 4), IRQ(55, 4)>>

MCScenarios ==
  {Scenario(Maze),
   [Scenario(Maze) EXCEPT !.loopDetect = FALSE, !.stopAddrs = {73}],
   [Scenario(Maze) EXCEPT !.tracepoints = {64, 76}, !.tracepointMax = 4],
   [Scenario(Maze) EXCEPT !.tracepoints = {64, 76, 83}, !.tracepointStop = TRUE],
   [Scenario(Sleeper) EXCEPT !.irqs = Schedule],
   [Scenario(Sleeper) EXCEPT !.irqs = <<IRQ(75, 7)>>, !.pins = {65}],
   [Scenario(Worker) EXCEPT !.irqs = Schedule, !.pins = {55, 75}],
   [Scenario(Worker) EXCEPT !.timers = <<Timer(75, 13), Timer(2, 4), Timer(55, 30)>>],
   [Scenario(Worker) EXCEPT !.timers = <<Timer(55, 21)>>, !.pins = {75}]}

\* A handler that is a bare RET.
BareReturn ==
  {[Scenario((64 :> I("EI")) @@ (65 :> I("NOP")) @@ (66 :> I("NOP")) @@ (67 :> IA("JMP", 64))
             @@ (60 :> I("RET"))) EXCEPT !.irqs = <<IRQ(75, 3)>>]}

\* A program that sleeps until its timer.
TimerScenarios == {[Scenario(Sleeper) EXCEPT !.timers = <<Timer(75, 50)>>]}
============================================================================
