------------------------------ MODULE RunLoop ------------------------------
(***************************************************************************)
(* The main loop of the simulator (main.cpp 909-1036): it raises the       *)
(* scheduled interrupts of --irq, looks for a reason to stop, lets the     *)
(* plugins and the netlist drive the processor's lines, executes one       *)
(* instruction and raises the periodic interrupts of --timer.              *)
(*                                                                         *)
(* An iteration is one action: nothing runs beside the loop.  What a       *)
(* plugin or the netlist does to the interrupt lines in an iteration is    *)
(* arbitrary within the lines the scenario wires.                          *)
(***************************************************************************)
EXTENDS I8085Core, FiniteSets, Functions, SequencesExt

CONSTANTS
  Scenarios,         \* the command lines to explore: see Scenario below
  EntryPc, EntrySp,  \* --entry and --sp
  MaxSteps           \* --max-steps, 0 for an unbounded run

(***************************************************************************)
(* The part of Config the loop reads: the program, the schedule in the     *)
(* order of the command line, the timers, --stop-at, loop detection, the   *)
(* tracepoints, and the interrupt pins that plugins and netlist may drive. *)
(***************************************************************************)
IsScenario(s) ==
  /\ \A x \in DOMAIN s.image : s.image[x] \in Instruction
  /\ s.irqs \in Seq([code : InterruptCode, atStep : Nat])
  /\ s.timers \in Seq([code : InterruptCode, periodCycles : Nat \ {0}])
  /\ s.stopAddrs \subseteq Addr
  /\ s.loopDetect \in BOOLEAN
  /\ s.tracepoints \subseteq Addr
  /\ s.tracepointMax \in Nat
  /\ s.tracepointStop \in BOOLEAN
  /\ s.pins \subseteq {45, 55, 65, 75}

ASSUME ScenariosAssumption == \A s \in Scenarios : IsScenario(s)
ASSUME RunAssumption == EntryPc \in Addr /\ EntrySp \in Slot /\ MaxSteps \in Nat

VARIABLES
  cfg,          \* the scenario of this behaviour
  irqs,         \* cfg.irqs sorted by step
  cpu,          \* state
  step, nextIRQ, halted, lastPC, lastSP,
  total,        \* stats.total_tstates
  nextTrigger,  \* nextTriggerCycle of every timer
  hits,         \* hits of every tracepoint
  reason        \* haltReason, "running" inside the loop

config == <<cfg, irqs>>
vars == <<cfg, irqs, cpu, step, nextIRQ, halted, lastPC, lastSP, total, nextTrigger,
          hits, reason>>

\* The schedule sorted by step; std::sort leaves the order of equal steps open.
Sorted(q) ==
  {s \in [DOMAIN q -> Range(q)] :
     /\ \E f \in Injection(DOMAIN q, DOMAIN q) : \A i \in DOMAIN q : s[i] = q[f[i]]
     /\ \A i, j \in DOMAIN q : i < j => s[i].atStep <= s[j].atStep}

\* The last pc and sp start as 0xFFFF, the top of the address space.
Init ==
  /\ cfg \in Scenarios
  /\ irqs \in Sorted(cfg.irqs)
  /\ cpu = Reset8085(EntryPc, EntrySp)
  /\ step = 0 /\ nextIRQ = 0 /\ halted = FALSE
  /\ lastPC = AddrSize - 1 /\ lastSP = StackSize - 1
  /\ total = 0
  /\ nextTrigger = [t \in DOMAIN cfg.timers |-> cfg.timers[t].periodCycles]
  /\ hits = [a \in cfg.tracepoints |-> 0]
  /\ reason = "running"

----------------------------------------------------------------------------
(* The top of an iteration: the schedule *)

\* Fault: an interrupt is raised one step after the one it was scheduled for.
DueIRQs_Late == {i \in nextIRQ + 1 .. Len(irqs) : irqs[i].atStep < step}

DueIRQs == {i \in nextIRQ + 1 .. Len(irqs) : irqs[i].atStep <= step}
IRQsAfter == nextIRQ + Cardinality(DueIRQs)

\* The processor after the interrupts that are due were raised.
Scheduled ==
  FoldLeft(LAMBDA c, irq : triggerInterrupt(c, irq.code, 1),
           cpu, SubSeq(irqs, nextIRQ + 1, IRQsAfter))

\* Fault: interrupts still to come do not keep the run alive.
HasFutureIRQ_Never == FALSE

HasFutureIRQ == IRQsAfter < Len(irqs)

----------------------------------------------------------------------------
(* The checks, in the order the loop makes them.  A tracepoint is counted before  *)
(* the checks, so the counts they read include this iteration.                    *)

Hits == [a \in cfg.tracepoints |-> hits[a] + (IF a = cpu.pc THEN 1 ELSE 0)]
TotalTracepointHits == SumFunction(Hits)

TracepointMax == cfg.tracepointMax > 0 /\ TotalTracepointHits >= cfg.tracepointMax

TracepointStop ==
  /\ cfg.tracepointStop /\ cfg.tracepoints # {}
  /\ \A a \in cfg.tracepoints : Hits[a] > 0

IsStopAddress == cpu.pc \in cfg.stopAddrs

PendingIrq(c) ==
  1 \in {c.pending_trap, c.pending_r5, c.pending_r6, c.r7_latch}

\* Fault: the stack pointer is left out of the comparison.
InfiniteLoop_PcOnly ==
  /\ cfg.loopDetect /\ ~halted
  /\ cpu.pc = lastPC
  /\ ~PendingIrq(Scheduled) /\ ~HasFutureIRQ /\ cfg.timers = <<>>

\* The same pc and sp as an iteration ago, and nothing that could change that.
InfiniteLoop ==
  /\ cfg.loopDetect /\ ~halted
  /\ cpu.pc = lastPC /\ cpu.sp = lastSP
  /\ ~PendingIrq(Scheduled) /\ ~HasFutureIRQ /\ cfg.timers = <<>>

----------------------------------------------------------------------------
(* The instruction, the timers and the end of the iteration *)

\* The pins drive their lines (io_runtime_on_step, main.cpp 1004).
Driven(c, level) ==
  FoldSet(LAMBDA code, d : triggerInterrupt(d, code, level[code]), c, DOMAIN level)

\* Fault: a timer that is several periods late catches up one period only.
Periods_One(t, now) == IF now >= nextTrigger[t] THEN 1 ELSE 0

\* How often timer t fires once the clock shows now.
Periods(t, now) ==
  IF now >= nextTrigger[t]
  THEN (now - nextTrigger[t]) \div cfg.timers[t].periodCycles + 1
  ELSE 0

Fired(c, now) ==
  FoldLeft(LAMBDA d, t : IF Periods(t, now) > 0
                         THEN triggerInterrupt(d, cfg.timers[t].code, 1) ELSE d,
           c, [t \in DOMAIN cfg.timers |-> t])

\* With --max-steps=0 the step number is only compared with the schedule, so it need
\* not count beyond it.
NextStep ==
  IF MaxSteps > 0 \/ \E i \in DOMAIN irqs : irqs[i].atStep >= step THEN step + 1 ELSE step

InLoop == reason = "running" /\ (MaxSteps = 0 \/ step < MaxSteps)

LimitReached ==
  /\ reason = "running" /\ ~InLoop
  /\ reason' = "max"
  /\ UNCHANGED <<config, cpu, step, nextIRQ, halted, lastPC, lastSP, total, nextTrigger, hits>>

\* A check stops the run: the schedule's interrupts of this step stay raised.
StopBecause(why) ==
  /\ InLoop
  /\ cpu' = Scheduled /\ nextIRQ' = IRQsAfter /\ hits' = Hits
  /\ reason' = why
  /\ UNCHANGED <<config, step, halted, lastPC, lastSP, total, nextTrigger>>

StopAtTracepointMax == TracepointMax /\ StopBecause("tracepoint-max")

StopAtTracepoints == ~TracepointMax /\ TracepointStop /\ StopBecause("tracepoint-stop")

StopAtAddress ==
  ~TracepointMax /\ ~TracepointStop /\ IsStopAddress /\ StopBecause("stop")

StopAtLoop ==
  /\ ~TracepointMax /\ ~TracepointStop /\ ~IsStopAddress
  /\ InfiniteLoop /\ StopBecause("loop")

Execution(taken, level) ==
  \E before \in {Driven(Scheduled, level)} :
  \E after \in {Emulate8085Op(cfg.image, before, taken)},
      now \in {total + TStates(cfg.image, before, taken)} :
      /\ InLoop
      /\ ~TracepointMax /\ ~TracepointStop /\ ~IsStopAddress /\ ~InfiniteLoop
      /\ cpu' = Fired(after, now)
      /\ nextTrigger' = [t \in DOMAIN nextTrigger |->
                           nextTrigger[t] + Periods(t, now) * cfg.timers[t].periodCycles]
      /\ total' = now
      /\ halted' = (after.hlt_enable = 1)
      /\ reason' = IF halted' /\ ~HasFutureIRQ /\ cfg.timers = <<>> THEN "hlt" ELSE "running"
      /\ nextIRQ' = IRQsAfter /\ hits' = Hits
      /\ lastPC' = cpu.pc /\ lastSP' = cpu.sp
      /\ step' = NextStep
      /\ UNCHANGED config

Iterate == \E taken \in BOOLEAN, level \in [cfg.pins -> Bit] : Execution(taken, level)

Ended == reason # "running" /\ UNCHANGED vars

Next ==
  \/ LimitReached \/ StopAtTracepointMax \/ StopAtTracepoints
  \/ StopAtAddress \/ StopAtLoop \/ Iterate \/ Ended

\* The loop waits for nothing.
Spec == Init /\ [][Next]_vars /\ WF_vars(Next)

----------------------------------------------------------------------------
(* Properties *)

\* Every interrupt of the schedule is raised in the iteration of its own step,
\* and a run that ends for want of anything to do has raised them all (931-937, 1023).
ScheduleKept ==
  /\ reason = "running" => nextIRQ = Cardinality({i \in DOMAIN irqs : irqs[i].atStep < step})
  /\ reason \in {"hlt", "loop"} => nextIRQ = Len(irqs)

\* A timer's next firing is in the future and at most a period away, however long
\* an instruction took: no firing is dropped or doubled (1008-1020).
TimerPhase ==
  \A t \in DOMAIN cfg.timers :
    /\ total < nextTrigger[t]
    /\ nextTrigger[t] <= total + cfg.timers[t].periodCycles
    /\ nextTrigger[t] % cfg.timers[t].periodCycles = 0

Quiet == cfg.irqs = <<>> /\ cfg.timers = <<>> /\ cfg.pins = {}

SelfJump == LET i == Fetch(cfg.image, cpu.pc) IN i.op \in {"JMP", "JCC"} /\ i.arg = cpu.pc

\* With no source of interrupts, a run that stops because it halted or loops would
\* indeed have done nothing more: it halted with nothing to wake it, or it stands
\* at a jump to itself (993-1002, 1022-1026).
IdleStopIsFinal ==
  Quiet /\ reason \in {"hlt", "loop"} =>
    Winner(cpu) = "none" /\ (cpu.hlt_enable = 1 \/ SelfJump)

\* A program that halts with interrupts enabled is woken by the RST 7.5 the schedule still
\* holds for it, unless the limit on steps or a stop asked for ends the run (1023, 931).
HaltedWaitsForSchedule ==
  (/\ cpu.hlt_enable = 1 /\ cpu.int_enable = 1 /\ cpu.r7_mask = 0
   /\ nextIRQ < Len(irqs) /\ irqs[nextIRQ + 1].code = 75)
     ~> (cpu.hlt_enable = 0 \/ reason \in {"max", "stop", "tracepoint-max", "tracepoint-stop"})

----------------------------------------------------------------------------
(* What the help and the messages say of the loop, against what it does *)

\* "Infinite loop detected" (997): the program could only go on as it did.
LoopIsInfinite == reason = "loop" => SelfJump

\* "Periodic interrupt every PERIOD T-states" (--timer, 106): a program that
\* waits in HLT with interrupts enabled for an unmasked RST 7.5 timer is woken.
TimerWakesHalt ==
  (/\ cpu.hlt_enable = 1 /\ cpu.int_enable = 1 /\ cpu.r7_mask = 0
   /\ \E t \in DOMAIN cfg.timers : cfg.timers[t].code = 75)
     ~> (cpu.hlt_enable = 0 \/ reason = "max")
============================================================================
