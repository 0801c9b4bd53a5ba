--------------------------- MODULE RunLoop_proofs ---------------------------
(***************************************************************************)
(* Proofs about RunLoop: the schedule is kept and no firing of a timer is  *)
(* dropped or doubled, for every program, schedule, set of timers, set of  *)
(* driven pins and limit of steps.                                         *)
(***************************************************************************)
EXTENDS RunLoop, FiniteSetTheorems, SequenceTheorems, TLAPS

(***************************************************************************)
(* The timers.                                                             *)
(***************************************************************************)

\* A multiple of p stays one when a multiple is added.
LEMMA NextMultiple ==
  ASSUME NEW n \in Nat, NEW k \in Nat, NEW p \in Nat \ {0}, n % p = 0
  PROVE  (n + k * p) % p = 0
<1> DEFINE q == n \div p
           r == (n + k * p) % p
           d == (n + k * p) \div p
<1>1. q \in Int /\ n = p * q
  BY SMT
<1>2. n + k * p \in Int
  OBVIOUS
<1>3. d \in Int /\ r \in 0 .. p - 1 /\ n + k * p = p * d + r
  <2> DEFINE m == n + k * p
  <2>1. m \in Int
    BY <1>2
  <2> HIDE DEF m
  <2>2. m \div p \in Int /\ m % p \in 0 .. p - 1 /\ m = p * (m \div p) + (m % p)
    BY <2>1
  <2>3. QED
    BY <2>2 DEF m
<1> HIDE DEF q, d, r
<1> DEFINE z == (q + k) - d
<1>4. z \in Int /\ p * z = r
  BY <1>1, <1>3
<1> HIDE DEF z
<1>5. z = 0
  <2>1. CASE z >= 1
    <3>1. p * z >= p
      BY <1>4, <2>1
    <3>2. QED
      BY <1>3, <1>4, <3>1
  <2>2. CASE z <= -1
    <3>1. p * z <= -p
      BY <1>4, <2>2
    <3>2. QED
      BY <1>3, <1>4, <3>1
  <2>3. QED
    BY <1>4, <2>1, <2>2
<1>6. r = 0
  BY <1>4, <1>5
<1>7. QED
  BY <1>6 DEF r

\* As many periods as bring a late timer behind the clock, and none for one in time.
LEMMA CatchUp ==
  ASSUME NEW now \in Nat, NEW next \in Nat, NEW p \in Nat \ {0}, NEW before \in Nat,
         before <= now, next <= before + p,
         NEW k, k = IF now >= next THEN (now - next) \div p + 1 ELSE 0
  PROVE  k \in Nat /\ now < next + k * p /\ next + k * p <= now + p
<1>1. CASE now >= next
  <2> DEFINE late == now - next
             q == late \div p
             r == late % p
  <2>1. late \in Nat
    BY <1>1
  <2> HIDE DEF late
  <2>2. q \in Nat /\ r \in 0 .. p - 1 /\ late = p * q + r
    BY <2>1
  <2> HIDE DEF q, r
  <2>3. k = q + 1 /\ now = next + late
    BY <1>1 DEF q, late
  <2>4. k * p = p * q + p
    BY <2>2, <2>3
  <2>5. p * q \in Nat
    BY <2>2
  <2> DEFINE m == p * q
  <2>6. m \in Nat /\ late = m + r /\ k * p = m + p /\ k \in Nat
    BY <2>2, <2>3, <2>4, <2>5
  <2> HIDE DEF m
  <2>7. QED
    BY <2>2, <2>3, <2>6
<1>2. CASE now < next
  <2>1. k = 0
    BY <1>2
  <2>2. k * p = 0
    BY <2>1
  <2>3. QED
    BY <1>2, <2>1, <2>2
<1>3. QED
  BY <1>1, <1>2

\* The clock counts up.
LEMMA StatesType ==
  ASSUME NEW image, NEW c, NEW taken
  PROVE  TStates(image, c, taken) \in Nat
BY DEF TStates, States

TimerInv ==
  /\ cfg \in Scenarios /\ total \in Nat
  /\ nextTrigger \in [DOMAIN cfg.timers -> Nat]
  /\ TimerPhase

LEMMA PeriodType ==
  ASSUME cfg \in Scenarios, NEW t \in DOMAIN cfg.timers
  PROVE  cfg.timers[t].periodCycles \in Nat \ {0}
<1>1. cfg.timers \in Seq([code : InterruptCode, periodCycles : Nat \ {0}])
  BY ScenariosAssumption DEF IsScenario
<1>2. t \in 1 .. Len(cfg.timers)
  BY <1>1, LenProperties
<1>3. cfg.timers[t] \in [code : InterruptCode, periodCycles : Nat \ {0}]
  BY <1>1, <1>2, ElementOfSeq
<1>4. QED
  BY <1>3

LEMMA TimerInit == Init => TimerInv
<1> SUFFICES ASSUME Init PROVE TimerInv
  OBVIOUS
<1>1. /\ cfg \in Scenarios /\ total = 0
      /\ nextTrigger = [t \in DOMAIN cfg.timers |-> cfg.timers[t].periodCycles]
  BY DEF Init
<1>2. ASSUME NEW p \in Nat \ {0} PROVE p % p = 0
  <2>1. (0 + 1 * p) % p = 0
    <3>1. 0 % p = 0
      BY SMT
    <3>2. QED
      BY <3>1, NextMultiple
  <2>2. 0 + 1 * p = p
    OBVIOUS
  <2>3. QED
    BY <2>1, <2>2
<1>3. ASSUME NEW t \in DOMAIN cfg.timers
      PROVE  /\ nextTrigger[t] \in Nat /\ total < nextTrigger[t]
             /\ nextTrigger[t] <= total + cfg.timers[t].periodCycles
             /\ nextTrigger[t] % cfg.timers[t].periodCycles = 0
  <2>1. cfg.timers[t].periodCycles \in Nat \ {0} /\ nextTrigger[t] = cfg.timers[t].periodCycles
    BY <1>1, PeriodType
  <2>2. cfg.timers[t].periodCycles % cfg.timers[t].periodCycles = 0
    BY <1>2, <2>1
  <2>3. QED
    BY <1>1, <2>1, <2>2
<1>4. QED
  BY <1>1, <1>3 DEF TimerInv, TimerPhase

\* What an instruction adds to the clock, every timer makes up for.
LEMMA ExecutionTimes ==
  ASSUME TimerInv, NEW taken, NEW level, Execution(taken, level)
  PROVE  TimerInv'
<1> PICK now : /\ now - total \in Nat /\ now \in Nat
               /\ total' = now /\ cfg' = cfg
               /\ nextTrigger' = [t \in DOMAIN nextTrigger |->
                    nextTrigger[t] + Periods(t, now) * cfg.timers[t].periodCycles]
  BY StatesType DEF Execution, TimerInv, config
<1>1. DOMAIN nextTrigger = DOMAIN cfg.timers /\ total \in Nat /\ total <= now
  BY DEF TimerInv
<1>2. ASSUME NEW t \in DOMAIN cfg.timers
      PROVE  /\ nextTrigger'[t] \in Nat /\ now < nextTrigger'[t]
             /\ nextTrigger'[t] <= now + cfg.timers[t].periodCycles
             /\ nextTrigger'[t] % cfg.timers[t].periodCycles = 0
  <2> DEFINE p == cfg.timers[t].periodCycles
             next == nextTrigger[t]
             k == Periods(t, now)
  <2>1. p \in Nat \ {0} /\ next \in Nat /\ next <= total + p /\ next % p = 0
    BY PeriodType DEF TimerInv, TimerPhase
  <2>2. k = IF now >= next THEN (now - next) \div p + 1 ELSE 0
    BY DEF Periods
  <2>3. nextTrigger'[t] = next + k * p
    BY <1>1
  <2> HIDE DEF p, next, k
  <2>4. k \in Nat /\ now < next + k * p /\ next + k * p <= now + p
    BY <1>1, <2>1, <2>2, CatchUp
  <2>5. (next + k * p) % p = 0
    BY <2>1, <2>4, NextMultiple
  <2>6. next + k * p \in Nat
    BY <2>1, <2>4
  <2>7. QED
    BY <2>3, <2>4, <2>5, <2>6 DEF p
<1>3. nextTrigger' \in [DOMAIN cfg.timers -> Nat]
  BY <1>1, <1>2
<1>4. QED
  BY <1>1, <1>2, <1>3 DEF TimerInv, TimerPhase

LEMMA TimerNext == TimerInv /\ [Next]_vars => TimerInv'
<1> SUFFICES ASSUME TimerInv, [Next]_vars PROVE TimerInv'
  OBVIOUS
<1>1. CASE UNCHANGED <<cfg, total, nextTrigger>>
  BY <1>1 DEF TimerInv, TimerPhase
<1>2. CASE Iterate
  BY <1>2, ExecutionTimes DEF Iterate
<1>3. \/ Iterate
      \/ UNCHANGED <<cfg, total, nextTrigger>>
  BY DEF Next, LimitReached, StopAtTracepointMax, StopAtTracepoints, StopAtAddress, StopAtLoop,
         StopBecause, Ended, config, vars
<1>4. QED
  BY <1>1, <1>2, <1>3

\* No firing is dropped or doubled, however long an instruction takes (TimerPhase).
THEOREM TimerPhaseHolds == Spec => []TimerPhase
<1>1. TimerInv => TimerPhase
  BY DEF TimerInv
<1>2. QED
  BY <1>1, TimerInit, TimerNext, PTL DEF Spec

----------------------------------------------------------------------------
(***************************************************************************)
(* The schedule.                                                           *)
(***************************************************************************)

\* A set of the first numbers up to L that leaves no gap is an interval.
LEMMA NoGap ==
  ASSUME NEW L \in Nat, NEW S, S \subseteq 1 .. L,
         \A i \in S : \A j \in 1 .. L : j <= i => j \in S
  PROVE  \E k \in 0 .. L : S = 1 .. k
<1> DEFINE k == Cardinality(S)
<1>1. IsFiniteSet(1 .. L) /\ Cardinality(1 .. L) = L
  <2>1. IsFiniteSet(1 .. L) /\ Cardinality(1 .. L) = IF 1 > L THEN 0 ELSE L - 1 + 1
    BY FS_Interval
  <2>2. QED
    BY <2>1
<1>2. IsFiniteSet(S) /\ k \in Nat /\ k <= L
  <2>1. IsFiniteSet(S) /\ k <= Cardinality(1 .. L)
    BY <1>1, FS_Subset
  <2>2. QED
    BY <1>1, <2>1, FS_CardinalityType
<1>3. ASSUME NEW i \in S PROVE i <= k
  <2>1. 1 .. i \subseteq S /\ i \in Nat
    OBVIOUS
  <2>2. Cardinality(1 .. i) = IF 1 > i THEN 0 ELSE i - 1 + 1
    BY <2>1, FS_Interval
  <2>3. Cardinality(1 .. i) <= k
    BY <1>2, <2>1, FS_Subset
  <2> HIDE DEF k
  <2>4. QED
    BY <1>2, <2>1, <2>2, <2>3
<1> HIDE DEF k
<1>4. S \subseteq 1 .. k
  BY <1>2, <1>3
<1>5. IsFiniteSet(1 .. k) /\ Cardinality(1 .. k) = k
  <2>1. IsFiniteSet(1 .. k) /\ Cardinality(1 .. k) = IF 1 > k THEN 0 ELSE k - 1 + 1
    BY <1>2, FS_Interval
  <2>2. QED
    BY <1>2, <2>1
<1>6. S = 1 .. k
  <2>1. Cardinality(S) = k
    BY DEF k
  <2>2. QED
    BY <1>4, <1>5, <2>1, FS_Subset
<1>7. QED
  BY <1>2, <1>6

Ascending(q) == \A i, j \in DOMAIN q : i < j => q[i].atStep <= q[j].atStep

\* Sorting keeps the requests' form.
LEMMA SortedForm ==
  ASSUME NEW S, NEW q \in Seq(S), NEW s \in Sorted(q)
  PROVE  s \in Seq(S) /\ Ascending(s)
<1>1. DOMAIN q = 1 .. Len(q) /\ Len(q) \in Nat /\ \A i \in DOMAIN q : q[i] \in S
  BY LenProperties, ElementOfSeq
<1>2. s \in [DOMAIN q -> Range(q)] /\ Ascending(s)
  BY DEF Sorted, Ascending
<1>3. Range(q) \subseteq S
  BY <1>1 DEF Range
<1>4. s \in [1 .. Len(q) -> S]
  BY <1>1, <1>2, <1>3
<1>5. QED
  BY <1>1, <1>2, <1>4

\* The index stands behind the requests of earlier steps; the last of them has been
\* raised when a run ends for want of anything to do.
ScheduleInv ==
  /\ irqs \in Seq([code : InterruptCode, atStep : Nat]) /\ Ascending(irqs)
  /\ step \in Nat /\ nextIRQ \in 0 .. Len(irqs)
  /\ reason = "running" => \A i \in DOMAIN irqs : i <= nextIRQ <=> irqs[i].atStep < step
  /\ reason \in {"hlt", "loop"} => nextIRQ = Len(irqs)

\* After an iteration's first lines it stands behind those of this step, too.
LEMMA DueFirst ==
  ASSUME ScheduleInv, reason = "running"
  PROVE  /\ IRQsAfter \in 0 .. Len(irqs)
         /\ \A i \in DOMAIN irqs : i <= IRQsAfter <=> irqs[i].atStep <= step
<1> DEFINE L == Len(irqs)
           S == {i \in 1 .. L : irqs[i].atStep <= step}
<1>1. /\ L \in Nat /\ DOMAIN irqs = 1 .. L /\ step \in Nat /\ nextIRQ \in 0 .. L
      /\ \A i \in 1 .. L : irqs[i].atStep \in Nat
  <2>1. L \in Nat /\ DOMAIN irqs = 1 .. L
    BY LenProperties DEF ScheduleInv
  <2>2. \A i \in 1 .. L : irqs[i] \in [code : InterruptCode, atStep : Nat]
    BY ElementOfSeq DEF ScheduleInv
  <2>3. QED
    BY <2>1, <2>2 DEF ScheduleInv
<1>2. \A i, j \in 1 .. L : j <= i => irqs[j].atStep <= irqs[i].atStep
  BY <1>1 DEF ScheduleInv, Ascending
<1>3. \A i \in 1 .. L : i <= nextIRQ => irqs[i].atStep <= step
  <2>1. \A i \in DOMAIN irqs : i <= nextIRQ <=> irqs[i].atStep < step
    BY DEF ScheduleInv
  <2> HIDE DEF L
  <2>2. QED
    BY <1>1, <2>1
<1>4. DueIRQs = {i \in nextIRQ + 1 .. L : irqs[i].atStep <= step}
  BY DEF DueIRQs
<1> HIDE DEF L
<1>5. PICK k \in 0 .. L : S = 1 .. k
  <2>1. \A i \in S : \A j \in 1 .. L : j <= i => j \in S
    BY <1>1, <1>2
  <2>2. QED
    BY <1>1, <2>1, NoGap
<1>6. nextIRQ <= k
  <2>1. CASE nextIRQ = 0
    BY <2>1
  <2>2. CASE nextIRQ > 0
    <3>1. nextIRQ \in S
      BY <1>1, <1>3, <2>2
    <3>2. QED
      BY <1>5, <3>1
  <2>3. QED
    BY <1>1, <2>1, <2>2
<1>7. DueIRQs = nextIRQ + 1 .. k
  <2>1. \A i \in 1 .. L : irqs[i].atStep <= step <=> i <= k
    BY <1>5
  <2> HIDE DEF S
  <2>2. \A i : i \in nextIRQ + 1 .. L /\ irqs[i].atStep <= step <=> i \in nextIRQ + 1 .. k
    BY <1>1, <1>5, <2>1
  <2>3. QED
    BY <1>4, <2>2
<1>8. Cardinality(DueIRQs) = k - nextIRQ
  <2>1. nextIRQ + 1 \in Int /\ k \in Int
    BY <1>1
  <2>2. Cardinality(nextIRQ + 1 .. k) = IF nextIRQ + 1 > k THEN 0 ELSE k - (nextIRQ + 1) + 1
    BY <2>1, FS_Interval
  <2>3. QED
    BY <1>1, <1>6, <1>7, <2>2
<1>9. IRQsAfter = k
  BY <1>1, <1>8 DEF IRQsAfter
<1>10. QED
  BY <1>1, <1>5, <1>9 DEF L

LEMMA ScheduleInit == Init => ScheduleInv
<1> SUFFICES ASSUME Init PROVE ScheduleInv
  OBVIOUS
<1>1. cfg.irqs \in Seq([code : InterruptCode, atStep : Nat])
  BY ScenariosAssumption DEF Init, IsScenario
<1>2. irqs \in Seq([code : InterruptCode, atStep : Nat]) /\ Ascending(irqs)
  BY <1>1, SortedForm DEF Init
<1>3. /\ Len(irqs) \in Nat /\ DOMAIN irqs = 1 .. Len(irqs)
      /\ \A i \in DOMAIN irqs : irqs[i].atStep \in Nat
  <2>1. Len(irqs) \in Nat /\ DOMAIN irqs = 1 .. Len(irqs)
    BY <1>2, LenProperties
  <2>2. \A i \in 1 .. Len(irqs) : irqs[i] \in [code : InterruptCode, atStep : Nat]
    BY <1>2, ElementOfSeq
  <2>3. QED
    BY <2>1, <2>2
<1>4. QED
  BY <1>2, <1>3 DEF Init, ScheduleInv

\* A check that stops the run: nothing is asked of the index but after a loop.
LEMMA StopSchedules ==
  ASSUME ScheduleInv, NEW why, why # "running", why # "hlt", StopBecause(why),
         why = "loop" => ~HasFutureIRQ
  PROVE  ScheduleInv'
<1>1. /\ nextIRQ' = IRQsAfter /\ reason' = why /\ reason = "running"
      /\ irqs' = irqs /\ step' = step
  BY DEF StopBecause, InLoop, config
<1>2. IRQsAfter \in 0 .. Len(irqs) /\ Len(irqs) \in Nat
  BY <1>1, DueFirst, LenProperties DEF ScheduleInv
<1>3. why = "loop" => IRQsAfter = Len(irqs)
  BY <1>2 DEF HasFutureIRQ
<1>4. QED
  BY <1>1, <1>2, <1>3 DEF ScheduleInv

LEMMA ExecutionSchedules ==
  ASSUME ScheduleInv, NEW taken, NEW level, Execution(taken, level)
  PROVE  ScheduleInv'
<1>1. /\ nextIRQ' = IRQsAfter /\ reason = "running" /\ irqs' = irqs /\ step' = NextStep
      /\ reason' \in {"hlt", "running"} /\ (reason' = "hlt" => ~HasFutureIRQ)
  BY DEF Execution, InLoop, config
<1>2. /\ IRQsAfter \in 0 .. Len(irqs) /\ Len(irqs) \in Nat
      /\ \A i \in DOMAIN irqs : i <= IRQsAfter <=> irqs[i].atStep <= step
  BY <1>1, DueFirst, LenProperties DEF ScheduleInv
<1>3. step \in Nat /\ \A i \in DOMAIN irqs : irqs[i].atStep \in Nat
  <2>1. DOMAIN irqs = 1 .. Len(irqs)
    BY LenProperties DEF ScheduleInv
  <2>2. \A i \in 1 .. Len(irqs) : irqs[i] \in [code : InterruptCode, atStep : Nat]
    BY ElementOfSeq DEF ScheduleInv
  <2>3. QED
    BY <2>1, <2>2 DEF ScheduleInv
<1>4. step' \in Nat /\ \A i \in DOMAIN irqs : irqs[i].atStep <= step <=> irqs[i].atStep < step'
  BY <1>1, <1>3 DEF NextStep
<1>5. reason' = "hlt" => IRQsAfter = Len(irqs)
  BY <1>1, <1>2 DEF HasFutureIRQ
<1>6. QED
  BY <1>1, <1>2, <1>4, <1>5 DEF ScheduleInv

LEMMA ScheduleNext == ScheduleInv /\ [Next]_vars => ScheduleInv'
<1> SUFFICES ASSUME ScheduleInv, [Next]_vars PROVE ScheduleInv'
  OBVIOUS
<1>1. CASE LimitReached
  BY <1>1 DEF LimitReached, config, ScheduleInv
<1>2. CASE StopAtTracepointMax \/ StopAtTracepoints \/ StopAtAddress
  <2>1. PICK why \in {"tracepoint-max", "tracepoint-stop", "stop"} : StopBecause(why)
    BY <1>2 DEF StopAtTracepointMax, StopAtTracepoints, StopAtAddress
  <2>2. QED
    BY <2>1, StopSchedules
<1>3. CASE StopAtLoop
  <2>1. StopBecause("loop") /\ ~HasFutureIRQ
    BY <1>3 DEF StopAtLoop, InfiniteLoop
  <2>2. QED
    BY <2>1, StopSchedules
<1>4. CASE Iterate
  BY <1>4, ExecutionSchedules DEF Iterate
<1>5. CASE UNCHANGED vars
  BY <1>5 DEF vars, ScheduleInv
<1>6. QED
  BY <1>1, <1>2, <1>3, <1>4, <1>5 DEF Next, Ended

\* Every scheduled interrupt is raised in the iteration of its own step, and none is
\* left when a run ends for want of anything to do (ScheduleKept).
THEOREM ScheduleKeptHolds == Spec => []ScheduleKept
<1>1. ScheduleInv => ScheduleKept
  <2> SUFFICES ASSUME ScheduleInv
               PROVE  reason = "running" =>
                        nextIRQ = Cardinality({i \in DOMAIN irqs : irqs[i].atStep < step})
    BY DEF ScheduleInv, ScheduleKept
  <2> SUFFICES ASSUME reason = "running"
               PROVE  nextIRQ = Cardinality({i \in DOMAIN irqs : irqs[i].atStep < step})
    OBVIOUS
  <2>1. DOMAIN irqs = 1 .. Len(irqs) /\ Len(irqs) \in Nat /\ nextIRQ \in 0 .. Len(irqs)
    BY LenProperties DEF ScheduleInv
  <2>2. {i \in DOMAIN irqs : irqs[i].atStep < step} = 1 .. nextIRQ
    BY <2>1 DEF ScheduleInv
  <2>3. Cardinality(1 .. nextIRQ) = IF 1 > nextIRQ THEN 0 ELSE nextIRQ - 1 + 1
    BY <2>1, FS_Interval
  <2>4. Cardinality(1 .. nextIRQ) = nextIRQ
    BY <2>1, <2>3
  <2>5. QED
    BY <2>2, <2>4
<1>2. QED
  BY <1>1, ScheduleInit, ScheduleNext, PTL DEF Spec


----------------------------------------------------------------------------
(***************************************************************************)
(* Runs without a source of interrupts.  No request is ever there, so a    *)
(* call executes the instruction at pc; and of the instructions only a     *)
(* jump to itself leaves both pc and sp where they are.                    *)
(***************************************************************************)

\* The processor has no request, and its pc and stack are in range.
Unasked(c) ==
  /\ {"pc", "sp", "stack", "int_enable", "int_enable_delay", "hlt_enable", "a", "sod_line",
      "r7_latch", "r7_mask", "r6_mask", "r5_mask"} \subseteq DOMAIN c
  /\ c.pc \in Addr /\ c.sp \in Slot
  /\ DOMAIN c.stack = Slot /\ \A s \in Slot : c.stack[s] \in Addr
  /\ c.pending_trap = 0 /\ c.pending_r5 = 0 /\ c.pending_r6 = 0
  /\ c.pending_int = 0 /\ c.r7_latch = 0

\* The instruction is a jump to its own address.
Stays(i, c) == i.op \in {"JMP", "JCC"} /\ i.arg = c.pc

\* From c to d the processor has moved on, or executed a jump to itself.
Moves(i, c, d) == Unasked(d) /\ (d.pc = c.pc /\ d.sp = c.sp => Stays(i, c))

LEMMA NothingWins ==
  ASSUME NEW c, Unasked(c)
  PROVE  Winner(c) = "none" /\ checkInterrupts(c) = c
BY DEF Unasked, Winner, checkInterrupts

\* Any other address is another one.
LEMMA AdvanceMoves ==
  ASSUME NEW c, Unasked(c), NEW n \in 1 .. 3
  PROVE  /\ Unasked(Advance(c, n)) /\ Advance(c, n).pc # c.pc
         /\ Advance(c, n).sp = c.sp /\ Advance(c, n).hlt_enable = c.hlt_enable
<1>1. (c.pc + n) % AddrSize \in Addr /\ (c.pc + n) % AddrSize # c.pc
  <2>1. c.pc \in Nat /\ c.pc < AddrSize
    BY AddrSizeAssumption DEF Unasked, Addr
  <2>2. CASE c.pc + n < AddrSize
    <3>1. (c.pc + n) % AddrSize = c.pc + n
      BY <2>1, <2>2, AddrSizeAssumption
    <3>2. QED
      BY <2>1, <2>2, <3>1, AddrSizeAssumption DEF Addr
  <2>3. CASE c.pc + n >= AddrSize
    <3>1. (c.pc + n) % AddrSize = c.pc + n - AddrSize
      BY <2>1, <2>3, AddrSizeAssumption
    <3>2. QED
      BY <2>1, <2>3, <3>1, AddrSizeAssumption DEF Addr
  <2>4. QED
    BY <2>1, <2>2, <2>3, AddrSizeAssumption
<1>2. QED
  BY <1>1 DEF Advance, Unasked

\* A call pushes, and so moves the stack pointer, unless the stack has one word only.
LEMMA PushMoves ==
  ASSUME StackSize > 1, NEW c, Unasked(c), NEW word \in Addr, NEW target \in Addr
  PROVE  /\ Unasked([Push(c, word) EXCEPT !.pc = target])
         /\ [Push(c, word) EXCEPT !.pc = target].sp # c.sp
<1> DEFINE top == (c.sp + StackSize - 1) % StackSize
           stack == [c.stack EXCEPT ![top] = word]
<1>1. top \in Slot /\ top # c.sp
  <2>1. c.sp \in Nat /\ c.sp < StackSize
    BY StackSizeAssumption DEF Unasked, Slot
  <2>2. CASE c.sp = 0
    <3>1. top = StackSize - 1
      BY <2>2, StackSizeAssumption
    <3>2. QED
      BY <2>2, <3>1, StackSizeAssumption DEF Slot
  <2>3. CASE c.sp > 0
    <3>1. c.sp - 1 \in Nat /\ c.sp - 1 < StackSize
      BY <2>1, <2>3, StackSizeAssumption
    <3>2. ((c.sp - 1) + StackSize) % StackSize = c.sp - 1
      BY <3>1, StackSizeAssumption
    <3>3. top = c.sp - 1
      BY <2>1, <3>2, StackSizeAssumption
    <3>4. QED
      BY <2>1, <2>3, <3>3, StackSizeAssumption DEF Slot
  <2>4. QED
    BY <2>1, <2>2, <2>3
<1>2. DOMAIN stack = Slot /\ \A s \in Slot : stack[s] \in Addr
  BY <1>1 DEF Unasked
<1> DEFINE x == [c EXCEPT !.sp = top]
           y == [x EXCEPT !.stack = stack]
<1>3. Push(c, word) = y
  BY DEF Push
<1> HIDE DEF top, stack
<1>4. Unasked(x) /\ x.sp = top
  BY <1>1 DEF Unasked
<1> HIDE DEF x
<1>5. Unasked(y) /\ y.sp = top
  BY <1>2, <1>4 DEF Unasked
<1> HIDE DEF y
<1>6. Unasked([y EXCEPT !.pc = target]) /\ [y EXCEPT !.pc = target].sp = top
  BY <1>5 DEF Unasked
<1>7. QED
  BY <1>1, <1>3, <1>6

LEMMA SimMoves ==
  ASSUME NEW c, Unasked(c)
  PROVE  Unasked(Sim(c)) /\ Sim(c).pc = c.pc /\ Sim(c).sp = c.sp
BY DEF Unasked, Sim

\* Every instruction.
LEMMA ExecuteMoves ==
  ASSUME StackSize > 1, NEW c, Unasked(c), NEW i \in Instruction, NEW taken
  PROVE  Moves(i, c, Execute(c, i, taken))
<1> DEFINE d == Execute(c, i, taken)
<1>1. \A n \in 1 .. 3 :
        /\ Unasked(Advance(c, n)) /\ Advance(c, n).pc # c.pc /\ Advance(c, n).sp = c.sp
  BY AdvanceMoves
<1>2. CASE i.op = "JMP" \/ (i.op = "JCC" /\ taken)
  <2>1. i.arg \in Addr
    BY <1>2 DEF Instruction
  <2>2. d = [c EXCEPT !.pc = i.arg]
    BY <1>2 DEF Execute
  <2>3. QED
    BY <1>2, <2>1, <2>2 DEF Unasked, Moves, Stays
<1>3. CASE i.op = "JCC" /\ ~taken
  <2>1. d = Advance(c, 3)
    BY <1>3 DEF Execute
  <2>2. QED
    BY <1>1, <2>1 DEF Moves
<1>4. CASE i.op = "CALL"
  <2>1. i.arg \in Addr /\ Advance(c, 3).pc \in Addr
    BY <1>1, <1>4 DEF Instruction, Unasked
  <2>2. d = [Push(c, Advance(c, 3).pc) EXCEPT !.pc = i.arg]
    BY <1>4 DEF Execute
  <2>3. QED
    BY <2>1, <2>2, PushMoves DEF Moves
<1>5. CASE i.op = "RST"
  <2> DEFINE x == Advance(c, 1)
  <2>1. 8 * i.arg \in Addr
    BY <1>5, AddrSizeAssumption DEF Instruction, Addr
  <2>2. d = [Push(x, x.pc) EXCEPT !.pc = 8 * i.arg]
    BY <1>5 DEF Execute, rst
  <2>3. Unasked(x) /\ x.sp = c.sp /\ x.pc \in Addr
    BY <1>1 DEF Unasked
  <2> HIDE DEF x
  <2>4. QED
    BY <2>1, <2>2, <2>3, PushMoves DEF Moves
<1>6. CASE i.op = "RET"
  <2> DEFINE next == (c.sp + 1) % StackSize
  <2>1. c.sp \in Nat /\ c.sp < StackSize /\ StackSize \in Nat
    BY StackSizeAssumption DEF Unasked, Slot
  <2>2. next = IF c.sp + 1 = StackSize THEN 0 ELSE c.sp + 1
    BY <2>1
  <2>3. next \in Slot /\ next # c.sp /\ c.stack[c.sp] \in Addr
    BY <2>1, <2>2 DEF Unasked, Slot
  <2>4. d = [c EXCEPT !.pc = c.stack[c.sp], !.sp = next]
    BY <1>6 DEF Execute
  <2> HIDE DEF next
  <2>5. QED
    BY <2>3, <2>4 DEF Unasked, Moves
<1>7. CASE i.op \in {"MVI", "RIM"}
  <2>1. CASE i.op = "MVI"
    <3> DEFINE x == Advance(c, 2)
    <3>1. d = [x EXCEPT !.a = i.arg]
      BY <2>1 DEF Execute
    <3>2. Unasked(x) /\ x.pc # c.pc
      BY <1>1
    <3> HIDE DEF x
    <3>3. QED
      BY <3>1, <3>2 DEF Moves, Unasked
  <2>2. CASE i.op = "RIM"
    <3> DEFINE x == Advance(c, 1)
    <3>1. d = [x EXCEPT !.a = RimBits(c)]
      BY <2>2 DEF Execute
    <3>2. Unasked(x) /\ x.pc # c.pc
      BY <1>1
    <3> HIDE DEF x
    <3>3. QED
      BY <3>1, <3>2 DEF Moves, Unasked
  <2>3. QED
    BY <1>7, <2>1, <2>2
<1>8. CASE i.op = "SIM"
  <2>1. d = Sim(Advance(c, 1))
    BY <1>8 DEF Execute
  <2>2. QED
    BY <1>1, <2>1, SimMoves DEF Moves
<1>9. CASE i.op = "DI"
  <2> DEFINE x == Advance(c, 1)
             y == [x EXCEPT !.int_enable = 0]
  <2>1. d = [y EXCEPT !.int_enable_delay = 0]
    BY <1>9 DEF Execute, DisableInterrupts
  <2>2. Unasked(x) /\ x.pc # c.pc
    BY <1>1
  <2> HIDE DEF x
  <2>3. Unasked(y) /\ y.pc # c.pc
    BY <2>2 DEF Unasked
  <2> HIDE DEF y
  <2>4. QED
    BY <2>1, <2>3 DEF Moves, Unasked
<1>10. CASE i.op \in {"EI", "HLT"}
  <2> DEFINE x == Advance(c, 1)
  <2>1. d = IF i.op = "EI" THEN [x EXCEPT !.int_enable_delay = 2] ELSE [x EXCEPT !.hlt_enable = 1]
    BY <1>10 DEF Execute, EnableInterrupts
  <2>2. Unasked(x) /\ x.pc # c.pc
    BY <1>1
  <2> HIDE DEF x, d
  <2>3. Moves(i, c, d)
    BY <2>1, <2>2 DEF Moves, Unasked
  <2>4. QED
    BY <2>3 DEF d
<1>11. CASE i.op \in {"NOP", "IN", "OUT"}
  <2>1. CASE i.op = "NOP"
    <3>1. d = Advance(c, 1)
      BY <2>1 DEF Execute
    <3>2. QED
      BY <1>1, <3>1 DEF Moves
  <2>2. CASE i.op \in {"IN", "OUT"}
    <3>1. d = Advance(c, 2)
      BY <2>2 DEF Execute
    <3>2. QED
      BY <1>1, <3>1 DEF Moves
  <2>3. QED
    BY <1>11, <2>1, <2>2
<1>12. i.op \in {"NOP", "EI", "DI", "HLT", "RIM", "SIM", "RET", "JMP", "JCC", "CALL", "RST",
                 "MVI", "IN", "OUT"}
  BY DEF Instruction
<1>13. QED
  BY <1>2, <1>3, <1>4, <1>5, <1>6, <1>7, <1>8, <1>9, <1>10, <1>11, <1>12

\* A call of Emulate8085Op of a processor that is not halted.
LEMMA EmulateMoves ==
  ASSUME StackSize > 1, NEW image, \A x \in DOMAIN image : image[x] \in Instruction,
         NEW c, Unasked(c), c.hlt_enable # 1, NEW taken
  PROVE  Moves(Fetch(image, c.pc), c, Emulate8085Op(image, c, taken))
<1> DEFINE e == [c EXCEPT !.hlt_enable = 0]
           i == Fetch(image, c.pc)
           f == Execute(e, i, taken)
           g == [f EXCEPT !.int_enable_delay = IF @ > 0 THEN @ - 1 ELSE 0]
           h == [g EXCEPT !.int_enable = IF f.int_enable_delay = 1 THEN 1 ELSE @]
<1>1. Unasked(e) /\ e.pc = c.pc /\ e.sp = c.sp
  BY DEF Unasked
<1>2. i \in Instruction
  BY DEF Fetch, Nop, Instruction
<1>3. Emulate8085Op(image, c, taken) = EndDelay(f)
  BY <1>1, NothingWins DEF Emulate8085Op, StaysHalted, Entered, Current
<1> HIDE DEF e, i
<1>4. Moves(i, e, f)
  BY <1>1, <1>2, ExecuteMoves
<1>5. EndDelay(f) = h
  BY <1>4 DEF EndDelay, Moves, Unasked
<1> HIDE DEF f
<1>6. Unasked(g) /\ g.pc = f.pc /\ g.sp = f.sp
  BY <1>4 DEF Moves, Unasked
<1> HIDE DEF g
<1>7. Unasked(h) /\ h.pc = f.pc /\ h.sp = f.sp
  BY <1>6 DEF Unasked
<1> HIDE DEF h
<1>8. Moves(i, c, h)
  BY <1>1, <1>4, <1>7 DEF Moves, Stays
<1>9. QED
  BY <1>3, <1>5, <1>8 DEF i


\* Folding over nothing.
LEMMA NothingScheduled ==
  ASSUME irqs = <<>>, nextIRQ = 0
  PROVE  Scheduled = cpu
<1> DEFINE op(x, c) == triggerInterrupt(c, x.code, 1)
           todo == SubSeq(irqs, nextIRQ + 1, IRQsAfter)
           IsFold(g) == g = [s \in SUBSET {} |->
                               IF s = {} THEN cpu ELSE op(todo[Max(s)], g[s \ {Max(s)}])]
           fold == CHOOSE g : IsFold(g)
<1>1. DOMAIN todo = {}
  <2>1. DueIRQs = {}
    BY DEF DueIRQs
  <2>2. IRQsAfter = 0
    BY <2>1, FS_EmptySet DEF IRQsAfter
  <2>3. QED
    BY <2>2
<1>2. Scheduled = fold[{}]
  BY <1>1 DEF Scheduled, FoldLeft, MapThenFoldSet
<1> HIDE DEF op, todo
<1>3. IsFold([s \in SUBSET {} |-> cpu])
  OBVIOUS
<1>4. IsFold(fold)
  BY <1>3
<1> HIDE DEF fold
<1>5. QED
  BY <1>2, <1>4


LEMMA NothingDriven ==
  ASSUME NEW c, NEW level \in [{} -> Bit]
  PROVE  Driven(c, level) = c
<1> DEFINE op(code, d) == triggerInterrupt(d, code, level[code])
           any(s) == CHOOSE x \in s : TRUE
           IsFold(g) == g = [s \in SUBSET {} |->
                               IF s = {} THEN c ELSE op(any(s), g[s \ {any(s)}])]
           fold == CHOOSE g : IsFold(g)
<1>1. Driven(c, level) = fold[{}]
  BY DEF Driven, FoldSet, MapThenFoldSet
<1> HIDE DEF op, any
<1>2. IsFold([s \in SUBSET {} |-> c])
  OBVIOUS
<1>3. IsFold(fold)
  BY <1>2
<1> HIDE DEF fold
<1>4. QED
  BY <1>1, <1>3

LEMMA NothingFired ==
  ASSUME cfg.timers = <<>>, NEW c, NEW now
  PROVE  Fired(c, now) = c
<1> DEFINE timers == [t \in DOMAIN cfg.timers |-> t]
           op(t, d) == IF Periods(t, now) > 0 THEN triggerInterrupt(d, cfg.timers[t].code, 1) ELSE d
           IsFold(g) == g = [s \in SUBSET {} |->
                               IF s = {} THEN c ELSE op(timers[Max(s)], g[s \ {Max(s)}])]
           fold == CHOOSE g : IsFold(g)
<1>1. DOMAIN timers = {}
  OBVIOUS
<1>2. Fired(c, now) = fold[{}]
  BY <1>1 DEF Fired, FoldLeft, MapThenFoldSet
<1> HIDE DEF op, timers
<1>3. IsFold([s \in SUBSET {} |-> c])
  OBVIOUS
<1>4. IsFold(fold)
  BY <1>3
<1> HIDE DEF fold
<1>5. QED
  BY <1>2, <1>4

\* While such a run goes on the processor is not halted, and where it stands as it stood
\* an iteration ago it stands at a jump to itself.
IdleInv ==
  /\ cfg \in Scenarios
  /\ Quiet =>
       /\ irqs = <<>> /\ nextIRQ = 0
       /\ Unasked(cpu)
       /\ reason = "running" => /\ ~halted /\ cpu.hlt_enable # 1
                                /\ (cpu.pc = lastPC /\ cpu.sp = lastSP => SelfJump)
       /\ reason = "hlt" => cpu.hlt_enable = 1
       /\ reason = "loop" => SelfJump

\* A run does not start where the loop's memory of the last pc and sp starts.
EntryElsewhere == ~(EntryPc = AddrSize - 1 /\ EntrySp = StackSize - 1)

LEMMA IdleInit == EntryElsewhere /\ Init => IdleInv
<1> SUFFICES ASSUME EntryElsewhere, Init PROVE IdleInv
  OBVIOUS
<1>1. Unasked(cpu) /\ cpu.hlt_enable # 1
  BY RunAssumption, AddrSizeAssumption DEF Init, Reset8085, Unasked, Addr
<1>2. ~(cpu.pc = lastPC /\ cpu.sp = lastSP) /\ ~halted /\ reason = "running" /\ nextIRQ = 0
  BY DEF Init, Reset8085, EntryElsewhere
<1>3. Quiet => irqs = <<>>
  <2> SUFFICES ASSUME cfg.irqs = <<>> PROVE irqs = <<>>
    BY DEF Quiet
  <2>1. irqs \in Seq(Nat) /\ DOMAIN irqs = {}
    <3>1. irqs \in Sorted(<<>>) /\ <<>> \in Seq(Nat)
      BY DEF Init
    <3>2. irqs \in Seq(Nat)
      BY <3>1, SortedForm
    <3>3. DOMAIN irqs = {}
      BY <3>1 DEF Sorted
    <3>4. QED
      BY <3>2, <3>3
  <2>2. QED
    BY <2>1
<1>4. QED
  BY <1>1, <1>2, <1>3 DEF IdleInv, Init

LEMMA ExecutionIdles ==
  ASSUME StackSize > 1, IdleInv, NEW taken, NEW level \in [cfg.pins -> Bit], Execution(taken, level)
  PROVE  IdleInv'
<1> SUFFICES ASSUME Quiet, cfg' = cfg, irqs' = irqs
             PROVE  /\ nextIRQ' = 0 /\ Unasked(cpu')
                    /\ reason' = "running" => /\ ~halted' /\ cpu'.hlt_enable # 1
                                              /\ (cpu'.pc = lastPC' /\ cpu'.sp = lastSP' => SelfJump')
                    /\ reason' = "hlt" => cpu'.hlt_enable = 1
                    /\ reason' # "loop"
  BY DEF IdleInv, Execution, config, Quiet
<1>1. /\ cfg.irqs = <<>> /\ cfg.timers = <<>> /\ cfg.pins = {} /\ irqs = <<>> /\ nextIRQ = 0
      /\ Unasked(cpu) /\ cfg \in Scenarios
  BY DEF Quiet, IdleInv
<1>2. Driven(Scheduled, level) = cpu
  BY <1>1, NothingScheduled, NothingDriven
<1> DEFINE after == Emulate8085Op(cfg.image, cpu, taken)
           i == Fetch(cfg.image, cpu.pc)
<1>3. cpu' = after
  BY <1>1, <1>2, NothingFired DEF Execution
<1>4. /\ halted' = (after.hlt_enable = 1)
      /\ reason' = IF halted' /\ ~HasFutureIRQ /\ cfg.timers = <<>> THEN "hlt" ELSE "running"
      /\ nextIRQ' = IRQsAfter /\ lastPC' = cpu.pc /\ lastSP' = cpu.sp /\ reason = "running"
  BY <1>2 DEF Execution, InLoop
<1>5. IRQsAfter = 0 /\ ~HasFutureIRQ
  <2>1. DueIRQs = {}
    BY <1>1 DEF DueIRQs
  <2>2. IRQsAfter = 0
    BY <1>1, <2>1, FS_EmptySet DEF IRQsAfter
  <2>3. QED
    BY <1>1, <2>2 DEF HasFutureIRQ
<1>6. Moves(i, cpu, after)
  <2>1. \A x \in DOMAIN cfg.image : cfg.image[x] \in Instruction
    BY <1>1, ScenariosAssumption DEF IsScenario
  <2>2. cpu.hlt_enable # 1
    BY <1>4 DEF IdleInv
  <2>3. QED
    BY <1>1, <2>1, <2>2, EmulateMoves
<1> HIDE DEF after
<1>7. cpu'.pc = lastPC' /\ cpu'.sp = lastSP' => SelfJump'
  BY <1>3, <1>4, <1>6 DEF Moves, Stays, SelfJump
<1>8. QED
  BY <1>1, <1>3, <1>4, <1>5, <1>6, <1>7 DEF Moves

LEMMA IdleNext == StackSize > 1 /\ IdleInv /\ [Next]_vars => IdleInv'
<1> SUFFICES ASSUME StackSize > 1, IdleInv, [Next]_vars PROVE IdleInv'
  OBVIOUS
<1>1. CASE Iterate
  BY <1>1, ExecutionIdles DEF Iterate
<1>2. ASSUME NEW why, why \notin {"running", "hlt"}, StopBecause(why), why = "loop" => InfiniteLoop
      PROVE  IdleInv'
  <2>1. /\ cfg' = cfg /\ irqs' = irqs /\ cpu' = Scheduled /\ nextIRQ' = IRQsAfter
        /\ reason' = why /\ reason = "running" /\ cfg \in Scenarios
    BY <1>2 DEF StopBecause, InLoop, config, IdleInv
  <2> SUFFICES ASSUME Quiet
               PROVE  cpu' = cpu /\ nextIRQ' = 0 /\ (why = "loop" => SelfJump)
    BY <1>2, <2>1 DEF IdleInv, Quiet, SelfJump
  <2>2. cpu' = cpu
    BY <2>1, NothingScheduled DEF IdleInv
  <2>3. IRQsAfter = 0
    <3>1. DueIRQs = {}
      BY DEF DueIRQs, IdleInv
    <3>2. QED
      BY <3>1, FS_EmptySet DEF IRQsAfter, IdleInv
  <2>4. why = "loop" => SelfJump
    BY <1>2, <2>1 DEF InfiniteLoop, IdleInv
  <2>5. QED
    BY <2>1, <2>2, <2>3, <2>4
<1>3. CASE StopAtTracepointMax \/ StopAtTracepoints \/ StopAtAddress \/ StopAtLoop
  <2>1. PICK why \in {"tracepoint-max", "tracepoint-stop", "stop", "loop"} :
          StopBecause(why) /\ (why = "loop" => InfiniteLoop)
    BY <1>3 DEF StopAtTracepointMax, StopAtTracepoints, StopAtAddress, StopAtLoop
  <2>2. QED
    BY <1>2, <2>1
<1>4. CASE LimitReached \/ UNCHANGED vars
  BY <1>4 DEF LimitReached, vars, config, IdleInv, Quiet, SelfJump
<1>5. QED
  BY <1>1, <1>3, <1>4 DEF Next, Ended

\* With no source of interrupts, a run that stops because it halted or loops would have
\* done nothing more (IdleStopIsFinal).  The stack of the code has 32768 words, and the
\* top of memory is no place to start a program with the stack at the top as well: there
\* the loop's first comparison finds the values that lastPC and lastSP start with.
THEOREM IdleStopIsFinalHolds ==
  ASSUME StackSize > 1, EntryElsewhere
  PROVE  Spec => []IdleStopIsFinal
<1>1. Init => IdleInv
  BY IdleInit
<1>2. IdleInv /\ [Next]_vars => IdleInv'
  BY IdleNext
<1>3. IdleInv => IdleStopIsFinal
  BY NothingWins DEF IdleInv, IdleStopIsFinal
<1>4. QED
  BY <1>1, <1>2, <1>3, PTL DEF Spec
=============================================================================
