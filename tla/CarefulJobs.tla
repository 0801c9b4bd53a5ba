---------------------------- MODULE CarefulJobs ----------------------------
(***************************************************************************)
(* Jobs that an interrupt cannot disturb, by a discipline that can be      *)
(* checked without running them interrupted.                               *)
(*                                                                         *)
(* The program: no instruction reads a byte that a handler may have        *)
(* spoiled, which are the bytes below the stack pointer at every point     *)
(* where interrupts are on and the handler's own variables.  It is checked *)
(* along the undisturbed run, the trail.                                   *)
(*                                                                         *)
(* The handler: every path through its code gives the registers it changes *)
(* back.  It is checked as a type checker would, instruction by            *)
(* instruction: a frame says for each address of the code what the         *)
(* registers and the pushed words hold then.                               *)
(***************************************************************************)
EXTENDS InstructionSet

CONSTANT Careful   \* jobs with their trail and their handler's frames: see IsCareful

\* The byte n below the stack pointer sp.
Below(sp, n) == (sp - n) % 65536

\* EI has been executed and not been taken back.
Open(s) == s.int_enable = 1 \/ s.int_enable_delay > 0

----------------------------------------------------------------------------
(* The program *)

\* The bytes the next instruction may read, its own included.
Reads(s, beyond) ==
  LET opcode == Read(s, s.pc)
      word == PeekWord(s, s.pc + 1, beyond)
  IN  {s.pc, s.pc + 1, s.pc + 2} \cup
      CASE opcode = 10 -> {BC(s)}
        [] opcode = 26 -> {DE(s)}
        [] opcode = 42 -> {word, word + 1}
        [] opcode = 58 -> {word}
        [] opcode \in {52, 53} \/ (opcode \in 64 .. 191 /\ opcode % 8 = 6) -> {HL(s)}
        [] opcode \in {193, 201, 209, 225, 227} \/ (opcode > 191 /\ opcode % 8 = 0) ->
             {s.sp, s.sp + 1}
        [] opcode = 237 -> {DE(s), DE(s) + 1}
        [] opcode = 241 -> {s.sp, (s.sp + 1) % 65536}
        [] OTHER -> {}

\* PUSH, CALL, its conditional forms, RST and RSTV.
Pushes == {197, 203, 205, 213, 229, 245} \cup {x \in 192 .. 255 : x % 8 \in {4, 7}}

\* The bytes it has pushed, after which the machine is t.
Pushed(s, t) ==
  {x \in {Below(s.sp, 1), Below(s.sp, 2)} :
     Read(s, s.pc) \in Pushes /\ t.sp # s.sp /\ ~Protected(x)}

\* The return address and the words that a handler may push at s.
Slots(c, s) == {Below(s.sp, i) : i \in 1 .. 2 + 2 * c.depth}

\* The bytes of the handler's code.
Routine(c) == UNION {{p, p + 1, p + 2} : p \in DOMAIN c.frames}

\* Where interrupts are on, the stack has room for the handler and its code is in place.
Room(c, e) ==
  /\ Slots(c, e.at) \cup c.scratch \subseteq e.hidden
  /\ \A x \in Slots(c, e.at) : ~Protected(x) /\ x \notin c.scratch
  /\ \A k \in 1 .. 1 + c.depth : Below(e.at.sp, 2 * k) # 65535
  /\ \A x \in Routine(c) : x \notin e.hidden /\ Read(e.at, x) = Read(Reset(c.job), x)

\* From a point e of the trail the program goes on to another one, f.
GoesOn(c, e, beyond) ==
  /\ Reads(e.at, beyond) \cap e.hidden = {}
  /\ \E f \in c.trail : /\ f.at = Emulate8085Op(e.at, beyond)
                        /\ e.hidden \ Pushed(e.at, f.at) \subseteq f.hidden

\* A trail holds every state of the undisturbed run, with the bytes a handler may have
\* spoiled by then.  Those are its own variables, or below the stack, and no results.
IsTrail(c) ==
  /\ \E e \in c.trail : e.at = Reset(c.job)
  /\ \A e \in c.trail :
       /\ e.at.hlt_enable = 0 => e.at.pc \notin e.hidden
       /\ e.at.hlt_enable = 0 /\ Read(e.at, e.at.pc) \notin Elsewhere =>
            \A beyond \in Beyond : GoesOn(c, e, beyond)
       /\ Open(e.at) => Room(c, e)
       /\ e.at.hlt_enable = 1 => DOMAIN c.job.want \cap e.hidden = {}
       /\ \A x \in e.hidden : x \in c.job.private \/ (e.at.sp - 1 - x) % 65536 < StackReach

\* Undisturbed, the job has at its HLT what it was to compute.
RightAlone(c) ==
  \A e \in c.trail :
    e.at.hlt_enable = 1 => \A x \in DOMAIN c.job.want : Read(e.at, x) = c.job.want[x]

----------------------------------------------------------------------------
(* The handler *)

\* What a pair held before the interrupt is named by the pair's number: BC, DE, HL, and
\* the accumulator with the flags.
Names == 0 .. 3
Unknown == 4

IsFrame(f) ==
  /\ f.size \in Nat
  /\ f.stack \in [1 .. f.size -> Names \cup {Unknown}]
  /\ f.regs \in [Names -> Names \cup {Unknown}]

\* The handler goes on at q, where no more is claimed than what is known.
Leads(c, q, size, stack, regs) ==
  /\ q \in DOMAIN c.frames
  /\ c.frames[q].size = size
  /\ \A k \in 1 .. size : c.frames[q].stack[k] \in {stack[k], Unknown}
  /\ \A n \in Names : c.frames[q].regs[n] \in {regs[n], Unknown}

\* The pair a register belongs to, by their numbers in an opcode.
PairWith(n) == IF n = 7 THEN 3 ELSE n \div 2

\* Instructions that compute registers from registers and memory, and then go on.
Calm ==
  ((0 .. 63) \ ({2, 18, 32, 34, 59} \cup 48 .. 54)) \cup (64 .. 111) \cup (120 .. 191)
    \cup {x \in 192 .. 255 : x % 8 = 6} \cup {235, 237}

Length(opcode) ==
  CASE opcode \in {1, 17, 33, 42, 58} -> 3
    [] opcode \in {40, 56} \/ (opcode \notin 64 .. 191 /\ opcode % 8 = 6) -> 2
    [] OTHER -> 1

\* The pairs they may change.
FirstQuarterChanges(y, z) ==
  CASE z = 0 -> (CASE y \in {1, 2} -> {2, 3} [] y = 3 -> {1, 3} [] y \in {5, 7} -> {1} [] OTHER -> {})
    [] z = 1 -> IF y % 2 = 0 THEN {y \div 2} ELSE {2, 3}
    [] z = 2 -> IF y = 5 THEN {2} ELSE {3}
    [] z = 3 -> {y \div 2, 3}
    [] z \in {4, 5} -> {PairWith(y), 3}
    [] z = 6 -> {PairWith(y)}
    [] OTHER -> {3}

Changes(opcode) ==
  CASE opcode < 64 -> FirstQuarterChanges((opcode \div 8) % 8, opcode % 8)
    [] opcode \in 64 .. 127 -> {PairWith((opcode \div 8) % 8)}
    [] opcode = 235 -> {1, 2}
    [] opcode = 237 -> {2}
    [] OTHER -> {3}

\* What is known of pair n after POP of a word: the flags come back only from the flags.
Popped(n, word) == IF n = 3 /\ word # 3 THEN Unknown ELSE word

\* The instruction of the handler at p keeps track of what the handler has saved.
Keeps(c, p) ==
  LET f == c.frames[p]
      opcode == Read(Reset(c.job), p)
      word == 256 * Read(Reset(c.job), p + 2) + Read(Reset(c.job), p + 1)
      pair == (opcode \div 16) % 4
  IN  CASE opcode \in Calm ->
             Leads(c, p + Length(opcode), f.size, f.stack,
                   [n \in Names |-> IF n \in Changes(opcode) THEN Unknown ELSE f.regs[n]])
        [] opcode \in {197, 213, 229, 245} ->
             /\ f.size < c.depth
             /\ Leads(c, p + 1, f.size + 1,
                      [k \in 1 .. f.size + 1 |-> IF k > f.size THEN f.regs[pair] ELSE f.stack[k]],
                      f.regs)
        [] opcode \in {193, 209, 225, 241} ->
             /\ f.size > 0
             /\ Leads(c, p + 1, f.size - 1, f.stack,
                      [f.regs EXCEPT ![pair] = Popped(pair, f.stack[f.size])])
        [] opcode = 227 ->
             /\ f.size > 0
             /\ Leads(c, p + 1, f.size, [f.stack EXCEPT ![f.size] = f.regs[2]],
                      [f.regs EXCEPT ![2] = f.stack[f.size]])
        [] opcode = 34 -> {word, word + 1} \subseteq c.scratch /\ Leads(c, p + 3, f.size, f.stack, f.regs)
        [] opcode = 50 -> word \in c.scratch /\ Leads(c, p + 3, f.size, f.stack, f.regs)
        [] opcode \in {243, 251} -> Leads(c, p + 1, f.size, f.stack, f.regs)
        [] opcode = 195 -> Leads(c, word, f.size, f.stack, f.regs)
        [] opcode \in {221, 253} \cup {x \in 192 .. 255 : x % 8 = 2} ->
             Leads(c, word, f.size, f.stack, f.regs) /\ Leads(c, p + 3, f.size, f.stack, f.regs)
        [] opcode = 201 -> f.size = 0 /\ \A n \in Names : f.regs[n] = n
        [] OTHER -> FALSE

\* Where an opcode has its operands in memory.
Inner == {p \in Word : p + 2 \in Word}

\* The handler starts at its vector with everything in place, and does not just return.
IsHandler(c) ==
  /\ 60 \in DOMAIN c.frames /\ Read(Reset(c.job), 60) # 201
  /\ c.frames[60].size = 0 /\ \A n \in Names : c.frames[60].regs[n] = n
  /\ \A p \in DOMAIN c.frames : p \in Inner /\ IsFrame(c.frames[p]) /\ Keeps(c, p)

IsCareful(c) ==
  /\ c.scratch \subseteq Word /\ c.depth \in 0 .. 1000
  /\ IsTrail(c) /\ IsHandler(c)

ASSUME CarefulAssumption == \A c \in Careful : IsCareful(c)
============================================================================
