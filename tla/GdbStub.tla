------------------------------ MODULE GdbStub ------------------------------
(***************************************************************************)
(* The GDB stub (gdb_stub.cpp, --gdb) and a debugger on its connection.    *)
(* The stub reads a request, acknowledges and answers it, and waits for    *)
(* the answer's acknowledgement; a continue executes instructions until a  *)
(* breakpoint, and looks for a break of the debugger now and then only.    *)
(*                                                                         *)
(* The connection keeps order and loses nothing until the debugger leaves. *)
(* The debugger has one request at a time under way, acknowledges every    *)
(* answer, sends at most one break while a target it has resumed is        *)
(* running, and may leave at any moment.  The requests that read or write  *)
(* registers or memory are one here, "data": GdbRegisters has them.        *)
(***************************************************************************)
EXTENDS I8085Core, FiniteSets, SequencesExt

CONSTANTS
  Scenarios,         \* programs, timers and driven pins to explore
  EntryPc, EntrySp,  \* --entry and --sp
  Requests,          \* what the debugger may ask: see IsRequest
  PollEvery          \* instructions between two looks at the connection, 1024

None == [op |-> "none"]

\* Without an address s and c go on where the target stands.
IsRequest(r) ==
  \/ r \in [op : {"data", "k", "D"}]
  \/ r.op \in {"s", "c"} /\ r.at \subseteq Addr
  \/ r.op \in {"Z0", "z0"} /\ r.at \in Addr

Resumes(r) == r.op \in {"s", "c"}

\* The part of a scenario of the run loop that --gdb heeds.
IsScenario(s) ==
  /\ \A x \in DOMAIN s.image : s.image[x] \in Instruction
  /\ s.timers \in Seq([code : InterruptCode, periodCycles : Nat \ {0}])
  /\ s.pins \subseteq {45, 55, 65, 75}

ASSUME ScenariosAssumption == \A s \in Scenarios : IsScenario(s)
ASSUME SessionAssumption ==
  /\ EntryPc \in Addr /\ EntrySp \in Slot
  /\ \A r \in Requests : IsRequest(r)
  /\ PollEvery \in Nat \ {0}

VARIABLES
  cfg,          \* the scenario of this behaviour
  m,            \* the target: the processor and, for each timer, the T-states left
  breakpoints, pollCounter,
  phase,        \* where gdb_main is
  toStub,       \* on its way: requests, "+" and "break"
  toClient,     \* on its way: answers and "+"
  asked,        \* the debugger's request that is not answered yet
  broke,        \* it has sent a break since
  open          \* the debugger is there

stub == <<breakpoints, pollCounter, phase>>
client == <<asked, broke, open>>
vars == <<cfg, m, stub, toStub, toClient, client>>

Phases == {"receive", "past", "continue", "ack", "bye", "ended"}

Plus == [op |-> "+"]
Break == [op |-> "break"]
Reply(to, stop) == [op |-> "reply", to |-> to, stop |-> stop]

Init ==
  /\ cfg \in Scenarios
  /\ m = [cpu |-> Reset8085(EntryPc, EntrySp),
          left |-> [t \in DOMAIN cfg.timers |-> cfg.timers[t].periodCycles]]
  /\ breakpoints = {} /\ pollCounter = 0
  /\ phase = "receive"
  /\ toStub = <<>> /\ toClient = <<>>
  /\ asked = None /\ broke = FALSE /\ open = TRUE

----------------------------------------------------------------------------
(* The target *)

\* The late timers' requests, in the order of the command line.
Requested(x) ==
  FoldLeft(LAMBDA c, t : IF x.left[t] <= 0 THEN triggerInterrupt(c, cfg.timers[t].code, 1) ELSE c,
           x.cpu, [t \in DOMAIN cfg.timers |-> t])

\* Fault: a timer that is several periods late catches up one period only.
fire_timers_Once(x) ==
  [cpu |-> Requested(x),
   left |-> [t \in DOMAIN x.left |->
               x.left[t] + IF x.left[t] <= 0 THEN cfg.timers[t].periodCycles ELSE 0]]

fire_timers(x) ==
  LET period(t) == cfg.timers[t].periodCycles
  IN  [cpu |-> Requested(x),
       left |-> [t \in DOMAIN x.left |->
                   IF x.left[t] <= 0 THEN period(t) - ((-x.left[t]) % period(t)) ELSE x.left[t]]]

\* io_runtime_on_step drives the pins.
Driven(x, level) ==
  [x EXCEPT !.cpu = FoldSet(LAMBDA code, c : triggerInterrupt(c, code, level[code]), @, DOMAIN level)]

Emulated(x, taken) ==
  [cpu |-> Emulate8085Op(cfg.image, x.cpu, taken),
   left |-> [t \in DOMAIN x.left |-> x.left[t] - TStates(cfg.image, x.cpu, taken)]]

\* One instruction: timers, plugins, Emulate8085Op, timers.
Executed(x) ==
  LET driven == {Driven(y, level) : y \in {fire_timers(x)}, level \in [cfg.pins -> Bit]}
      done == {Emulated(y, taken) : y \in driven, taken \in BOOLEAN}
  IN  {fire_timers(y) : y \in done}

\* The address of s and c.
Sent(x, at) == IF at = {} THEN x ELSE [x EXCEPT !.cpu.pc = CHOOSE a \in at : TRUE]

----------------------------------------------------------------------------
(* The connection, as the stub sees it *)

\* What is written to a debugger that has left is lost.
Say(messages) == toClient' = IF open THEN toClient \o messages ELSE toClient

\* Fault: the answer's acknowledgement is left for recv_packet to skip.
AwaitAck_Not(last) == phase' = IF last THEN "ended" ELSE "receive"

\* send_packet waits for one byte, unless the write has failed.
AwaitAck(last) ==
  \/ phase' = IF last THEN "bye" ELSE "ack"
  \/ ~open /\ phase' = IF last THEN "ended" ELSE "receive"

\* recv_packet: a request is read and acknowledged, then handled.
Receives(op) ==
  /\ phase = "receive" /\ toStub # <<>> /\ Head(toStub).op = op
  /\ toStub' = Tail(toStub)

Skip ==
  /\ Receives("+")
  /\ UNCHANGED <<cfg, m, stub, toClient, client>>

\* A break outside a continue is answered like a request.
Interrupted ==
  /\ Receives("break")
  /\ Say(<<Reply("break", "S05")>>)
  /\ AwaitAck(FALSE)
  /\ UNCHANGED <<cfg, m, breakpoints, pollCounter, client>>

Answer ==
  /\ Receives("data")
  /\ Say(<<Plus, Reply("data", "none")>>)
  /\ AwaitAck(FALSE)
  /\ UNCHANGED <<cfg, m, breakpoints, pollCounter, client>>

SetBreakpoint ==
  /\ \E op \in {"Z0", "z0"} :
       /\ Receives(op)
       /\ breakpoints' = IF op = "Z0" THEN breakpoints \cup {Head(toStub).at}
                         ELSE breakpoints \ {Head(toStub).at}
       /\ Say(<<Plus, Reply(op, "none")>>)
  /\ AwaitAck(FALSE)
  /\ UNCHANGED <<cfg, m, pollCounter, client>>

StepOne ==
  /\ Receives("s")
  /\ m' \in Executed(Sent(m, Head(toStub).at))
  /\ Say(<<Plus, Reply("s", "S05")>>)
  /\ AwaitAck(FALSE)
  /\ UNCHANGED <<cfg, breakpoints, pollCounter, client>>

\* A continue that starts at a breakpoint has to step past it.
Continue ==
  /\ Receives("c")
  /\ m' = Sent(m, Head(toStub).at)
  /\ phase' = IF m'.cpu.pc \in breakpoints THEN "past" ELSE "continue"
  /\ pollCounter' = 0
  /\ Say(<<Plus>>)
  /\ UNCHANGED <<cfg, breakpoints, client>>

Kill ==
  /\ Receives("k")
  /\ phase' = "ended"
  /\ Say(<<Plus>>)
  /\ UNCHANGED <<cfg, m, breakpoints, pollCounter, client>>

Detach ==
  /\ Receives("D")
  /\ Say(<<Plus, Reply("D", "none")>>)
  /\ AwaitAck(TRUE)
  /\ UNCHANGED <<cfg, m, breakpoints, pollCounter, client>>

\* Whatever byte comes is taken for the acknowledgement; the end of the connection
\* is one as well.
Acknowledged ==
  /\ phase \in {"ack", "bye"}
  /\ toStub # <<>> \/ ~open
  /\ toStub' = IF toStub = <<>> THEN <<>> ELSE Tail(toStub)
  /\ phase' = IF phase = "ack" THEN "receive" ELSE "ended"
  /\ UNCHANGED <<cfg, m, breakpoints, pollCounter, toClient, client>>

\* What a debugger has sent before it left is read, or lost with the connection.
Disconnected ==
  /\ phase = "receive" /\ ~open
  /\ phase' = "ended" /\ toStub' = <<>>
  /\ UNCHANGED <<cfg, m, breakpoints, pollCounter, toClient, client>>

----------------------------------------------------------------------------
(* A continue *)

\* The next address is not compared with the breakpoints.
StepPast ==
  /\ phase = "past"
  /\ m' \in Executed(m)
  /\ phase' = "continue"
  /\ UNCHANGED <<cfg, breakpoints, pollCounter, toStub, toClient, client>>

\* Fault: the breakpoints are compared with the address before the instruction.
AtBreakpoint_Before(x) == m.cpu.pc \in breakpoints

AtBreakpoint(x) == x.cpu.pc \in breakpoints

\* Halted without timers: the stub does not wait for a driven pin to wake it (728).
Sleeps(x) == x.cpu.hlt_enable = 1 /\ cfg.timers = <<>>

PollDue == pollCounter + 1 >= PollEvery

\* Fault: a break is only heeded by a processor that executes.
BreakPolled_Awake ==
  PollDue /\ toStub # <<>> /\ Head(toStub) = Break /\ m.cpu.hlt_enable = 0

BreakPolled == PollDue /\ toStub # <<>> /\ Head(toStub) = Break

\* A byte that is polled and is no break is thrown away.
Polled == IF PollDue /\ toStub # <<>> THEN Tail(toStub) ELSE toStub

StopReason(x) ==
  IF AtBreakpoint(x) \/ Sleeps(x) THEN "S05" ELSE IF BreakPolled THEN "S02" ELSE "none"

Run ==
  /\ phase = "continue"
  /\ m' \in Executed(m)
  /\ \E why \in {StopReason(m')} :
       /\ pollCounter' = IF PollDue \/ why = "S05" THEN 0 ELSE pollCounter + 1
       /\ toStub' = IF why = "S05" THEN toStub ELSE Polled
       /\ IF why = "none" THEN UNCHANGED <<phase, toClient>>
          ELSE Say(<<Reply("c", why)>>) /\ AwaitAck(FALSE)
  /\ UNCHANGED <<cfg, breakpoints, client>>

----------------------------------------------------------------------------
(* The debugger *)

Ask(r) ==
  /\ open /\ asked = None
  /\ asked' = r /\ broke' = FALSE
  /\ toStub' = Append(toStub, r)
  /\ UNCHANGED <<cfg, m, stub, toClient, open>>

\* An answer is acknowledged, whatever it is an answer to.
Hear ==
  /\ open /\ toClient # <<>>
  /\ toClient' = Tail(toClient)
  /\ IF Head(toClient) = Plus THEN UNCHANGED <<toStub, asked, broke>>
     ELSE /\ toStub' = Append(toStub, Plus)
          /\ asked' = None /\ broke' = FALSE
  /\ UNCHANGED <<cfg, m, stub, open>>

BreakIn ==
  /\ open /\ Resumes(asked) /\ ~broke
  /\ broke' = TRUE
  /\ toStub' = Append(toStub, Break)
  /\ UNCHANGED <<cfg, m, stub, toClient, asked, open>>

Leave ==
  /\ open
  /\ open' = FALSE /\ toClient' = <<>>
  /\ UNCHANGED <<cfg, m, stub, toStub, asked, broke>>

----------------------------------------------------------------------------

Stub ==
  \/ Skip \/ Interrupted \/ Answer \/ SetBreakpoint \/ StepOne \/ Continue
  \/ Kill \/ Detach \/ Acknowledged \/ Disconnected \/ StepPast \/ Run

Client == (\E r \in Requests : Ask(r)) \/ Hear \/ BreakIn \/ Leave

Next == Stub \/ Client

\* The stub waits only for the debugger, which reads what it is sent.
Spec == Init /\ [][Next]_vars /\ WF_vars(Stub) /\ WF_vars(Hear)

----------------------------------------------------------------------------
(* Properties *)

\* The packets under way and the states they are in.
TypeOK ==
  /\ cfg \in Scenarios /\ m.cpu \in Cpu
  /\ DOMAIN m.left = DOMAIN cfg.timers
  /\ \A t \in DOMAIN m.left : m.left[t] \in 1 .. cfg.timers[t].periodCycles
  /\ breakpoints \subseteq Addr /\ pollCounter \in 0 .. PollEvery - 1 /\ phase \in Phases
  /\ toStub \in Seq(Requests \cup {Plus, Break})
  /\ toClient \in Seq({Plus} \cup [op : {"reply"}, to : {"break", "data", "s", "c", "D", "Z0", "z0"},
                                 stop : {"none", "S02", "S05"}])
  /\ asked \in Requests \cup {None} /\ broke \in BOOLEAN /\ open \in BOOLEAN

Waiting == {i \in DOMAIN toStub : toStub[i] \in Requests}
Answers == {i \in DOMAIN toClient : toClient[i] # Plus}

\* The debugger's request is in exactly one place, and an answer is one to it: no
\* break that crosses a stop reply, and no acknowledgement it displaces, ever makes
\* the stub answer twice, miss a request or answer an older one (150-162, 177-209, 721-737).
InSync ==
  open /\ phase # "ended" =>
    /\ \A i \in Answers : toClient[i].to = asked.op
    /\ Cardinality(Waiting) + Cardinality(Answers) + (IF phase \in {"past", "continue"} THEN 1 ELSE 0)
         = (IF asked = None THEN 0 ELSE 1)

\* A stop reply tells the truth while it is under way: the target stands at a breakpoint
\* or is halted with no timer to wake it (a driven pin still might, had the continue
\* gone on), or the debugger has asked it to stop (712-737).
StopsTrue ==
  \A i \in Answers :
    LET answer == toClient[i]
    IN  /\ answer.to = "c" /\ answer.stop = "S05" => AtBreakpoint(m) \/ Sleeps(m)
        /\ answer.stop = "S02" => broke

\* The run loop on the same target, which main.cpp (1004-1020) has in another form.
Loop == INSTANCE RunLoop WITH
  MaxSteps <- 0, irqs <- <<>>, cpu <- m.cpu, step <- 0, nextIRQ <- 0, halted <- FALSE,
  lastPC <- 0, lastSP <- 0, total <- 0, nextTrigger <- m.left, hits <- <<>>, reason <- "running"

\* The target as the run loop leaves it after an instruction at pc.
FollowsRunLoop(pc) ==
  \E taken \in BOOLEAN, level \in [cfg.pins -> Bit] :
    \E before \in {Loop!Driven([m.cpu EXCEPT !.pc = pc], level)} :
    \E now \in {TStates(cfg.image, before, taken)} :
      /\ m'.cpu = Loop!Fired(Emulate8085Op(cfg.image, before, taken), now)
      /\ m'.left = [t \in DOMAIN m.left |->
                      m.left[t] + Loop!Periods(t, now) * cfg.timers[t].periodCycles - now]

\* The target moves only while the debugger waits for it, and then as it would in a
\* run without a debugger: timers, pins and interrupts included (690-711, 213-220).
Undisturbed ==
  [][m' # m =>
       /\ Resumes(asked)
       /\ \E pc \in {m.cpu.pc} \cup UNION {r.at : r \in {q \in Requests : Resumes(q)}} :
            FollowsRunLoop(pc) \/ m' = [m EXCEPT !.cpu.pc = pc]]_vars

\* Every request but a continue is answered, and so is a continue the debugger breaks
\* into, wherever the break finds the stub (727-737).
Answered ==
  (asked.op \notin {"none", "c", "k"} \/ (asked.op = "c" /\ broke))
    ~> (asked = None \/ ~open \/ phase = "ended")
=============================================================================
