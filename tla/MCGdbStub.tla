----------------------------- MODULE MCGdbStub -----------------------------
(* Targets and requests for GdbStub. *)
EXTENDS GdbStub, TLC

I(op) == [op |-> op]
IA(op, arg) == [op |-> op, arg |-> arg]

\* A loop that may halt, and the handlers of RST 7.5 and of two RST instructions.
Program ==
  (64 :> I("EI")) @@ (65 :> IA("JCC", 69)) @@ (68 :> I("HLT")) @@ (69 :> IA("JMP", 65))
    @@ (60 :> I("EI")) @@ (61 :> I("RET")) @@ (8 :> I("RET")) @@ (16 :> IA("JMP", 65))

Timer(code, period) == [code |-> code, periodCycles |-> period]

MCScenarios ==
  {[image |-> Program, timers |-> <<Timer(75, 7)>>, pins |-> {}],
   \* Both timers are late at once now and then.
   [image |-> Program, timers |-> <<Timer(2, 5), Timer(1, 10)>>, pins |-> {}],
   [image |-> Program, timers |-> <<>>, pins |-> {75}]}

MCRequests ==
  [op : {"data", "k", "D"}]
    \cup {[op |-> "s", at |-> {}]} \cup [op : {"c"}, at : {{}, {69}}]
    \cup [op : {"Z0"}, at : {65, 68}] \cup [op : {"z0"}, at : {65}]
=============================================================================
