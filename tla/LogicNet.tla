------------------------------ MODULE LogicNet ------------------------------
(***************************************************************************)
(* The settle loop of the wiring engine: Net::step of logic_net.cpp.       *)
(*                                                                         *)
(* Net::step runs between two instructions.  It asks the chips once what   *)
(* they drive (Begin), resolves all nodes and evaluates all gates until    *)
(* nothing changes or the passes run out (Settle), and gives the inputs    *)
(* the levels it found (Deliver).  Levels and gate outputs survive from    *)
(* one call to the next, which is what makes a latch wired from gates      *)
(* work, and what a net without feedback must not show.                    *)
(***************************************************************************)
EXTENDS NetEquations, FiniteSets

CONSTANTS
  Nets,         \* the netlists to explore
  AcyclicNets,  \* those without feedback
  MaxPasses     \* passes of one call, 16 in the code

ASSUME NetsAssumption ==
  /\ \A n \in Nets : IsNet(n)
  /\ AcyclicNets \subseteq Nets /\ \A n \in AcyclicNets : Acyclic(n)
ASSUME PassesAssumption == MaxPasses \in Nat \ {0}

VARIABLES
  net,
  isOutput, drive,   \* direction of every endpoint and what it drives, as last asked
  level, gateOut,    \* level_ and gateOut_
  inputs,            \* what write_input last gave every endpoint, "none" before that
  warnedConflict,    \* the nodes a conflict was reported for
  warnedFloat,       \* the nodes reported as floating
  unstable,          \* warnedOscillation_
  phase, pass, oscillating,
  fought             \* history: the nodes at which settled drivers were in conflict

warnings == <<warnedConflict, warnedFloat>>
vars == <<net, isOutput, drive, level, gateOut, inputs, warnings, unstable, phase, pass,
          oscillating, fought>>

Directions(n) == {d \in [Endpoints(n) -> BOOLEAN] : \A e \in Endpoints(n) : d[e] \in n.roles[e]}
DrivesOf(n, d) ==
  {v \in [Endpoints(n) -> Drive] :
     \A e \in Endpoints(n) : v[e] \in IF d[e] THEN n.drives[e] ELSE {"Z"}}

TypeOK ==
  /\ net \in Nets
  /\ isOutput \in Directions(net)
  /\ drive \in [Endpoints(net) -> Drive]
  /\ level \in [Nodes(net) -> Level]
  /\ gateOut \in [Gates(net) -> Level]
  /\ inputs \in [Endpoints(net) -> Level \cup {"none"}]
  /\ warnedConflict \subseteq Nodes(net)
  /\ warnedFloat \subseteq Nodes(net)
  /\ unstable \in BOOLEAN
  /\ phase \in {"idle", "settle", "deliver"}
  /\ pass \in 0 .. MaxPasses
  /\ oscillating \in BOOLEAN
  /\ fought \subseteq Nodes(net)

\* After a successful bind: every level is unknown.
Init ==
  /\ net \in Nets
  /\ isOutput \in Directions(net)
  /\ drive = [e \in Endpoints(net) |-> "Z"]
  /\ level = [m \in Nodes(net) |-> "X"]
  /\ gateOut = [g \in Gates(net) |-> "X"]
  /\ inputs = [e \in Endpoints(net) |-> "none"]
  /\ warnedConflict = {} /\ warnedFloat = {} /\ unstable = FALSE
  /\ phase = "idle" /\ pass = 0 /\ oscillating = FALSE
  /\ fought = {}

\* Fault: the pass counter is not reset.
Begin_KeepsPass ==
  /\ phase = "idle"
  /\ isOutput' \in Directions(net)
  /\ drive' \in DrivesOf(net, isOutput')
  /\ phase' = "settle" /\ oscillating' = FALSE
  /\ UNCHANGED <<net, level, gateOut, inputs, warnings, unstable, pass, fought>>

\* Directions and drivers are read once, at the start of a call.
Begin ==
  /\ phase = "idle"
  /\ isOutput' \in Directions(net)
  /\ drive' \in DrivesOf(net, isOutput')
  /\ phase' = "settle" /\ pass' = 0 /\ oscillating' = FALSE
  /\ UNCHANGED <<net, level, gateOut, inputs, warnings, unstable, fought>>

\* Fault: conflicts are looked for in the first pass only, before gates follow.
Conflicts_FirstPass ==
  IF pass = 0 THEN {m \in Nodes(net) : Conflict(net, drive, gateOut, m)} ELSE {}

\* What the resolution of this pass reports; a node is reported once.
Conflicts == {m \in Nodes(net) : Conflict(net, drive, gateOut, m)}
Floats == {m \in Nodes(net) : Floating(net, drive, gateOut, m)}

\* Fault: the call gives up one pass early.
OutOfPasses_Early == pass = MaxPasses - 2

OutOfPasses == pass = MaxPasses - 1

\* A pass changed a level, or the output of a gate.
Changed(newLevel) == newLevel # level \/ Outputs(net, newLevel) # gateOut

\* Fault: a net that still changes in the last pass is taken for settled.
StillChanging_Missed(newLevel) == Changed(newLevel) /\ pass = MaxPasses

StillChanging(newLevel) == Changed(newLevel) /\ OutOfPasses

\* One pass: all nodes from the drivers and the gates' old outputs, then all
\* gates from the new levels.
Settle ==
  /\ phase = "settle"
  /\ level' = Levels(net, drive, gateOut)
  /\ gateOut' = Outputs(net, level')
  /\ warnedConflict' = warnedConflict \cup Conflicts
  /\ warnedFloat' = warnedFloat \cup Floats
  /\ oscillating' = StillChanging(level')
  /\ phase' = IF Changed(level') /\ ~OutOfPasses THEN "settle" ELSE "deliver"
  /\ pass' = pass + 1
  /\ UNCHANGED <<net, isOutput, drive, inputs, unstable, fought>>

\* Instability is reported once, and whatever was found is delivered.
Deliver ==
  /\ phase = "deliver"
  /\ unstable' = (unstable \/ oscillating)
  /\ inputs' = [e \in Endpoints(net) |-> IF isOutput[e] THEN inputs[e] ELSE level[net.wire[e]]]
  /\ phase' = "idle"
  /\ fought' = IF oscillating THEN fought
               ELSE fought \cup {m \in Nodes(net) : Conflict(net, drive, Outputs(net, level), m)}
  /\ UNCHANGED <<net, isOutput, drive, level, gateOut, warnings, pass, oscillating>>

Next == Begin \/ Settle \/ Deliver

\* The runtime calls Net::step after every instruction and a call runs to its end.
Spec == Init /\ [][Next]_vars /\ WF_vars(Next)

----------------------------------------------------------------------------
(* Properties *)

\* The engine keeps the promise of WiredNet: what it delivers solves the
\* equations of the netlist, or instability was reported (229-371).
Wired == INSTANCE WiredNet
Implements == Wired!Spec

\* A gate's output is always the one its inputs ask for, between calls and
\* between passes: the loop only ever waits for nodes (340-346, 349).
GatesFollow == gateOut = Outputs(net, level)

\* A net without feedback, of no more gates than the passes allow for, settles
\* whatever it held before, to the levels of its inputs alone (262-357).
AcyclicSettles ==
  net \in AcyclicNets /\ Cardinality(Gates(net)) <= MaxPasses - 2 =>
    /\ ~oscillating
    /\ phase = "deliver" => level = Evaluated(net, drive)

\* Every conflict that the settled drivers of a node have was reported (302-308).
ConflictsReported == fought \subseteq warnedConflict
=============================================================================
