---------------------------- MODULE NetEquations ----------------------------
(***************************************************************************)
(* A netlist of the wiring engine (logic_net.cpp) and the equations that   *)
(* its nodes and gates obey.                                               *)
(*                                                                         *)
(* A net is a record: pull gives every node its pull resistor, wire the    *)
(* node of every endpoint (a pin of a chip or of the processor), gates the *)
(* type, the input nodes and the output node of every gate.  What the      *)
(* owner of an endpoint may do with it belongs to the net as well: roles   *)
(* has the directions it may have (TRUE for an output), drives what it may *)
(* drive as an output.  Reading a net from its text is not modelled.       *)
(***************************************************************************)
EXTENDS Naturals, Sequences

Level == {"0", "1", "X"}
Drive == {"0", "1", "Z"}
Pull == {"none", "up", "down"}
GateType == {"inv", "buf", "and", "or", "nand", "nor"}

IsNet(n) ==
  /\ n.pull \in [DOMAIN n.pull -> Pull]
  /\ n.wire \in [DOMAIN n.wire -> DOMAIN n.pull]
  /\ n.roles \in [DOMAIN n.wire -> SUBSET BOOLEAN]
  /\ n.drives \in [DOMAIN n.wire -> SUBSET Drive]
  /\ n.gates \in Seq([type : GateType, ins : Seq(DOMAIN n.pull) \ {<<>>}, out : DOMAIN n.pull])

Nodes(n) == DOMAIN n.pull
Endpoints(n) == DOMAIN n.wire
Gates(n) == DOMAIN n.gates

Not(v) == CASE v = "0" -> "1" [] v = "1" -> "0" [] OTHER -> "X"

\* AND of a set of levels: a 0 decides, else an unknown input makes it unknown.
AllHigh(in) == IF "0" \in in THEN "0" ELSE IF "X" \in in THEN "X" ELSE "1"
AnyHigh(in) == IF "1" \in in THEN "1" ELSE IF "X" \in in THEN "X" ELSE "0"

\* An inverter or buffer with several inputs yields an unknown level.
evalGate(gate, level) ==
  LET in == {level[gate.ins[i]] : i \in DOMAIN gate.ins}
      only == IF Len(gate.ins) = 1 THEN level[gate.ins[1]] ELSE "X"
  IN  CASE gate.type = "inv" -> Not(only)
        [] gate.type = "buf" -> only
        [] gate.type = "and" -> AllHigh(in)
        [] gate.type = "or" -> AnyHigh(in)
        [] gate.type = "nand" -> Not(AllHigh(in))
        [] gate.type = "nor" -> Not(AnyHigh(in))

\* What drives a node: the endpoints that are outputs, and the gates.
PinsAt(n, drive, node) == {drive[e] : e \in {x \in Endpoints(n) : n.wire[x] = node}}
GatesAt(n, gateOut, node) == {gateOut[g] : g \in {x \in Gates(n) : n.gates[x].out = node}}

\* Two settled drivers push opposite values.
Conflict(n, drive, gateOut, node) ==
  {"0", "1"} \subseteq PinsAt(n, drive, node) \cup GatesAt(n, gateOut, node)

\* Nothing drives the node and nothing pulls it.
Floating(n, drive, gateOut, node) ==
  /\ PinsAt(n, drive, node) \subseteq {"Z"} /\ GatesAt(n, gateOut, node) = {}
  /\ n.pull[node] = "none"

\* The level of a node from its drivers: a conflict or an unknown gate output
\* makes it unknown, a driver decides, and without one the pull does.
Resolve(n, drive, gateOut, node) ==
  LET drivers == PinsAt(n, drive, node) \cup GatesAt(n, gateOut, node)
  IN  IF Conflict(n, drive, gateOut, node) \/ "X" \in drivers THEN "X"
      ELSE IF "0" \in drivers THEN "0"
      ELSE IF "1" \in drivers THEN "1"
      ELSE CASE n.pull[node] = "up" -> "1"
             [] n.pull[node] = "down" -> "0"
             [] n.pull[node] = "none" -> "X"

Levels(n, drive, gateOut) == [node \in Nodes(n) |-> Resolve(n, drive, gateOut, node)]
Outputs(n, level) == [g \in Gates(n) |-> evalGate(n.gates[g], level)]

\* The levels that satisfy every equation of the net at once.
Solution(n, drive, level) == level = Levels(n, drive, Outputs(n, level))

----------------------------------------------------------------------------
(* Nets without feedback *)

\* Every set of nodes has one that no gate feeds from within the set.
Acyclic(n) ==
  \A nodes \in SUBSET Nodes(n) \ {{}} : \E m \in nodes :
    \A g \in Gates(n) : n.gates[g].out = m =>
      \A i \in DOMAIN n.gates[g].ins : n.gates[g].ins[i] \notin nodes

\* The levels of such a net by recursion on the gates in front of a node: the
\* reference that the iteration of the code is compared with.
Evaluated(n, drive) ==
  LET value[node \in Nodes(n)] ==
        Resolve(n, drive, [g \in Gates(n) |-> evalGate(n.gates[g], value)], node)
  IN  [node \in Nodes(n) |-> value[node]]
=============================================================================
