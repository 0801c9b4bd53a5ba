------------------------------ MODULE WiredNet ------------------------------
(***************************************************************************)
(* What the wiring engine promises: between two instructions the inputs of *)
(* the board are given levels that solve the equations of the netlist for  *)
(* the drivers of that moment.  A net that finds no stable levels is       *)
(* reported, once, and its inputs may be given any.                        *)
(***************************************************************************)
EXTENDS NetEquations

CONSTANT Nets      \* the netlists to explore

VARIABLES
  net,         \* the netlist
  isOutput,    \* direction of every endpoint at this moment
  drive,       \* what every output endpoint drives
  inputs,      \* the level every endpoint was last given, "none" before the first
  unstable     \* an unstable net has been reported

vars == <<net, isOutput, drive, inputs, unstable>>

\* Directions and drivers that the pins of a netlist can have.
Directions(n) == {d \in [Endpoints(n) -> BOOLEAN] : \A e \in Endpoints(n) : d[e] \in n.roles[e]}
Drives(n, d) == {v \in [Endpoints(n) -> Drive] :
                   \A e \in Endpoints(n) : v[e] \in IF d[e] THEN n.drives[e] ELSE {"Z"}}

\* The levels given to the endpoints that are inputs.
Delivered(level) ==
  [e \in Endpoints(net) |-> IF isOutput[e] THEN inputs[e] ELSE level[net.wire[e]]]

Init ==
  /\ net \in Nets
  /\ isOutput \in Directions(net)
  /\ drive = [e \in Endpoints(net) |-> "Z"]
  /\ inputs = [e \in Endpoints(net) |-> "none"]
  /\ unstable = FALSE

\* The chips change what they drive.
Sample ==
  /\ isOutput' \in Directions(net)
  /\ drive' \in Drives(net, isOutput')
  /\ UNCHANGED <<net, inputs, unstable>>

Deliver ==
  /\ \E level \in [Nodes(net) -> Level] :
       Solution(net, drive, level) /\ inputs' = Delivered(level)
  /\ UNCHANGED <<net, isOutput, drive, unstable>>

Unstable ==
  /\ unstable' = TRUE
  /\ \E level \in [Nodes(net) -> Level] : inputs' = Delivered(level)
  /\ UNCHANGED <<net, isOutput, drive>>

Next == Sample \/ Deliver \/ Unstable

Spec == Init /\ [][Next]_vars
=============================================================================
