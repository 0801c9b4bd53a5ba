--------------------------- MODULE LogicNet_proofs ---------------------------
(***************************************************************************)
(* Theorems about the wiring engine, for every netlist, every number of    *)
(* passes and everything the chips may drive.                              *)
(*                                                                         *)
(* The invariant behind them is GatesFollow: gate outputs always fit the   *)
(* levels.  A pass that changes nothing has therefore found levels that    *)
(* follow from the gates' outputs and gate outputs that follow from the    *)
(* levels, which is a solution.  For a net without feedback SettledBehind  *)
(* adds where a change may still be under way: at the end of a path of as  *)
(* many gates as passes were made, of which there are none in the end.     *)
(***************************************************************************)
EXTENDS LogicNet, FiniteSetTheorems, TLAPS

\* What a netlist says of a gate.
LEMMA GateShape ==
  ASSUME NEW n \in Nets
  PROVE  /\ Gates(n) = 1 .. Len(n.gates) /\ Len(n.gates) \in Nat
         /\ \A g \in Gates(n) : /\ n.gates[g].type \in GateType
                                /\ n.gates[g].ins \in Seq(Nodes(n)) /\ n.gates[g].ins # <<>>
                                /\ n.gates[g].out \in Nodes(n)
<1> DEFINE Gate == [type : GateType, ins : Seq(Nodes(n)) \ {<<>>}, out : Nodes(n)]
<1>1. n.gates \in Seq(Gate)
  BY NetsAssumption DEF IsNet, Nodes
<1>2. \A g \in Gate : /\ g.type \in GateType /\ g.out \in Nodes(n)
                      /\ g.ins \in Seq(Nodes(n)) /\ g.ins # <<>>
  OBVIOUS
<1> HIDE DEF Gate
<1>3. Gates(n) = 1 .. Len(n.gates) /\ Len(n.gates) \in Nat
  BY <1>1 DEF Gates
<1>4. \A g \in Gates(n) : n.gates[g] \in Gate
  BY <1>1, <1>3
<1>5. QED
  BY <1>2, <1>3, <1>4

\* A netlist has finitely many gates.
LEMMA FiniteGates ==
  ASSUME NEW n \in Nets
  PROVE  IsFiniteSet(Gates(n)) /\ Cardinality(Gates(n)) \in Nat
<1>1. Gates(n) = 1 .. Len(n.gates) /\ Len(n.gates) \in Nat
  BY GateShape
<1>2. IsFiniteSet(1 .. Len(n.gates))
  BY <1>1, FS_Interval
<1>3. QED
  BY <1>1, <1>2, FS_CardinalityType

\* The inputs of a gate are nodes.
LEMMA InputsAreNodes ==
  ASSUME NEW n \in Nets, NEW g \in Gates(n), NEW i \in DOMAIN n.gates[g].ins
  PROVE  n.gates[g].ins[i] \in Nodes(n)
<1>1. n.gates[g].ins \in Seq(Nodes(n))
  BY GateShape
<1>2. QED
  BY <1>1

\* A gate of unknown inputs has an unknown output, whatever its type.
LEMMA UnknownGate ==
  ASSUME NEW n \in Nets, NEW g \in Gates(n)
  PROVE  evalGate(n.gates[g], [m \in Nodes(n) |-> "X"]) = "X"
<1> DEFINE gate == n.gates[g]
           unknown == [m \in Nodes(n) |-> "X"]
           in == {unknown[gate.ins[i]] : i \in DOMAIN gate.ins}
           only == IF Len(gate.ins) = 1 THEN unknown[gate.ins[1]] ELSE "X"
<1>1. gate.type \in GateType /\ gate.ins \in Seq(Nodes(n)) /\ gate.ins # <<>>
  BY GateShape
<1>2. \A i \in DOMAIN gate.ins : unknown[gate.ins[i]] = "X"
  BY <1>1
<1>3. in = {"X"}
  <2>1. 1 \in DOMAIN gate.ins
    BY <1>1
  <2>2. QED
    BY <1>2, <2>1
<1>4. only = "X"
  BY <1>1, <1>2
<1>5. AllHigh(in) = "X" /\ AnyHigh(in) = "X" /\ Not("X") = "X"
  BY <1>3 DEF AllHigh, AnyHigh, Not
<1> HIDE DEF in, only
<1>6. CASE gate.type = "inv"
  BY <1>4, <1>5, <1>6 DEF evalGate, in, only
<1>7. CASE gate.type = "buf"
  BY <1>4, <1>7 DEF evalGate, in, only
<1>8. CASE gate.type \in {"and", "or"}
  BY <1>5, <1>8 DEF evalGate, in, only
<1>9. CASE gate.type \in {"nand", "nor"}
  BY <1>5, <1>9 DEF evalGate, in, only
<1>10. QED
  BY <1>1, <1>6, <1>7, <1>8, <1>9 DEF GateType

\* Gates put out levels.
LEMMA OutputsLevel ==
  ASSUME NEW n \in Nets, NEW l \in [Nodes(n) -> Level]
  PROVE  Outputs(n, l) \in [Gates(n) -> Level]
<1> SUFFICES ASSUME NEW g \in Gates(n)
             PROVE  evalGate(n.gates[g], l) \in Level
  BY DEF Outputs
<1> DEFINE gate == n.gates[g]
           in == {l[gate.ins[i]] : i \in DOMAIN gate.ins}
           only == IF Len(gate.ins) = 1 THEN l[gate.ins[1]] ELSE "X"
<1>1. gate.type \in GateType /\ gate.ins \in Seq(Nodes(n)) /\ gate.ins # <<>>
  BY GateShape
<1>2. only \in Level
  BY <1>1 DEF Level
<1>3. AllHigh(in) \in Level /\ AnyHigh(in) \in Level
  BY DEF AllHigh, AnyHigh, Level
<1>4. \A v \in Level : Not(v) \in Level
  BY DEF Not, Level
<1> HIDE DEF in, only
<1>5. CASE gate.type \in {"inv", "buf"}
  BY <1>2, <1>4, <1>5 DEF evalGate, in, only
<1>6. CASE gate.type \in {"and", "or"}
  BY <1>3, <1>6 DEF evalGate, in, only
<1>7. CASE gate.type \in {"nand", "nor"}
  BY <1>3, <1>4, <1>7 DEF evalGate, in, only
<1>8. QED
  BY <1>1, <1>5, <1>6, <1>7 DEF GateType

\* Nodes have levels.
LEMMA LevelsLevel ==
  ASSUME NEW n \in Nets, NEW d, NEW o
  PROVE  Levels(n, d, o) \in [Nodes(n) -> Level]
<1> SUFFICES ASSUME NEW m \in Nodes(n)
             PROVE  Resolve(n, d, o, m) \in Level
  BY DEF Levels
<1>1. n.pull[m] \in Pull
  BY NetsAssumption DEF IsNet, Nodes
<1>2. QED
  BY <1>1 DEF Resolve, Pull, Level

----------------------------------------------------------------------------
(* Nets without feedback: a change dies out along the gates *)

\* A gate reads node a and drives node b.
Feeds(n, a, b) ==
  \E g \in Gates(n) : n.gates[g].out = b /\ \E i \in DOMAIN n.gates[g].ins : n.gates[g].ins[i] = a

\* p follows k gates from node to node.
Path(n, k, p) == p \in [0 .. k -> Nodes(n)] /\ \A i \in 0 .. k - 1 : Feeds(n, p[i], p[i + 1])

\* The nodes at the end of such a path: those a change may reach after k passes.
Deep(n, k) == {m \in Nodes(n) : \E p : Path(n, k, p) /\ p[k] = m}

\* The path of no gate.
LEMMA PathOfNone ==
  ASSUME NEW n, NEW m \in Nodes(n)
  PROVE  m \in Deep(n, 0)
<1> DEFINE p == [i \in 0 .. 0 |-> m]
<1>1. p \in [0 .. 0 -> Nodes(n)] /\ p[0] = m
  OBVIOUS
<1> HIDE DEF p
<1>2. Path(n, 0, p)
  BY <1>1 DEF Path
<1>3. QED
  BY <1>1, <1>2 DEF Deep

\* One gate further.
LEMMA DeepStep ==
  ASSUME NEW n, NEW k \in Nat, NEW a \in Deep(n, k), NEW b \in Nodes(n), Feeds(n, a, b)
  PROVE  b \in Deep(n, k + 1)
<1>1. PICK p : Path(n, k, p) /\ p[k] = a
  BY DEF Deep
<1> DEFINE q == [i \in 0 .. k + 1 |-> IF i = k + 1 THEN b ELSE p[i]]
<1>2. q \in [0 .. k + 1 -> Nodes(n)]
  BY <1>1 DEF Path
<1>3. ASSUME NEW i \in 0 .. (k + 1) - 1 PROVE Feeds(n, q[i], q[i + 1])
  <2>1. CASE i = k
    BY <1>1, <2>1
  <2>2. CASE i # k
    BY <1>1, <2>2 DEF Path
  <2>3. QED
    BY <2>1, <2>2
<1>4. q[k + 1] = b
  OBVIOUS
<1> HIDE DEF q
<1>5. Path(n, k + 1, q)
  BY <1>2, <1>3 DEF Path
<1>6. QED
  BY <1>4, <1>5 DEF Deep

\* No path of a net without feedback has more gates than the net: it would
\* take one of them twice, and the nodes in between feed each other in a ring.
LEMMA NoDeep ==
  ASSUME NEW n \in Nets, Acyclic(n), NEW k \in Nat, k > Cardinality(Gates(n))
  PROVE  Deep(n, k) = {}
<1> SUFFICES ASSUME NEW p, Path(n, k, p) PROVE FALSE
  BY DEF Deep
<1>1. IsFiniteSet(Gates(n)) /\ Cardinality(Gates(n)) \in Nat
  BY FiniteGates
<1>2. IsFiniteSet(0 .. k - 1) /\ Cardinality(0 .. k - 1) = k
  BY FS_Interval
<1> DEFINE Takes(i, g) ==
             /\ n.gates[g].out = p[i + 1]
             /\ \E x \in DOMAIN n.gates[g].ins : n.gates[g].ins[x] = p[i]
           taken == [i \in 0 .. k - 1 |-> CHOOSE g \in Gates(n) : Takes(i, g)]
<1>3. ASSUME NEW i \in 0 .. k - 1 PROVE taken[i] \in Gates(n) /\ Takes(i, taken[i])
  <2>1. \E g \in Gates(n) : Takes(i, g)
    BY DEF Path, Feeds
  <2>2. QED
    BY <2>1
<1> HIDE DEF taken
<1>4. taken \in [0 .. k - 1 -> Gates(n)]
  BY <1>3 DEF taken
<1>5. PICK i \in 0 .. k - 1, j \in 0 .. k - 1 : i < j /\ taken[i] = taken[j]
  <2>1. \E x, y \in 0 .. k - 1 : x # y /\ taken[x] = taken[y]
    BY <1>1, <1>2, <1>4, FS_PigeonHole
  <2>2. PICK x \in 0 .. k - 1, y \in 0 .. k - 1 : x # y /\ taken[x] = taken[y]
    BY <2>1
  <2>3. x < y \/ y < x
    BY <2>2
  <2>4. QED
    BY <2>2, <2>3
<1> DEFINE ring == {p[x] : x \in i + 1 .. j}
<1>6. ring \subseteq Nodes(n) /\ ring # {}
  <2>1. \A x \in i + 1 .. j : p[x] \in Nodes(n)
    BY <1>5 DEF Path
  <2>2. j \in i + 1 .. j
    BY <1>5
  <2>3. p[j] \in ring
    BY <2>2
  <2>4. ring \subseteq Nodes(n)
    BY <2>1
  <2>5. QED
    BY <2>3, <2>4
<1>7. ASSUME NEW m \in ring
      PROVE  \E g \in Gates(n) : n.gates[g].out = m /\ \E x \in DOMAIN n.gates[g].ins : n.gates[g].ins[x] \in ring
  <2>1. PICK x \in i + 1 .. j : m = p[x]
    OBVIOUS
  <2>2. CASE x = i + 1
    <3>1. p[j] \in ring
      BY <1>5
    <3>2. Takes(j, taken[j]) /\ taken[j] \in Gates(n) /\ n.gates[taken[j]].out = m
      BY <1>3, <1>5, <2>1, <2>2
    <3>3. QED
      BY <3>1, <3>2
  <2>3. CASE x # i + 1
    <3>1. x - 1 \in i + 1 .. j /\ x - 1 \in 0 .. k - 1 /\ (x - 1) + 1 = x
      BY <1>5, <2>3
    <3>2. p[x - 1] \in ring
      BY <3>1
    <3>3. Takes(x - 1, taken[x - 1]) /\ taken[x - 1] \in Gates(n)
      BY <1>3, <3>1
    <3>4. QED
      BY <2>1, <3>1, <3>2, <3>3
  <2>4. QED
    BY <2>2, <2>3
<1> HIDE DEF ring
<1>8. QED
  BY <1>6, <1>7 DEF Acyclic

\* A gate's output depends on the levels of its inputs only.
LEMMA SameInputs ==
  ASSUME NEW n \in Nets, NEW g \in Gates(n), NEW k, NEW l,
         \A i \in DOMAIN n.gates[g].ins : k[n.gates[g].ins[i]] = l[n.gates[g].ins[i]]
  PROVE  evalGate(n.gates[g], k) = evalGate(n.gates[g], l)
<1> DEFINE gate == n.gates[g]
           in(v) == {v[gate.ins[i]] : i \in DOMAIN gate.ins}
           only(v) == IF Len(gate.ins) = 1 THEN v[gate.ins[1]] ELSE "X"
<1>1. in(k) = in(l)
  OBVIOUS
<1>2. gate.ins \in Seq(Nodes(n))
  BY GateShape
<1>3. only(k) = only(l)
  BY <1>2
<1>4. evalGate(gate, k) = evalGate(gate, l)
  BY <1>1, <1>3, Zenon DEF evalGate
<1>5. QED
  BY <1>4

\* Where no gate reads a node at which the levels differ, the next pass gives
\* the same level.
LEMMA SameLevel ==
  ASSUME NEW n \in Nets, NEW d, NEW k, NEW l, NEW m \in Nodes(n),
         \A a : Feeds(n, a, m) => k[a] = l[a]
  PROVE  Levels(n, d, Outputs(n, k))[m] = Levels(n, d, Outputs(n, l))[m]
<1>1. ASSUME NEW g \in Gates(n), n.gates[g].out = m
      PROVE  Outputs(n, k)[g] = Outputs(n, l)[g]
  <2>1. \A i \in DOMAIN n.gates[g].ins : Feeds(n, n.gates[g].ins[i], m)
    BY <1>1 DEF Feeds
  <2>2. evalGate(n.gates[g], k) = evalGate(n.gates[g], l)
    BY <2>1, SameInputs
  <2>3. QED
    BY <2>2 DEF Outputs
<1>2. GatesAt(n, Outputs(n, k), m) = GatesAt(n, Outputs(n, l), m)
  BY <1>1 DEF GatesAt
<1>3. Resolve(n, d, Outputs(n, k), m) = Resolve(n, d, Outputs(n, l), m)
  BY <1>2 DEF Resolve, Conflict
<1>4. QED
  BY <1>3 DEF Levels

\* Levels that differ only where paths of k gates end differ, one pass later,
\* only where paths of k + 1 gates do.
LEMMA PassSettles ==
  ASSUME NEW n \in Nets, NEW d, NEW i \in Nat, NEW k, NEW l,
         \A m \in Nodes(n) \ Deep(n, i) : k[m] = l[m]
  PROVE  \A m \in Nodes(n) \ Deep(n, i + 1) :
           Levels(n, d, Outputs(n, k))[m] = Levels(n, d, Outputs(n, l))[m]
<1> SUFFICES ASSUME NEW m \in Nodes(n) \ Deep(n, i + 1)
             PROVE  Levels(n, d, Outputs(n, k))[m] = Levels(n, d, Outputs(n, l))[m]
  OBVIOUS
<1>1. ASSUME NEW a, Feeds(n, a, m) PROVE k[a] = l[a]
  <2>1. a \in Nodes(n)
    BY <1>1, InputsAreNodes DEF Feeds
  <2>2. a \notin Deep(n, i)
    BY <1>1, DeepStep
  <2>3. QED
    BY <2>1, <2>2
<1>2. QED
  BY <1>1, SameLevel

\* The equations of a net without feedback have one solution at most: of the
\* nodes at which two differed, one would depend on nodes at which they agree.
LEMMA OneSolution ==
  ASSUME NEW n \in Nets, Acyclic(n), NEW d, NEW k, NEW l,
         Solution(n, d, k), Solution(n, d, l)
  PROVE  k = l
<1> DEFINE differ == {m \in Nodes(n) : k[m] # l[m]}
<1>1. k = [m \in Nodes(n) |-> k[m]] /\ l = [m \in Nodes(n) |-> l[m]]
  BY DEF Solution, Levels
<1>2. SUFFICES ASSUME differ # {} PROVE FALSE
  BY <1>1
<1>3. PICK m \in differ :
        \A g \in Gates(n) : n.gates[g].out = m =>
          \A i \in DOMAIN n.gates[g].ins : n.gates[g].ins[i] \notin differ
  <2>1. differ \subseteq Nodes(n) /\ differ # {}
    BY <1>2
  <2> HIDE DEF differ
  <2>2. QED
    BY <2>1 DEF Acyclic
<1>4. \A a : Feeds(n, a, m) => k[a] = l[a]
  <2>1. \A a : Feeds(n, a, m) => a \in Nodes(n) /\ a \notin differ
    BY <1>3, InputsAreNodes DEF Feeds
  <2>2. QED
    BY <2>1
<1>5. Levels(n, d, Outputs(n, k))[m] = Levels(n, d, Outputs(n, l))[m]
  BY <1>4, SameLevel
<1>6. QED
  BY <1>5 DEF Solution

\* A solution of such a net is what the recursion on its gates gives.
LEMMA SolutionEvaluated ==
  ASSUME NEW n \in Nets, Acyclic(n), NEW d, NEW l, Solution(n, d, l)
  PROVE  l = Evaluated(n, d)
<1> DEFINE Value(f) == f = [node \in Nodes(n) |->
                              Resolve(n, d, [g \in Gates(n) |-> evalGate(n.gates[g], f)], node)]
           value == CHOOSE f : Value(f)
<1>1. \A f : Value(f) <=> Solution(n, d, f)
  BY DEF Solution, Levels, Outputs
<1>2. Value(value)
  BY <1>1
<1>3. Evaluated(n, d) = [node \in Nodes(n) |-> value[node]]
  BY DEF Evaluated
<1> HIDE DEF Value, value
<1>4. value = l
  BY <1>1, <1>2, OneSolution
<1>5. QED
  BY <1>3, <1>4 DEF Solution, Levels

----------------------------------------------------------------------------
(* The inductive invariant *)

\* What the pass that ended a call without oscillation has found.
Settled ==
  phase = "deliver" /\ ~oscillating =>
    /\ level = Levels(net, drive, gateOut)
    /\ Conflicts \subseteq warnedConflict

\* Without feedback, a pass leaves a level unsettled only where a path of as
\* many gates as passes were made ends.
SettledBehind ==
  net \in AcyclicNets /\ phase = "settle" =>
    \A m \in Nodes(net) \ Deep(net, pass) : level[m] = Levels(net, drive, gateOut)[m]

\* A net that the passes allow for never runs out of them.
Quiet == net \in AcyclicNets /\ Cardinality(Gates(net)) <= MaxPasses - 2 => ~oscillating

IInv ==
  /\ TypeOK
  /\ phase = "settle" => pass < MaxPasses
  /\ SettledBehind
  /\ Quiet
  /\ GatesFollow
  /\ Settled
  /\ ConflictsReported

LEMMA InitIInv == Init => IInv
<1> SUFFICES ASSUME Init PROVE IInv
  OBVIOUS
<1> USE DEF Init
<1>1. level \in [Nodes(net) -> Level] /\ gateOut \in [Gates(net) -> Level]
  BY DEF Level
<1>2. drive \in [Endpoints(net) -> Drive]
  BY DEF Drive
<1>3. inputs \in [Endpoints(net) -> Level \cup {"none"}]
  OBVIOUS
<1>4. TypeOK
  <2>1. 0 \in 0 .. MaxPasses
    BY PassesAssumption
  <2>2. isOutput \in Directions(net) /\ oscillating \in BOOLEAN /\ unstable \in BOOLEAN
    BY Zenon
  <2>3. QED
    BY <1>1, <1>2, <1>3, <2>1, <2>2 DEF TypeOK
<1>5. GatesFollow
  BY UnknownGate DEF GatesFollow, Outputs
<1>6. Settled /\ ConflictsReported /\ SettledBehind /\ Quiet
  BY DEF Settled, ConflictsReported, SettledBehind, Quiet
<1>7. QED
  BY <1>4, <1>5, <1>6 DEF IInv

LEMMA NextIInv == IInv /\ [Next]_vars => IInv'
<1> SUFFICES ASSUME IInv, [Next]_vars PROVE IInv'
  OBVIOUS
<1>0. /\ TypeOK /\ GatesFollow /\ Settled /\ ConflictsReported /\ SettledBehind /\ Quiet
      /\ phase = "settle" => pass < MaxPasses
  BY DEF IInv
<1>1. CASE Begin
  <2>1. drive' \in [Endpoints(net) -> Drive]
    <3>1. net.drives \in [Endpoints(net) -> SUBSET Drive]
      BY <1>0, NetsAssumption DEF TypeOK, IsNet, Endpoints
    <3>2. drive' \in DrivesOf(net, isOutput')
      BY <1>1 DEF Begin
    <3>3. \A e \in Endpoints(net) : drive'[e] \in Drive
      BY <3>1, <3>2 DEF DrivesOf, Drive
    <3>4. QED
      BY <3>2, <3>3 DEF DrivesOf
  <2>2. TypeOK'
    <3>1. pass' \in 0 .. MaxPasses
      BY <1>1, PassesAssumption DEF Begin
    <3>2. isOutput' \in Directions(net) /\ oscillating' \in BOOLEAN
      BY <1>1, Zenon DEF Begin
    <3>3. QED
      BY <1>0, <1>1, <2>1, <3>1, <3>2 DEF Begin, TypeOK, warnings
  <2>3. (GatesFollow /\ Settled /\ ConflictsReported)'
    BY <1>0, <1>1 DEF Begin, GatesFollow, Settled, ConflictsReported, warnings
  <2>4. SettledBehind'
    <3>1. \A m \in Nodes(net) : m \in Deep(net, 0)
      BY PathOfNone
    <3>2. QED
      BY <1>1, <3>1 DEF Begin, SettledBehind
  <2>5. Quiet'
    BY <1>1 DEF Begin, Quiet
  <2>6. QED
    BY <1>1, <2>2, <2>3, <2>4, <2>5, PassesAssumption DEF IInv, Begin
<1>2. CASE Settle
  <2>1. level' \in [Nodes(net) -> Level]
    BY <1>0, <1>2, LevelsLevel DEF Settle, TypeOK
  <2>2. gateOut' \in [Gates(net) -> Level]
    BY <1>0, <1>2, <2>1, OutputsLevel DEF Settle, TypeOK
  <2>3. pass' \in 0 .. MaxPasses /\ (phase' = "settle" => pass' < MaxPasses)
    BY <1>0, <1>2, PassesAssumption DEF Settle, TypeOK, OutOfPasses
  <2>4. warnedConflict' \subseteq Nodes(net) /\ warnedFloat' \subseteq Nodes(net)
    BY <1>0, <1>2 DEF Settle, TypeOK, Conflicts, Floats
  <2>5. oscillating' \in BOOLEAN /\ phase' \in {"settle", "deliver"}
    BY <1>2 DEF Settle, StillChanging
  <2>6. TypeOK'
    BY <1>0, <1>2, <2>1, <2>2, <2>3, <2>4, <2>5 DEF Settle, TypeOK
  <2>7. GatesFollow'
    BY <1>2 DEF Settle, GatesFollow
  <2>8. Settled'
    <3> SUFFICES ASSUME phase' = "deliver", ~oscillating'
                 PROVE  /\ level' = Levels(net', drive', gateOut')
                        /\ Conflicts' \subseteq warnedConflict'
      BY DEF Settled
    <3>1. ~Changed(level')
      BY <1>2 DEF Settle, StillChanging
    <3>2. gateOut' = gateOut
      BY <1>2, <3>1 DEF Settle, Changed
    <3>3. QED
      BY <1>2, <3>2 DEF Settle, Conflicts
  <2>9. ConflictsReported'
    BY <1>0, <1>2 DEF Settle, ConflictsReported
  <2>10. ASSUME net \in AcyclicNets, NEW m \in Nodes(net) \ Deep(net, pass)
         PROVE  level'[m] = level[m]
    BY <1>0, <1>2, <2>10 DEF Settle, SettledBehind
  <2>11. SettledBehind'
    <3> SUFFICES ASSUME net \in AcyclicNets
                 PROVE  \A m \in Nodes(net) \ Deep(net, pass + 1) :
                          level'[m] = Levels(net, drive, gateOut')[m]
      BY <1>2 DEF Settle, SettledBehind
    <3>1. level' = Levels(net, drive, Outputs(net, level)) /\ gateOut' = Outputs(net, level')
      BY <1>0, <1>2 DEF Settle, GatesFollow
    <3>2. pass \in Nat /\ net \in Nets
      BY <1>0, PassesAssumption DEF TypeOK
    <3>3. \A m \in Nodes(net) \ Deep(net, pass) : level[m] = level'[m]
      BY <2>10
    <3>4. \A m \in Nodes(net) \ Deep(net, pass + 1) :
            Levels(net, drive, Outputs(net, level))[m] = Levels(net, drive, Outputs(net, level'))[m]
      BY <3>2, <3>3, PassSettles
    <3>5. QED
      BY <3>1, <3>4
  <2>12. Quiet'
    <3> SUFFICES ASSUME net \in AcyclicNets, Cardinality(Gates(net)) <= MaxPasses - 2, oscillating'
                 PROVE  FALSE
      BY <1>2 DEF Settle, Quiet
    <3>1. Changed(level') /\ pass = MaxPasses - 1
      BY <1>2 DEF Settle, StillChanging, OutOfPasses
    <3>2. Deep(net, pass) = {}
      <4>1. Cardinality(Gates(net)) \in Nat
        BY <1>0, FiniteGates DEF TypeOK
      <4>2. pass \in Nat /\ pass > Cardinality(Gates(net))
        BY <3>1, <4>1, PassesAssumption
      <4>3. QED
        BY <4>2, NoDeep, NetsAssumption
    <3>3. level' = level
      BY <1>0, <2>1, <2>10, <3>2 DEF TypeOK
    <3>4. Outputs(net, level') = gateOut
      BY <1>0, <3>3 DEF GatesFollow
    <3>5. QED
      BY <3>1, <3>3, <3>4 DEF Changed
  <2>13. QED
    BY <2>3, <2>6, <2>7, <2>8, <2>9, <2>11, <2>12 DEF IInv
<1>3. CASE Deliver
  <2>1. inputs' \in [Endpoints(net) -> Level \cup {"none"}]
    <3>1. net.wire \in [Endpoints(net) -> Nodes(net)]
      BY <1>0, NetsAssumption DEF TypeOK, IsNet, Endpoints, Nodes
    <3>2. QED
      BY <1>0, <1>3, <3>1 DEF Deliver, TypeOK
  <2>2. fought' \subseteq Nodes(net)
    BY <1>0, <1>3 DEF Deliver, TypeOK
  <2>3. unstable' \in BOOLEAN
    BY <1>3 DEF Deliver
  <2>4. TypeOK'
    BY <1>0, <1>3, <2>1, <2>2, <2>3 DEF Deliver, TypeOK, warnings
  <2>5. (GatesFollow /\ Settled)'
    BY <1>0, <1>3 DEF Deliver, GatesFollow, Settled
  <2>6. ConflictsReported'
    BY <1>0, <1>3 DEF Deliver, ConflictsReported, Settled, GatesFollow, Conflicts, warnings
  <2>7. (SettledBehind /\ Quiet)'
    BY <1>0, <1>3 DEF Deliver, SettledBehind, Quiet
  <2>8. QED
    BY <1>3, <2>4, <2>5, <2>6, <2>7 DEF IInv, Deliver
<1>4. CASE UNCHANGED vars
  BY <1>0, <1>4 DEF vars, warnings, IInv, TypeOK, GatesFollow, Settled, ConflictsReported, Conflicts,
                    SettledBehind, Quiet
<1>5. QED
  BY <1>1, <1>2, <1>3, <1>4 DEF Next

----------------------------------------------------------------------------

\* Every variable keeps its range; no call makes more than MaxPasses passes.
THEOREM TypeCorrect == Spec => []TypeOK
<1>1. IInv => TypeOK
  BY DEF IInv
<1>2. QED
  BY <1>1, InitIInv, NextIInv, PTL DEF Spec

\* Gate outputs fit the levels at every moment (GatesFollow).
THEOREM GatesFollowHolds == Spec => []GatesFollow
<1>1. IInv => GatesFollow
  BY DEF IInv
<1>2. QED
  BY <1>1, InitIInv, NextIInv, PTL DEF Spec

\* No conflict between settled drivers goes unreported (ConflictsReported).
THEOREM ConflictsReportedHolds == Spec => []ConflictsReported
<1>1. IInv => ConflictsReported
  BY DEF IInv
<1>2. QED
  BY <1>1, InitIInv, NextIInv, PTL DEF Spec

\* A net without feedback settles, whatever its latches and pins held before:
\* it is never reported unstable, and what it delivers is what recursion on
\* its gates computes from the drivers alone (AcyclicSettles).
THEOREM AcyclicSettlesHolds == Spec => []AcyclicSettles
<1>1. IInv => AcyclicSettles
  <2> SUFFICES ASSUME IInv, net \in AcyclicNets, Cardinality(Gates(net)) <= MaxPasses - 2
               PROVE  ~oscillating /\ (phase = "deliver" => level = Evaluated(net, drive))
    BY DEF AcyclicSettles
  <2>1. ~oscillating
    BY DEF IInv, Quiet
  <2>2. ASSUME phase = "deliver" PROVE level = Evaluated(net, drive)
    <3>1. Solution(net, drive, level)
      BY <2>1, <2>2 DEF IInv, Settled, GatesFollow, Solution
    <3>2. QED
      BY <3>1, SolutionEvaluated, NetsAssumption
  <2>3. QED
    BY <2>1, <2>2
<1>2. QED
  BY <1>1, InitIInv, NextIInv, PTL DEF Spec

----------------------------------------------------------------------------
(* Refinement: the settle loop implements the abstract wiring *)

\* The initial states are initial states of WiredNet.
LEMMA InitRefines == Init => Wired!Init
BY DEF Init, Wired!Init, Wired!Directions, Directions, Wired!Endpoints, Endpoints

\* Reading the drivers is Sample, a pass is a stutter, and giving the inputs
\* their levels is Deliver after a call that settled and Unstable otherwise.
LEMMA StepRefines == IInv /\ [Next]_vars => [Wired!Next]_(Wired!vars)
<1> SUFFICES ASSUME IInv, [Next]_vars PROVE [Wired!Next]_(Wired!vars)
  OBVIOUS
<1>1. CASE Begin
  <2>1. Wired!Sample
    BY <1>1 DEF Begin, Wired!Sample, Wired!Directions, Directions, Wired!Drives, DrivesOf,
                Wired!Endpoints, Endpoints, Wired!Drive, Drive
  <2>2. QED
    BY <2>1 DEF Wired!Next
<1>2. CASE Settle
  BY <1>2 DEF Settle, Wired!vars
<1>3. CASE Deliver
  <2>1. level \in [Wired!Nodes(net) -> Wired!Level]
    BY DEF IInv, TypeOK, Nodes, Wired!Nodes, Level, Wired!Level
  <2>2. inputs' = Wired!Delivered(level)
    BY <1>3 DEF Deliver, Wired!Delivered, Endpoints, Wired!Endpoints
  <2>3. CASE ~oscillating
    <3>1. Wired!Solution(net, drive, level)
      <4>1. Solution(net, drive, level)
        BY <1>3, <2>3 DEF Deliver, IInv, Settled, GatesFollow, Solution
      <4>2. QED
        BY <4>1 DEF Solution, Levels, Outputs, Resolve, Conflict, PinsAt, GatesAt, evalGate,
             Not, AllHigh, AnyHigh, Nodes, Endpoints, Gates,
             Wired!Solution, Wired!Levels, Wired!Outputs, Wired!Resolve, Wired!Conflict,
             Wired!PinsAt, Wired!GatesAt, Wired!evalGate, Wired!Not, Wired!AllHigh,
             Wired!AnyHigh, Wired!Nodes, Wired!Endpoints, Wired!Gates
    <3>2. Wired!Deliver
      BY <1>3, <2>1, <2>2, <2>3, <3>1 DEF Deliver, Wired!Deliver, IInv, TypeOK
    <3>3. QED
      BY <3>2 DEF Wired!Next
  <2>4. CASE oscillating
    <3>1. Wired!Unstable
      BY <1>3, <2>1, <2>2, <2>4 DEF Deliver, Wired!Unstable
    <3>2. QED
      BY <3>1 DEF Wired!Next
  <2>5. QED
    BY <2>3, <2>4
<1>4. CASE UNCHANGED vars
  BY <1>4 DEF vars, Wired!vars
<1>5. QED
  BY <1>1, <1>2, <1>3, <1>4 DEF Next

\* The engine implements WiredNet: every delivery solves the netlist's equations
\* for the drivers of its moment, or comes with the report of instability.
THEOREM Refinement == Spec => Implements
<1>1. Init => Wired!Init
  BY InitRefines
<1>2. QED
  BY <1>1, InitIInv, NextIInv, StepRefines, PTL DEF Spec, Implements, Wired!Spec
=============================================================================
