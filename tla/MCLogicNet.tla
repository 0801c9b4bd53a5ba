----------------------------- MODULE MCLogicNet -----------------------------
(***************************************************************************)
(* Netlists for LogicNet: those of the repository's tests, the shapes that *)
(* make combinational nets hard (reconvergence, wired-AND, direction       *)
(* changes) and nets with feedback.                                        *)
(***************************************************************************)
EXTENDS LogicNet, TLC

Gate(type, ins, out) == [type |-> type, ins |-> ins, out |-> out]

\* An endpoint: its node, its directions, what it drives.
Out(node, drives) == [node |-> node, roles |-> {TRUE}, drives |-> drives]
In(node) == [node |-> node, roles |-> {FALSE}, drives |-> {}]
Port(node) == [node |-> node, roles |-> BOOLEAN, drives |-> {"0", "1"}]
Push == {"0", "1"}
OpenDrain == {"0", "Z"}

Net(pull, ends, gates) ==
  [pull |-> pull, gates |-> gates,
   wire |-> [e \in DOMAIN ends |-> ends[e].node],
   roles |-> [e \in DOMAIN ends |-> ends[e].roles],
   drives |-> [e \in DOMAIN ends |-> ends[e].drives]]

\* test/wiring_irq.sh: /IRQ, open drain with a pull-up, inverted into RST 7.5.
IrqNet ==
  Net([IRQ_L |-> "up", RST_IN |-> "none"],
      [IRQ |-> Out("IRQ_L", OpenDrain), RST75 |-> In("RST_IN")],
      <<Gate("inv", <<"IRQ_L">>, "RST_IN")>>)

\* A bus of open-drain outputs and a port that turns round, sensed through gates.
BusNet ==
  Net([bus |-> "up", sel |-> "none", sense |-> "none"],
      [a |-> Out("bus", OpenDrain), port |-> Port("bus"), sel |-> Out("sel", Push \cup {"Z"}),
       dcd |-> In("sense")],
      <<Gate("nor", <<"bus", "sel">>, "sense")>>)

\* One signal reaches a node by paths of different length.
Reconvergent ==
  Net([a |-> "none", b |-> "none", y |-> "down"],
      [p |-> Out("a", Push \cup {"Z"}), q |-> In("y")],
      <<Gate("inv", <<"a">>, "b"), Gate("inv", <<"b">>, "y"), Gate("buf", <<"a">>, "y")>>)

\* test_gate_conflict_detection: two gates in conflict, and a third in front.
Contended ==
  Net([a |-> "none", b |-> "none", y |-> "none", z |-> "none"],
      [p |-> Out("a", Push), q |-> Out("b", Push), r |-> In("z")],
      <<Gate("buf", <<"a">>, "y"), Gate("inv", <<"b">>, "y"), Gate("and", <<"y", "b">>, "z"),
        Gate("or", <<"a", "y">>, "z"), Gate("inv", <<"a", "b">>, "z")>>)

\* The longest chain of gates that settles in 6 passes, the bound of LogicNet.cfg.
Chain ==
  Net([a |-> "none", b |-> "none", c |-> "none", d |-> "none", e |-> "none"],
      [p |-> Out("a", Push \cup {"Z"}), q |-> In("e")],
      <<Gate("inv", <<"a">>, "b"), Gate("inv", <<"b">>, "c"),
        Gate("buf", <<"c">>, "d"), Gate("inv", <<"d">>, "e")>>)

\* A gated ring oscillator, and a latch of two NOR gates.
Ring ==
  Net([en |-> "down", y |-> "none"],
      [p |-> Out("en", Push), q |-> In("y")],
      <<Gate("nand", <<"en", "y">>, "y")>>)

Latch ==
  Net([r |-> "down", s |-> "down", q |-> "none", n |-> "none"],
      [pr |-> Out("r", Push), ps |-> Out("s", Push \cup {"Z"}), pq |-> In("q")],
      <<Gate("nor", <<"r", "n">>, "q"), Gate("nor", <<"s", "q">>, "n")>>)

MCAcyclic == {IrqNet, BusNet, Reconvergent, Contended, Chain}
MCNets == MCAcyclic \cup {Ring, Latch}
=============================================================================
