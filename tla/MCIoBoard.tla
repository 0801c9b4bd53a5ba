----------------------------- MODULE MCIoBoard -----------------------------
(* Boards and programs for IoBoard. *)
EXTENDS IoBoard, TLC

RUN(n) == [op |-> "RUN", states |-> n]
Inp(dev, reg) == [op |-> "IN", dev |-> dev, reg |-> reg]
Outp(dev, reg, value) == [op |-> "OUT", dev |-> dev, reg |-> reg, value |-> value]

NoNet == [pull |-> [n \in {} |-> "none"], wire |-> [e \in {} |-> {}], gates |-> <<>>,
          roles |-> [e \in {} |-> {}], drives |-> [e \in {} |-> {}]]

Base ==
  [clkdiv |-> 4, gateMask |-> 0 .. 2, net |-> NoNet, pins |-> [e \in {} |-> {}],
   files |-> [x \in {} |-> <<>>], guest |-> {RUN(5)}]

----------------------------------------------------------------------------
(* Timers *)

Control(sc, rw, mode) == Outp("pit", 3, [sc |-> sc, rw |-> rw, mode |-> mode])
Load(reg, bytes) == {Outp("pit", reg, v) : v \in bytes}

\* A counter loaded and read in pairs of bytes, latched at any time.
Pairs(mode) ==
  [Base EXCEPT !.guest = @ \cup {Control(0, 3, mode), Control(0, 0, 0), Inp("pit", 0)}
                            \cup Load(0, 0 .. ByteSize - 1)]

\* Single bytes, low in one mode and high in another.
Singles ==
  [Base EXCEPT !.clkdiv = 3,
               !.guest = @ \cup {Control(2, 1, 2), Control(2, 2, 7), Control(2, 0, 0), Inp("pit", 2)}
                            \cup Load(2, 0 .. ByteSize - 1)]

\* Two counters, one with its gate low, and the read-back command.
Gated ==
  [Base EXCEPT !.clkdiv = 7, !.gateMask = {1},
               !.guest = @ \cup {Control(sc, 1, 4) : sc \in 0 .. 1} \cup {Control(3, 0, 0)}
                            \cup Load(0, {1}) \cup Load(1, {2}) \cup {Inp("pit", 0)}]

----------------------------------------------------------------------------
(* Ports *)

Mode(aIn, bIn, cIn) ==
  Outp("ppi", 3, [set |-> TRUE, aIn |-> aIn, cUpperIn |-> FALSE, bIn |-> bIn, cLowerIn |-> cIn])
BitOut(bit, value) == Outp("ppi", 3, [set |-> FALSE, bit |-> bit, value |-> value])

\* test/wiring_selfloop.sh (A0 through a buffer to C0), A1 inverted to C1, and the
\* output of counter 0 on B0.
LoopNet ==
  [pull |-> [NA |-> "none", NC |-> "none", NI |-> "up", NJ |-> "none", NT |-> "none"],
   wire |-> [A0 |-> "NA", C0 |-> "NC", A1 |-> "NI", C1 |-> "NJ", OUT0 |-> "NT", B0 |-> "NT"],
   gates |-> <<[type |-> "buf", ins |-> <<"NA">>, out |-> "NC"],
               [type |-> "inv", ins |-> <<"NI">>, out |-> "NJ"]>>,
   roles |-> [e \in {"A0", "C0", "A1", "C1", "OUT0", "B0"} |-> BOOLEAN],
   drives |-> [e \in {"A0", "C0", "A1", "C1", "OUT0", "B0"} |-> {"0", "1"}]]

LoopPins ==
  [A0 |-> [port |-> "A", bit |-> 0], A1 |-> [port |-> "A", bit |-> 1],
   C0 |-> [port |-> "C", bit |-> 0], C1 |-> [port |-> "C", bit |-> 1],
   OUT0 |-> [port |-> "OUT", bit |-> 0], B0 |-> [port |-> "B", bit |-> 0]]

Loop ==
  [Base EXCEPT !.net = LoopNet, !.pins = LoopPins,
               !.guest = {Mode(FALSE, TRUE, TRUE), Mode(TRUE, TRUE, FALSE), Mode(FALSE, FALSE, FALSE)}
                            \cup {Outp("ppi", 0, bits) : bits \in {{0}, {1, 7}}}
                            \cup {BitOut(1, TRUE), BitOut(7, TRUE)}
                            \cup {Inp("ppi", reg) : reg \in 0 .. 2}
                            \cup {Control(0, 1, 3), Outp("pit", 0, 2)}]

----------------------------------------------------------------------------
(* The disk: the names 1 and 1 2, and the second address has only the first *)

MCMemory == (0 :> <<1, 2>>) @@ (256 :> <<1, 0, 2>>)

Files ==
  [Base EXCEPT !.files = (<<1>> :> <<2, 1>>),
               !.guest = {Outp("disk", 0, cmd) : cmd \in Disk!Commands}
                            \cup {Outp("disk", 1, v) : v \in 1 .. 2}
                            \cup {Outp("disk", 3, v) : v \in 0 .. 1}
                            \cup {Inp("disk", 1)}]

MCBoards == {Pairs(mode) : mode \in {0, 3}} \cup {Singles, Gated, Loop, Files}
=============================================================================
