------------------------------- MODULE I8255 -------------------------------
(***************************************************************************)
(* The parallel port plugin (plugins/i8255.cpp) as operators on its        *)
(* context: ctrl has the directions of the last mode word, out the latches *)
(* and in the levels at the pins.  A byte is the set of its bits that are  *)
(* 1; a control word is a record of the fields that mode 0, the only mode  *)
(* of the plugin, uses.                                                    *)
(***************************************************************************)
EXTENDS Naturals

Upper == 4 .. 7
Lower == 0 .. 3

ModeWord ==
  [set : {TRUE}, aIn : BOOLEAN, cUpperIn : BOOLEAN, bIn : BOOLEAN, cLowerIn : BOOLEAN]
BitWord == [set : {FALSE}, bit : 0 .. 7, value : BOOLEAN]

AllInputs == [set |-> TRUE, aIn |-> TRUE, cUpperIn |-> TRUE, bIn |-> TRUE, cLowerIn |-> TRUE]

NoBits == [port \in {"A", "B", "C"} |-> {}]

\* on_reset leaves the levels at the pins alone: they are not the chip's.
on_reset(p) == [p EXCEPT !.ctrl = AllInputs, !.out = NoBits]

\* pa=, pb= and pc= of the command line.
Created(in) == [ctrl |-> AllInputs, out |-> NoBits, in |-> in]

\* The bits of a port that are inputs: the two halves of C have their own direction.
InputBits(p, port) ==
  CASE port = "A" -> IF p.ctrl.aIn THEN 0 .. 7 ELSE {}
    [] port = "B" -> IF p.ctrl.bIn THEN 0 .. 7 ELSE {}
    [] OTHER -> (IF p.ctrl.cUpperIn THEN Upper ELSE {}) \cup (IF p.ctrl.cLowerIn THEN Lower ELSE {})

\* An output reads back its latch, an input the level at its pins.
readPort(p, port) ==
  (p.in[port] \cap InputBits(p, port)) \cup (p.out[port] \ InputBits(p, port))

\* A mode word turns the ports round and clears the latches; the other control words
\* set or reset one bit of port C.
writeControl(p, word) ==
  CASE word.set -> [p EXCEPT !.ctrl = word, !.out = NoBits]
    [] ~word.set /\ word.value -> [p EXCEPT !.out["C"] = @ \cup {word.bit}]
    [] OTHER -> [p EXCEPT !.out["C"] = @ \ {word.bit}]

on_io_write(p, i, value) ==
  IF i = 3 THEN writeControl(p, value)
  ELSE [p EXCEPT !.out[<<"A", "B", "C">>[i + 1]] = value]

\* A pin is given a level by the netlist; an unknown one reads as 0.
pin_set(p, port, bit, level) ==
  [p EXCEPT !.in[port] = IF level = "1" THEN @ \cup {bit} ELSE @ \ {bit}]
=============================================================================
