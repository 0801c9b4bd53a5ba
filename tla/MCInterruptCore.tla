-------------------------- MODULE MCInterruptCore --------------------------
(***************************************************************************)
(* Small boards for InterruptCore.  Every program is entered at 64; the    *)
(* handlers stand at the vectors of the code: 16 (RST 2), 36 (TRAP), 44,   *)
(* 52 and 60 (RST 5.5, 6.5, 7.5).                                          *)
(***************************************************************************)
EXTENDS InterruptCore, TLC

I(op) == [op |-> op]
IA(op, arg) == [op |-> op, arg |-> arg]

\* Handlers that end in EI; RET.
Handlers ==
  (16 :> I("EI")) @@ (17 :> I("RET"))
    @@ (44 :> I("NOP")) @@ (45 :> I("EI")) @@ (46 :> I("RET"))
    @@ (60 :> I("EI")) @@ (61 :> I("RET"))

\* A critical section in a loop.
Section ==
  (64 :> I("DI")) @@ (65 :> I("NOP")) @@ (66 :> I("EI")) @@ (67 :> IA("JMP", 64)) @@ Handlers

\* Sleep until an interrupt.
Sleep == (64 :> I("EI")) @@ (65 :> I("HLT")) @@ (66 :> IA("JMP", 65)) @@ Handlers

\* A program of every control instruction in every order the branches give, with
\* handlers that forget EI, return bare, or jump back into the program.
Wild ==
  (64 :> IA("JCC", 70)) @@ (67 :> I("EI")) @@ (68 :> I("HLT")) @@ (69 :> I("DI"))
    @@ (70 :> IA("JCC", 76)) @@ (73 :> I("EI")) @@ (74 :> I("EI")) @@ (75 :> I("DI"))
    @@ (76 :> IA("JCC", 82)) @@ (79 :> IA("MVI", {0, 1, 3})) @@ (81 :> I("SIM"))
    @@ (82 :> IA("MVI", {2, 3, 4, 6, 7})) @@ (84 :> I("SIM")) @@ (85 :> I("RIM"))
    @@ (86 :> IA("JMP", 64))
    @@ (16 :> IA("CALL", 61)) @@ (19 :> I("RET"))
    @@ (36 :> I("RET"))
    @@ (44 :> I("EI")) @@ (45 :> I("RET"))
    @@ (52 :> I("HLT")) @@ (53 :> IA("RST", 7))
    @@ (56 :> I("RET"))
    @@ (60 :> I("DI")) @@ (61 :> I("EI")) @@ (62 :> I("RET"))

\* The parts of a program.
Parts(image, codes, main, open) ==
  [image |-> image, codes |-> codes, main |-> main, open |-> open,
   handlers |-> DOMAIN Handlers]

MCDisciplined ==
  {Parts(Section, {2, 55, 75}, 64 .. 67, {64, 67}), Parts(Sleep, {2, 55, 75}, 64 .. 66, {65, 66})}

MCBoards ==
  MCDisciplined \cup {[image |-> Wild, codes |-> {45, 55, 75}], [image |-> Wild, codes |-> {2, 65, 75}]}
============================================================================
