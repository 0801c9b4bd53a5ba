---------------------------- MODULE MCWiredBoard ----------------------------
(* Interrupt-driven receivers for WiredBoard, entered at 64. *)
EXTENDS WiredBoard, TLC

I(op) == [op |-> op]
IA(op, arg) == [op |-> op, arg |-> arg]

Go == {0, 2, 4, 7}      \* receive with the interrupt enabled
Stop == {0, 2, 4, 6, 7} \* the same with /RTS taken away

\* A handler that reads the byte first, and one that does something else first.
FirstHandler == (60 :> IA("IN", 1)) @@ (62 :> I("EI")) @@ (63 :> I("RET"))
LateHandler == (60 :> IA("JMP", 90)) @@ (90 :> IA("IN", 1)) @@ (92 :> I("EI")) @@ (93 :> I("RET"))

\* Enable and spin, as in test/wiring_irq.sh.
Spin ==
  (64 :> IA("MVI", Go)) @@ (66 :> IA("OUT", 0)) @@ (68 :> I("EI")) @@ (69 :> I("NOP"))
    @@ (70 :> IA("JMP", 69))

\* Critical sections and flow control around a loop, with a master reset before it.
Busy ==
  (64 :> IA("MVI", {0, 1})) @@ (66 :> IA("OUT", 0)) @@ (68 :> IA("MVI", Go)) @@ (70 :> IA("OUT", 0))
    @@ (72 :> I("EI")) @@ (73 :> IA("JCC", 72)) @@ (76 :> I("DI")) @@ (77 :> IA("MVI", Stop))
    @@ (79 :> IA("OUT", 0)) @@ (81 :> I("NOP")) @@ (82 :> IA("JMP", 68))

\* The interrupt is enabled after a byte may have come in.
Slow == (64 :> I("EI")) @@ (65 :> IA("IN", 0)) @@ (67 :> IA("JCC", 72))
          @@ (72 :> IA("MVI", Go)) @@ (74 :> IA("OUT", 0)) @@ (76 :> IA("JMP", 76))

MCReadFirst ==
  {[image |-> Spin @@ FirstHandler, setup |-> {64}, main |-> {66, 68, 69, 70}, handlers |-> {62, 63}],
   [image |-> Busy @@ FirstHandler, setup |-> {64, 66, 68},
    main |-> {68, 70, 72, 73, 76, 77, 79, 81, 82}, handlers |-> {62, 63}]}
MCPrograms == {p.image : p \in MCReadFirst}
                \cup {Spin @@ LateHandler, Busy @@ LateHandler, Slow @@ LateHandler}

MCByte == {"s1", "s2", "a", "b"}
MCScript == <<"s1", "s2">>
MCLive == <<"a", "b">>
=============================================================================
