------------------------------- MODULE Mc6850 -------------------------------
(***************************************************************************)
(* The serial chip (plugins/mc6850.cpp) as operators on its context: the   *)
(* receive register and its two sources, a script from the configuration   *)
(* and the bytes of a host channel, the flow control line /RTS and the     *)
(* interrupt request.                                                      *)
(*                                                                         *)
(* A byte is an opaque value.  The arrival time of the next scripted byte  *)
(* is kept relative to the last step, so it needs no clock: wait is        *)
(* nextArrival - lastStep, or 0 when that has passed.  What the chip only  *)
(* shows to a viewer (TX and RX of the snapshot) and its log files are     *)
(* left out.                                                               *)
(***************************************************************************)
EXTENDS Naturals, Sequences

CONSTANTS Byte,      \* the bytes that can be received
          ByteGap    \* bytegap: steps between two scripted bytes

ASSUME ByteGapAssumption == ByteGap \in Nat

Acia == [rx : Seq(Byte), rxPos : Nat, rdrFull : BOOLEAN, rdrByte : Byte \cup {"none"},
         wait : Nat, rxIntEnabled : BOOLEAN, rtsAsserted : BOOLEAN, rxq : Seq(Byte),
         ctsLevel : 0 .. 1, dcdLevel : 0 .. 1]

\* After i8085_io_plugin_init with this script.
Created(script) ==
  [rx |-> script, rxPos |-> 0, rdrFull |-> FALSE, rdrByte |-> "none", wait |-> 0,
   rxIntEnabled |-> FALSE, rtsAsserted |-> TRUE, rxq |-> <<>>, ctsLevel |-> 1, dcdLevel |-> 1]

on_reset(c) ==
  [c EXCEPT !.rxPos = 0, !.rdrFull = FALSE, !.wait = 0,
            !.rxIntEnabled = FALSE, !.rtsAsserted = TRUE]

\* Fault: a scripted byte leaves the script when it is fed, not when it is read.
FeedScripted_Advances(c) ==
  IF ~c.rdrFull /\ c.rxPos < Len(c.rx) /\ c.rtsAsserted /\ c.wait = 0
  THEN [c EXCEPT !.rdrByte = c.rx[c.rxPos + 1], !.rdrFull = TRUE, !.rxPos = @ + 1]
  ELSE c

\* A scripted byte is only looked at here; reading it advances the script.
FeedScripted(c) ==
  IF ~c.rdrFull /\ c.rxPos < Len(c.rx) /\ c.rtsAsserted /\ c.wait = 0
  THEN [c EXCEPT !.rdrByte = c.rx[c.rxPos + 1], !.rdrFull = TRUE]
  ELSE c

\* Fault: the newest queued byte is fed first.
FeedLive_Newest(c) ==
  IF ~c.rdrFull /\ c.rxq # <<>> /\ c.rtsAsserted
  THEN [c EXCEPT !.rdrByte = c.rxq[Len(c.rxq)], !.rxq = SubSeq(@, 1, Len(@) - 1),
                 !.rdrFull = TRUE]
  ELSE c

\* Fault: live input ignores /RTS.
FeedLive_Unpaced(c) ==
  IF ~c.rdrFull /\ c.rxq # <<>>
  THEN [c EXCEPT !.rdrByte = Head(c.rxq), !.rxq = Tail(@), !.rdrFull = TRUE]
  ELSE c

\* A live byte leaves its queue as soon as the register is free.
FeedLive(c) ==
  IF ~c.rdrFull /\ c.rxq # <<>> /\ c.rtsAsserted
  THEN [c EXCEPT !.rdrByte = Head(c.rxq), !.rxq = Tail(@), !.rdrFull = TRUE]
  ELSE c

\* One step with these bytes read from the channels; the interrupt that the step
\* raises is in irqAsserted.
on_step(c, arrived) ==
  FeedLive(FeedScripted([c EXCEPT !.rxq = @ \o arrived, !.wait = IF @ > 0 THEN @ - 1 ELSE 0]))

\* The request: /IRQ is driven low while this holds, and released otherwise.
irqAsserted(c) == c.rdrFull /\ c.rxIntEnabled

\* The status register as the set of its bits that are 1: TDRE is always set.
Status(c) == IF c.rdrFull THEN {0, 1} ELSE {1}

\* The processor has read the data register.
on_io_post_read(c) ==
  IF c.rdrFull THEN [c EXCEPT !.rdrFull = FALSE, !.rxPos = @ + 1, !.wait = ByteGap] ELSE c

\* A write to the control register, as the set of the bits written: 11 in the
\* low bits is a master reset, which takes /RTS away.
WriteControl(c, bits) ==
  IF {0, 1} \subseteq bits
  THEN [c EXCEPT !.rdrFull = FALSE, !.rxIntEnabled = FALSE, !.rtsAsserted = FALSE]
  ELSE [c EXCEPT !.rxIntEnabled = (7 \in bits), !.rtsAsserted = ~(6 \in bits /\ 5 \notin bits)]

\* A level of the netlist for a modem line; an unknown one counts as 0.
pin_set(c, pin, level) ==
  LET lv == IF level = "1" THEN 1 ELSE 0
  IN  CASE pin = "CTS" -> [c EXCEPT !.ctsLevel = lv]
        [] pin = "DCD" -> [c EXCEPT !.dcdLevel = lv]
        [] OTHER -> c
=============================================================================
