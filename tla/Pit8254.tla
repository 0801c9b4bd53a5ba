------------------------------ MODULE Pit8254 ------------------------------
(***************************************************************************)
(* The timer plugin (plugins/pit8254.cpp) as operators on its context:     *)
(* three counters behind four ports, counted by the processor's clock.     *)
(*                                                                         *)
(* A control word is a record of its fields.  BCD is left out, as it is in *)
(* the code, which counts in binary; so is the display of the counters.    *)
(***************************************************************************)
EXTENDS Integers

CONSTANTS ByteSize     \* values of a byte, 256 in the code

ASSUME ByteSizeAssumption == ByteSize \in Nat /\ ByteSize >= 2

FullSize == ByteSize * ByteSize

Octet == 0 .. ByteSize - 1
Count == 0 .. FullSize

Counter ==
  [initial : 0 .. FullSize - 1, count : Count, mode : 0 .. 5, rw : 1 .. 3,
   out : BOOLEAN, running : BOOLEAN, writeMsbNext : BOOLEAN, writeLsb : Octet,
   latched : BOOLEAN, latchVal : 0 .. FullSize - 1, readMsbNext : BOOLEAN]

NewCounter ==
  [initial |-> 0, count |-> 0, mode |-> 0, rw |-> 3, out |-> FALSE, running |-> FALSE,
   writeMsbNext |-> FALSE, writeLsb |-> 0, latched |-> FALSE, latchVal |-> 0,
   readMsbNext |-> FALSE]

\* on_reset keeps clkdiv and gateMask, which come from the command line.
Reset(clkdiv, gateMask) ==
  [clkAccum |-> 0, clkdiv |-> clkdiv, gateMask |-> gateMask,
   c |-> [i \in 0 .. 2 |-> NewCounter]]

----------------------------------------------------------------------------
(* Counting *)

fullCount(k) == IF k.initial = 0 THEN FullSize ELSE k.initial

\* Rate generator: OUT is low while the count is 1.
TickRate(k) ==
  IF k.count <= 1 THEN [k EXCEPT !.count = fullCount(k), !.out = TRUE]
  ELSE [k EXCEPT !.count = @ - 1, !.out = (k.count # 2)]

\* Fault: an odd count ends a half period one tick early.
TickSquare_Short(k) ==
  IF k.count <= 3 THEN [k EXCEPT !.count = fullCount(k), !.out = ~@]
  ELSE [k EXCEPT !.count = @ - 2]

\* Square wave: down by two, OUT changes at the end of every run.
TickSquare(k) ==
  IF k.count <= 2 THEN [k EXCEPT !.count = fullCount(k), !.out = ~@]
  ELSE [k EXCEPT !.count = @ - 2]

\* The other modes: OUT goes high with the count 0, and the count goes on.
TickDown(k) ==
  LET next == IF k.count = 0 THEN FullSize - 1 ELSE k.count - 1
  IN  [k EXCEPT !.count = next, !.out = (@ \/ next = 0)]

tickCounter(k) ==
  CASE ~k.running -> k
    [] k.running /\ k.mode = 2 -> TickRate(k)
    [] k.running /\ k.mode = 3 -> TickSquare(k)
    [] OTHER -> TickDown(k)

Ticked(k, ticks) ==
  LET after[n \in 0 .. ticks] == IF n = 0 THEN k ELSE tickCounter(after[n - 1])
  IN  after[ticks]

\* The T-states since the last step become ticks of the counters whose gate is high.
\* An instruction is far shorter than the 40000h ticks a step is limited to.
on_step(p, delta) ==
  [p EXCEPT !.clkAccum = (@ + delta) % p.clkdiv,
            !.c = [i \in 0 .. 2 |->
                     IF i \in p.gateMask THEN Ticked(@[i], (p.clkAccum + delta) \div p.clkdiv)
                     ELSE @[i]]]

----------------------------------------------------------------------------
(* The ports *)

Low(v) == v % ByteSize
High(v) == (v \div ByteSize) % ByteSize

\* Loading does not end a pending latch or a read that has its first byte.
loadCounter(k, initial) ==
  [k EXCEPT !.initial = initial, !.count = IF initial = 0 THEN FullSize ELSE initial,
            !.running = TRUE, !.out = (k.mode # 0)]

\* The counter-latch command.
Latch(k) ==
  IF k.latched THEN k
  ELSE [k EXCEPT !.latchVal = k.count % FullSize, !.latched = TRUE, !.readMsbNext = FALSE]

Program(k, word) ==
  LET mode == IF word.mode > 5 THEN word.mode - 4 ELSE word.mode
  IN  [k EXCEPT !.rw = word.rw, !.mode = mode, !.running = FALSE, !.writeMsbNext = FALSE,
                !.readMsbNext = FALSE, !.latched = FALSE, !.out = (mode # 0)]

writeControl(p, word) ==
  IF word.sc = 3 THEN p
  ELSE [p EXCEPT !.c[word.sc] = IF word.rw = 0 THEN Latch(@) ELSE Program(@, word)]

writeCounter(k, val) ==
  CASE k.rw = 1 -> loadCounter(k, val)
    [] k.rw = 2 -> loadCounter(k, ByteSize * val)
    [] k.rw = 3 /\ ~k.writeMsbNext -> [k EXCEPT !.writeLsb = val, !.writeMsbNext = TRUE]
    [] OTHER -> [loadCounter(k, ByteSize * val + k.writeLsb) EXCEPT !.writeMsbNext = FALSE]

readCounterByte(k) ==
  LET v == IF k.latched THEN k.latchVal ELSE k.count
      msb == k.rw = 2 \/ (k.rw = 3 /\ k.readMsbNext)
  IN  IF msb THEN High(v) ELSE Low(v)

\* Fault: the first byte of a pair already releases the latch.
advanceRead_Releases(k) ==
  [k EXCEPT !.readMsbNext = (k.rw = 3 /\ ~@), !.latched = FALSE]

\* After a read: the second byte of a pair, or the only byte, releases the latch.
advanceRead(k) ==
  IF k.rw = 3 /\ ~k.readMsbNext THEN [k EXCEPT !.readMsbNext = TRUE]
  ELSE [k EXCEPT !.readMsbNext = (k.rw # 3 /\ @), !.latched = FALSE]

on_io_write(p, i, value) ==
  IF i = 3 THEN writeControl(p, value) ELSE [p EXCEPT !.c[i] = writeCounter(@, value)]

\* The control port cannot be read.
on_io_post_read(p, i) == IF i = 3 THEN p ELSE [p EXCEPT !.c[i] = advanceRead(@)]

----------------------------------------------------------------------------
(* The wave on OUT as a function of time *)

\* Ticks of one half of the square wave: it is symmetric, also for an odd count.
Half(k) == (fullCount(k) + 1) \div 2

Wrapped(ticks) == ticks % FullSize

\* Ticks since the counter was loaded, whole periods taken off; the modes that
\* count down do not repeat, but their count does once it has passed 0.
SinceLoad(k, ticks) ==
  CASE k.mode = 2 -> ticks % fullCount(k)
    [] k.mode = 3 -> ticks % (2 * Half(k))
    [] OTHER -> IF ticks < fullCount(k) THEN ticks
                ELSE fullCount(k) + Wrapped(ticks - fullCount(k))

\* The wave the plugin means to draw (pit8254.cpp 99-123): mode 0 rises when the count has
\* run out, mode 2 is low for the last tick of each period (a count of 1 has no such
\* tick), mode 3 is high for half of it and low for as long, also for an odd count, of
\* which the chip itself makes the low half a tick shorter; the modes the plugin
\* simplifies stay high.
WaveOut(k, t) ==
  CASE k.mode = 0 -> t >= fullCount(k)
    [] k.mode = 2 -> fullCount(k) = 1 \/ t # fullCount(k) - 1
    [] k.mode = 3 -> t < Half(k)
    [] OTHER -> TRUE

WaveCount(k, t) ==
  CASE k.mode = 2 -> fullCount(k) - t
    [] k.mode = 3 -> fullCount(k) - 2 * (IF t < Half(k) THEN t ELSE t - Half(k))
    [] OTHER -> IF t <= fullCount(k) THEN fullCount(k) - t ELSE FullSize + fullCount(k) - t
=============================================================================
