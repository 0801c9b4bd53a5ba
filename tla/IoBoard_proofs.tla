--------------------------- MODULE IoBoard_proofs ---------------------------
(***************************************************************************)
(* Proofs about the timer and about the board it is on.  A counter follows *)
(* the wave of its mode, and a latched count is read whole, for every size *)
(* of a byte and so for the 65536 counts of the code, of which TLC sees    *)
(* nine.  On the board the counters follow time, the ports show the board  *)
(* and the files hold what was written, for every board and program.       *)
(***************************************************************************)
EXTENDS IoBoard, FiniteSetTheorems, SequenceTheorems, TLAPS

\* The times that SinceLoad tells apart.
Phases(k) ==
  CASE k.mode = 2 -> 0 .. fullCount(k) - 1
    [] k.mode = 3 -> 0 .. 2 * Half(k) - 1
    [] OTHER -> 0 .. fullCount(k) + FullSize - 1

\* The state of a counter that was loaded t ticks ago.
OnWave(k, t) == k.running /\ k.out = WaveOut(k, t) /\ k.count = WaveCount(k, t)

\* A tick does not touch what a counter was programmed with, nor its latch.
SameButCount(k, m) ==
  /\ m.initial = k.initial /\ m.mode = k.mode /\ m.rw = k.rw /\ m.running = k.running
  /\ m.latched = k.latched /\ m.latchVal = k.latchVal /\ m.readMsbNext = k.readMsbNext
  /\ m.writeMsbNext = k.writeMsbNext /\ m.writeLsb = k.writeLsb

----------------------------------------------------------------------------
(* Arithmetic *)

\* A remainder by a divisor that is larger, equal or a multiple.
LEMMA Remainder ==
  ASSUME NEW n \in Nat, NEW d \in Nat, d > 0
  PROVE  /\ n < d => n % d = n
         /\ d % d = 0
         /\ n % d \in 0 .. d - 1
<1> DEFINE q == n \div d
           r == n % d
<1>1. /\ q \in Int /\ r \in 0 .. d - 1
      /\ n = d * q + r
  OBVIOUS
<1>2. d % d \in 0 .. d - 1 /\ d = d * (d \div d) + (d % d) /\ d \div d \in Int
  OBVIOUS
<1> HIDE DEF q, r
<1>3. n < d => q = 0
  <2> SUFFICES ASSUME n < d PROVE q = 0
    OBVIOUS
  <2>1. CASE q >= 1
    <3>1. d * q >= d
      BY <2>1, <1>1
    <3> QED BY <3>1, <1>1
  <2>2. CASE q <= -1
    <3>1. d * q <= -d
      BY <2>2, <1>1
    <3> QED BY <3>1, <1>1
  <2> QED BY <2>1, <2>2, <1>1
<1>4. n < d => r = n
  BY <1>1, <1>3
<1>5. d % d = 0
  <2> DEFINE p == d \div d
             s == d % d
  <2>1. p \in Int /\ s \in 0 .. d - 1 /\ d = d * p + s
    BY <1>2
  <2> HIDE DEF p, s
  <2>2. CASE p <= 0
    <3>1. d * p <= 0
      BY <2>2, <2>1
    <3> QED BY <3>1, <2>1
  <2>3. CASE p >= 1
    <3>1. d * p >= d
      BY <2>3, <2>1
    <3> QED BY <3>1, <2>1 DEF s
  <2> QED BY <2>1, <2>2, <2>3 DEF s
<1> QED BY <1>1, <1>4, <1>5 DEF r

\* Induction as a statement about sets.  Of the numbers up to x that are not in A, each
\* has its predecessor among them: so many numbers and their predecessors, fewer by x,
\* cannot be put one against one.
LEMMA SetInduction ==
  ASSUME NEW A, 0 \in A, \A n \in Nat : n \in A => n + 1 \in A
  PROVE  Nat \subseteq A
<1> SUFFICES ASSUME NEW x \in Nat, x \notin A PROVE FALSE
  OBVIOUS
<1> DEFINE C == (0 .. x) \ A
           f == [n \in C |-> n - 1]
<1>1. IsFiniteSet(C)
  <2>1. IsFiniteSet(0 .. x) /\ C \subseteq 0 .. x
    BY FS_Interval
  <2> QED
    BY <2>1, FS_Subset
<1>2. x \in C
  OBVIOUS
<1>3. IsFiniteSet(C \ {x}) /\ Cardinality(C \ {x}) < Cardinality(C)
  <2>1. IsFiniteSet(C \ {x}) /\ Cardinality(C \ {x}) = Cardinality(C) - 1
    BY <1>1, <1>2, FS_RemoveElement
  <2>2. Cardinality(C) \in Nat
    BY <1>1, FS_CardinalityType
  <2> QED
    BY <2>1, <2>2
<1>4. f \in [C -> C \ {x}]
  <2> SUFFICES ASSUME NEW n \in C PROVE n - 1 \in C \ {x}
    OBVIOUS
  <2>1. n \in Nat /\ n <= x /\ n \notin A /\ n # 0
    OBVIOUS
  <2>2. n - 1 \in Nat /\ (n - 1) + 1 = n
    BY <2>1
  <2>3. n - 1 \notin A
    BY <2>1, <2>2
  <2> QED
    BY <2>1, <2>2, <2>3
<1>5. \A m, n \in C : f[m] = f[n] => m = n
  OBVIOUS
<1> HIDE DEF C, f
<1>6. QED
  BY <1>1, <1>3, <1>4, <1>5, FS_PigeonHole

\* The next remainder.
LEMMA NextRemainder ==
  ASSUME NEW n \in Nat, NEW d \in Nat, d > 0
  PROVE  ((n % d) + 1) % d = (n + 1) % d
<1> DEFINE q == n \div d
           r == n % d
           v == (n + 1) \div d
           w == (n + 1) % d
<1>1. q \in Int /\ r \in 0 .. d - 1 /\ n = d * q + r
  OBVIOUS
<1>2. v \in Int /\ w \in 0 .. d - 1 /\ n + 1 = d * v + w
  OBVIOUS
<1> HIDE DEF q, r, v, w
<1>3. d * (v - q) = r + 1 - w
  <2>1. d * (v - q) = d * v - d * q
    BY <1>1, <1>2
  <2> QED
    BY <1>1, <1>2, <2>1
<1> DEFINE x == v - q
<1>4. x \in Int /\ d * x = r + 1 - w
  BY <1>1, <1>2, <1>3
<1> HIDE DEF x
<1>5. x = 0 \/ x = 1
  <2>1. CASE x >= 2
    <3>1. d * x >= 2 * d
      BY <1>4, <2>1
    <3> QED BY <1>1, <1>2, <1>4, <3>1
  <2>2. CASE x <= -1
    <3>1. d * x <= -d
      BY <1>4, <2>2
    <3> QED BY <1>1, <1>2, <1>4, <3>1
  <2> QED BY <1>4, <2>1, <2>2
<1>6. CASE x = 0
  <2>1. w = r + 1 /\ r + 1 < d /\ r + 1 \in Nat
    BY <1>1, <1>2, <1>4, <1>6
  <2>2. (r + 1) % d = r + 1
    BY <2>1, Remainder
  <2> QED BY <2>1, <2>2 DEF r, w
<1>7. CASE x = 1
  <2>1. w = 0 /\ r + 1 = d
    BY <1>1, <1>2, <1>4, <1>7
  <2>2. (r + 1) % d = 0
    BY <2>1, Remainder
  <2> QED BY <2>1, <2>2 DEF r, w
<1> QED BY <1>5, <1>6, <1>7

\* A word has more values than a byte.
LEMMA FullSizeType == FullSize \in Nat /\ FullSize >= ByteSize /\ FullSize >= 4
<1>1. ByteSize \in Nat /\ ByteSize >= 2
  BY ByteSizeAssumption
<1>2. ByteSize * ByteSize >= 2 * ByteSize
  BY <1>1
<1> QED BY <1>1, <1>2 DEF FullSize

LEMMA FullCountType ==
  ASSUME NEW k \in Counter
  PROVE  fullCount(k) \in 1 .. FullSize
BY FullSizeType DEF Counter, fullCount

\* Half of a period of the square wave: an odd count rounds up.
LEMMA HalfType ==
  ASSUME NEW k \in Counter
  PROVE  /\ Half(k) \in Nat /\ Half(k) >= 1
         /\ 2 * Half(k) = fullCount(k) \/ 2 * Half(k) = fullCount(k) + 1
BY FullCountType, FullSizeType DEF Half

----------------------------------------------------------------------------
(* One tick *)

LEMMA RateTick ==
  ASSUME NEW k \in Counter, k.mode = 2, NEW t \in Phases(k), OnWave(k, t)
  PROVE  /\ SinceLoad(k, t + 1) \in Phases(k)
         /\ OnWave(tickCounter(k), SinceLoad(k, t + 1))
         /\ SameButCount(k, tickCounter(k))
<1> DEFINE F == fullCount(k)
           m == tickCounter(k)
           u == SinceLoad(k, t + 1)
<1>1. F \in Nat /\ F >= 1 /\ t \in 0 .. F - 1 /\ k.count = F - t
  BY FullCountType, FullSizeType DEF Phases, OnWave, WaveCount
<1>2. m = IF k.count <= 1 THEN [k EXCEPT !.count = F, !.out = TRUE]
          ELSE [k EXCEPT !.count = k.count - 1, !.out = (k.count # 2)]
  BY DEF tickCounter, TickRate, OnWave
<1>3. SameButCount(k, m)
  BY <1>2 DEF SameButCount, Counter
<1>4. fullCount(m) = F /\ m.mode = 2 /\ m.running
  BY <1>3 DEF SameButCount, fullCount, OnWave
<1>5. u = (t + 1) % F
  BY DEF SinceLoad
<1>6. /\ Phases(k) = 0 .. F - 1
      /\ WaveCount(m, u) = F - u /\ WaveOut(m, u) = (F = 1 \/ u # F - 1)
  BY <1>4 DEF Phases, WaveCount, WaveOut
<1>7. u = IF t + 1 < F THEN t + 1 ELSE 0
  <2> HIDE DEF F, u
  <2>1. t + 1 \in Nat /\ (t + 1 < F \/ t + 1 = F)
    BY <1>1
  <2> QED BY <1>1, <1>5, <2>1, Remainder
<1>8. m.count = (IF k.count <= 1 THEN F ELSE k.count - 1) /\ m.out = (k.count <= 1 \/ k.count # 2)
  BY <1>2 DEF Counter
<1>9. u \in 0 .. F - 1 /\ m.count = F - u /\ m.out = (F = 1 \/ u # F - 1)
  <2> HIDE DEF F, u, m
  <2>1. CASE t + 1 < F
    BY <1>1, <1>7, <1>8, <2>1
  <2>2. CASE t + 1 >= F
    BY <1>1, <1>7, <1>8, <2>2
  <2> QED BY <1>1, <2>1, <2>2
<1> QED BY <1>3, <1>4, <1>6, <1>9 DEF OnWave

LEMMA SquareTick ==
  ASSUME NEW k \in Counter, k.mode = 3, NEW t \in Phases(k), OnWave(k, t)
  PROVE  /\ SinceLoad(k, t + 1) \in Phases(k)
         /\ OnWave(tickCounter(k), SinceLoad(k, t + 1))
         /\ SameButCount(k, tickCounter(k))
<1> DEFINE F == fullCount(k)
           H == Half(k)
           m == tickCounter(k)
           u == SinceLoad(k, t + 1)
<1>1. /\ F \in Nat /\ F >= 1 /\ H \in Nat /\ H >= 1
      /\ 2 * H = F \/ 2 * H = F + 1
  BY FullCountType, FullSizeType, HalfType
<1>2. /\ t \in 0 .. (2 * H) - 1
      /\ k.out = (t < H)
      /\ t < H => k.count = F - 2 * t
      /\ ~(t < H) => k.count = F - 2 * (t - H)
  BY DEF Phases, OnWave, WaveOut, WaveCount
<1>3. m = IF k.count <= 2 THEN [k EXCEPT !.count = F, !.out = ~k.out]
          ELSE [k EXCEPT !.count = k.count - 2]
  BY DEF tickCounter, TickSquare, OnWave
<1>4. SameButCount(k, m)
  BY <1>3 DEF SameButCount, Counter
<1>5. fullCount(m) = F /\ Half(m) = H /\ m.mode = 3 /\ m.running
  BY <1>4 DEF SameButCount, fullCount, Half, OnWave
<1>6. u = (t + 1) % (2 * H)
  BY DEF SinceLoad
<1>7. /\ Phases(k) = 0 .. (2 * H) - 1
      /\ WaveOut(m, u) = (u < H)
      /\ u < H => WaveCount(m, u) = F - 2 * u
      /\ ~(u < H) => WaveCount(m, u) = F - 2 * (u - H)
  BY <1>5 DEF Phases, WaveCount, WaveOut
<1>8. /\ k.count <= 2 => m.count = F /\ m.out = ~k.out
      /\ ~(k.count <= 2) => m.count = k.count - 2 /\ m.out = k.out
  BY <1>3 DEF Counter
<1> HIDE DEF F, H, m, u
<1>9. u = IF t + 1 < 2 * H THEN t + 1 ELSE 0
  <2>1. 2 * H \in Nat /\ 2 * H > 0 /\ t + 1 \in Nat
    BY <1>1, <1>2
  <2>2. t + 1 < 2 * H \/ t + 1 = 2 * H
    BY <1>1, <1>2
  <2> QED BY <1>6, <2>1, <2>2, Remainder
<1>10. k.count \in Int /\ (k.count <= 2 <=> (t + 1 = H \/ t + 1 = 2 * H))
  BY <1>1, <1>2
<1>11. u \in 0 .. (2 * H) - 1 /\ (u < H <=> (t + 1 < H \/ t + 1 = 2 * H))
  BY <1>1, <1>2, <1>9
<1>12. m.out = (u < H)
  <2>1. CASE k.count <= 2
    <3>1. m.out = ~(t < H)
      BY <1>2, <1>8, <2>1
    <3>2. ~(t < H) <=> u < H
      BY <1>1, <1>2, <1>10, <1>11, <2>1
    <3> QED BY <3>1, <3>2
  <2>2. CASE ~(k.count <= 2)
    <3>1. m.out = (t < H)
      BY <1>2, <1>8, <2>2
    <3>2. t < H <=> u < H
      BY <1>1, <1>2, <1>10, <1>11, <2>2
    <3> QED BY <3>1, <3>2
  <2> QED BY <2>1, <2>2
<1>13. m.count = F - 2 * (IF u < H THEN u ELSE u - H)
  BY <1>1, <1>2, <1>8, <1>9
<1> QED BY <1>4, <1>5, <1>7, <1>11, <1>12, <1>13 DEF OnWave, m, u

LEMMA DownTick ==
  ASSUME NEW k \in Counter, k.mode \notin {2, 3}, NEW t \in Phases(k), OnWave(k, t)
  PROVE  /\ SinceLoad(k, t + 1) \in Phases(k)
         /\ OnWave(tickCounter(k), SinceLoad(k, t + 1))
         /\ SameButCount(k, tickCounter(k))
<1> DEFINE F == fullCount(k)
           m == tickCounter(k)
           u == SinceLoad(k, t + 1)
           next == IF k.count = 0 THEN FullSize - 1 ELSE k.count - 1
<1>1. F \in Nat /\ F >= 1 /\ F <= FullSize /\ FullSize \in Nat
  BY FullCountType, FullSizeType
<1>2. t \in 0 .. F + FullSize - 1 /\ k.count = IF t <= F THEN F - t ELSE FullSize + F - t
  BY DEF Phases, OnWave, WaveCount
<1>3. m = [k EXCEPT !.count = next, !.out = (k.out \/ next = 0)]
  BY DEF tickCounter, TickDown, OnWave
<1>4. SameButCount(k, m)
  BY <1>3 DEF SameButCount, Counter
<1>5. fullCount(m) = F /\ m.mode = k.mode /\ m.running
  BY <1>4 DEF SameButCount, fullCount, OnWave
<1>6. m.count = next /\ m.out = (k.out \/ next = 0)
  BY <1>3 DEF Counter
<1>7. u = IF t + 1 < F THEN t + 1 ELSE F + Wrapped((t + 1) - F)
  BY DEF SinceLoad
<1>8. /\ Phases(k) = 0 .. F + FullSize - 1
      /\ WaveCount(m, u) = IF u <= F THEN F - u ELSE FullSize + F - u
  BY <1>5 DEF Phases, WaveCount
<1>9. /\ k.mode = 0 => k.out = (t >= F) /\ WaveOut(m, u) = (u >= F)
      /\ k.mode # 0 => k.out = TRUE /\ WaveOut(m, u) = TRUE
  BY <1>5 DEF OnWave, WaveOut
<1>10. k.out \in BOOLEAN
  BY DEF Counter
<1> HIDE DEF F, m, u
<1>11. u = IF t + 1 < F + FullSize THEN t + 1 ELSE F
  <2>1. CASE t + 1 < F
    BY <1>1, <1>2, <1>7, <2>1
  <2>2. CASE ~(t + 1 < F)
    <3>1. (t + 1) - F \in Nat /\ FullSize > 0
      BY <1>1, <1>2, <2>2
    <3>2. (t + 1) - F < FullSize \/ (t + 1) - F = FullSize
      BY <1>1, <1>2, <2>2
    <3>3. Wrapped((t + 1) - F) = IF (t + 1) - F < FullSize THEN (t + 1) - F ELSE 0
      BY <1>1, <3>1, <3>2, Remainder DEF Wrapped
    <3> QED BY <1>1, <1>2, <1>7, <2>2, <3>3
  <2> QED BY <2>1, <2>2
<1>12. u \in 0 .. F + FullSize - 1 /\ next = IF u <= F THEN F - u ELSE FullSize + F - u
  BY <1>1, <1>2, <1>11
<1>13. (t >= F \/ next = 0) <=> u >= F
  BY <1>1, <1>2, <1>11
<1> HIDE DEF next
<1>14. m.out = WaveOut(m, u)
  <2>1. CASE k.mode = 0
    <3>1. m.out = (t >= F \/ next = 0) /\ WaveOut(m, u) = (u >= F)
      BY <1>6, <1>9, <2>1
    <3> QED BY <1>13, <3>1
  <2>2. CASE k.mode # 0
    BY <1>6, <1>9, <2>2
  <2> QED BY <2>1, <2>2
<1> QED BY <1>4, <1>5, <1>6, <1>8, <1>12, <1>14 DEF OnWave, m, u

\* A tick takes a running counter from its state t ticks after it was loaded to that
\* t + 1 ticks after: an odd count in the square wave, a count of 0 for the largest and
\* the wrap behind 0 included (pit8254.cpp 95-125).
THEOREM TickFollowsWave ==
  ASSUME NEW k \in Counter, NEW t \in Phases(k), OnWave(k, t)
  PROVE  /\ SinceLoad(k, t + 1) \in Phases(k)
         /\ OnWave(tickCounter(k), SinceLoad(k, t + 1))
         /\ SameButCount(k, tickCounter(k))
BY RateTick, SquareTick, DownTick

----------------------------------------------------------------------------
(* Any number of ticks *)

LEMMA TickType ==
  ASSUME NEW k \in Counter
  PROVE  tickCounter(k) \in Counter
<1>1. fullCount(k) \in Count /\ FullSize \in Nat /\ FullSize >= 4
  BY FullCountType, FullSizeType DEF Count
<1>2. k.count \in 0 .. FullSize /\ k.out \in BOOLEAN
  BY DEF Counter, Count
<1>3. ASSUME NEW count \in Count, NEW out \in BOOLEAN
      PROVE  [k EXCEPT !.count = count, !.out = out] \in Counter
  BY <1>3 DEF Counter
<1>4. ASSUME NEW count \in Count
      PROVE  [k EXCEPT !.count = count] \in Counter
  BY <1>4 DEF Counter
<1>5. TickRate(k) \in Counter
  <2>1. CASE k.count <= 1
    BY <1>1, <1>3, <2>1 DEF TickRate
  <2>2. CASE ~(k.count <= 1)
    <3>1. k.count - 1 \in Count /\ (k.count # 2) \in BOOLEAN
      BY <1>1, <1>2, <2>2 DEF Count
    <3> QED BY <1>3, <2>2, <3>1 DEF TickRate
  <2> QED BY <2>1, <2>2
<1>6. TickSquare(k) \in Counter
  <2>1. CASE k.count <= 2
    BY <1>1, <1>2, <1>3, <2>1 DEF TickSquare
  <2>2. CASE ~(k.count <= 2)
    <3>1. k.count - 2 \in Count
      BY <1>1, <1>2, <2>2 DEF Count
    <3> QED BY <1>4, <2>2, <3>1 DEF TickSquare
  <2> QED BY <2>1, <2>2
<1>7. TickDown(k) \in Counter
  <2> DEFINE next == IF k.count = 0 THEN FullSize - 1 ELSE k.count - 1
  <2>1. next \in Count
    BY <1>1, <1>2 DEF Count
  <2>2. (k.out \/ next = 0) \in BOOLEAN
    OBVIOUS
  <2>3. TickDown(k) = [k EXCEPT !.count = next, !.out = (k.out \/ next = 0)]
    BY DEF TickDown
  <2> HIDE DEF next
  <2> QED BY <1>3, <2>1, <2>2, <2>3
<1> QED BY <1>5, <1>6, <1>7 DEF tickCounter

\* The times of SinceLoad: it takes whole periods off, and no tick is lost by taking
\* them off in between.
LEMMA SinceLoadType ==
  ASSUME NEW k \in Counter, NEW x \in Nat
  PROVE  SinceLoad(k, x) \in Phases(k)
<1> DEFINE F == fullCount(k)
<1>1. F \in Nat /\ F >= 1 /\ FullSize \in Nat /\ FullSize >= 1
  BY FullCountType, FullSizeType
<1> HIDE DEF F
<1>2. CASE k.mode = 2
  <2>1. x % F \in 0 .. F - 1
    BY <1>1, Remainder
  <2> QED BY <1>2, <2>1 DEF SinceLoad, Phases, F
<1>3. CASE k.mode = 3
  <2>1. x % (2 * Half(k)) \in 0 .. 2 * Half(k) - 1
    <3> DEFINE d == 2 * Half(k)
    <3>1. d \in Nat /\ d > 0
      BY HalfType
    <3> HIDE DEF d
    <3>2. x % d \in 0 .. d - 1
      BY <3>1, Remainder
    <3> QED BY <3>2 DEF d
  <2> QED BY <1>3, <2>1 DEF SinceLoad, Phases
<1>4. CASE k.mode \notin {2, 3}
  <2>1. SinceLoad(k, x) = IF x < F THEN x ELSE F + Wrapped(x - F)
    BY <1>4 DEF SinceLoad, F
  <2>2. Phases(k) = 0 .. F + FullSize - 1
    BY <1>4 DEF Phases, F
  <2>3. CASE x < F
    BY <1>1, <2>1, <2>2, <2>3
  <2>4. CASE ~(x < F)
    <3>1. x - F \in Nat
      BY <1>1, <2>4
    <3>2. Wrapped(x - F) \in 0 .. FullSize - 1
      BY <1>1, <3>1, Remainder DEF Wrapped
    <3> QED BY <1>1, <2>1, <2>2, <2>4, <3>2
  <2> QED BY <2>3, <2>4
<1> QED BY <1>2, <1>3, <1>4

LEMMA SinceLoadStart ==
  ASSUME NEW k \in Counter, NEW t \in Phases(k)
  PROVE  t \in Nat /\ SinceLoad(k, t) = t
<1> DEFINE F == fullCount(k)
<1>1. F \in Nat /\ F >= 1 /\ FullSize \in Nat /\ FullSize >= 1
  BY FullCountType, FullSizeType
<1> HIDE DEF F
<1>2. CASE k.mode = 2
  <2>1. t \in 0 .. F - 1
    BY <1>2 DEF Phases, F
  <2>2. t % F = t
    BY <1>1, <2>1, Remainder
  <2> QED BY <1>2, <2>1, <2>2 DEF SinceLoad, F
<1>3. CASE k.mode = 3
  <2> DEFINE d == 2 * Half(k)
  <2>1. d \in Nat /\ d > 0 /\ t \in 0 .. d - 1
    BY <1>3, HalfType DEF Phases
  <2>2. SinceLoad(k, t) = t % d
    BY <1>3 DEF SinceLoad
  <2> HIDE DEF d
  <2>3. t % d = t
    BY <2>1, Remainder
  <2> QED BY <2>1, <2>2, <2>3
<1>4. CASE k.mode \notin {2, 3}
  <2>1. SinceLoad(k, t) = IF t < F THEN t ELSE F + Wrapped(t - F)
    BY <1>4 DEF SinceLoad, F
  <2>2. t \in 0 .. F + FullSize - 1
    BY <1>4 DEF Phases, F
  <2>3. CASE t < F
    BY <2>1, <2>2, <2>3
  <2>4. CASE ~(t < F)
    <3>1. t - F \in Nat /\ t - F < FullSize
      BY <1>1, <2>2, <2>4
    <3>2. Wrapped(t - F) = t - F
      BY <1>1, <3>1, Remainder DEF Wrapped
    <3> QED BY <1>1, <2>1, <2>2, <2>4, <3>2
  <2> QED BY <2>3, <2>4
<1> QED BY <1>2, <1>3, <1>4

LEMMA SinceLoadNext ==
  ASSUME NEW k \in Counter, NEW x \in Nat
  PROVE  SinceLoad(k, SinceLoad(k, x) + 1) = SinceLoad(k, x + 1)
<1> DEFINE F == fullCount(k)
<1>1. F \in Nat /\ F >= 1 /\ FullSize \in Nat /\ FullSize >= 1
  BY FullCountType, FullSizeType
<1> HIDE DEF F
<1>2. CASE k.mode = 2
  <2>1. F > 0
    BY <1>1
  <2>2. ((x % F) + 1) % F = (x + 1) % F
    BY <1>1, <2>1, NextRemainder, Zenon
  <2> QED BY <1>2, <2>2 DEF SinceLoad, F
<1>3. CASE k.mode = 3
  <2> DEFINE d == 2 * Half(k)
  <2>1. d \in Nat /\ d > 0
    BY HalfType
  <2>2. \A y : SinceLoad(k, y) = y % d
    BY <1>3 DEF SinceLoad
  <2> HIDE DEF d
  <2>3. ((x % d) + 1) % d = (x + 1) % d
    BY <2>1, NextRemainder
  <2> QED BY <2>2, <2>3
<1>4. CASE k.mode \notin {2, 3}
  <2>1. \A y : SinceLoad(k, y) = IF y < F THEN y ELSE F + Wrapped(y - F)
    BY <1>4 DEF SinceLoad, F
  <2>2. CASE x < F
    BY <2>1, <2>2
  <2>3. CASE ~(x < F)
    <3> DEFINE y == x - F
               w == Wrapped(y)
    <3>1. y \in Nat /\ x = F + y
      BY <1>1, <2>3
    <3>2. w \in 0 .. FullSize - 1 /\ (w + 1) % FullSize = (y + 1) % FullSize
      <4> HIDE DEF y
      <4>1. FullSize > 0 /\ y \in Nat
        BY <1>1, <3>1
      <4>2. y % FullSize \in 0 .. FullSize - 1
        BY <1>1, <4>1, Remainder, Zenon
      <4>3. ((y % FullSize) + 1) % FullSize = (y + 1) % FullSize
        BY <1>1, <4>1, NextRemainder, Zenon
      <4> QED BY <4>2, <4>3, Zenon DEF Wrapped
    <3>3. SinceLoad(k, x) = F + w
      BY <2>1, <2>3
    <3> HIDE DEF w, y
    <3>4. SinceLoad(k, (F + w) + 1) = F + Wrapped(w + 1)
      <4>1. ((F + w) + 1) - F = w + 1 /\ ~((F + w) + 1 < F)
        BY <1>1, <3>2
      <4> QED BY <2>1, <4>1
    <3>5. SinceLoad(k, x + 1) = F + Wrapped(y + 1)
      <4>1. (x + 1) - F = y + 1 /\ ~(x + 1 < F)
        BY <1>1, <3>1
      <4> QED BY <2>1, <4>1
    <3> QED BY <3>2, <3>3, <3>4, <3>5 DEF Wrapped
  <2> QED BY <2>2, <2>3
<1> QED BY <1>2, <1>3, <1>4

\* The recursion of Ticked, as an equation, and that it has a solution: one for t + 1
\* ticks goes on where one for t ends.
IsRun(g, k, t) == g = [n \in 0 .. t |-> IF n = 0 THEN k ELSE tickCounter(g[n - 1])]

LEMMA RunExists ==
  ASSUME NEW k, NEW ticks \in Nat
  PROVE  \E g : IsRun(g, k, ticks)
<1> DEFINE A == {t \in Nat : \E g : IsRun(g, k, t)}
<1>1. 0 \in A
  <2>1. IsRun([n \in 0 .. 0 |-> k], k, 0)
    BY DEF IsRun
  <2> QED BY <2>1
<1>2. ASSUME NEW t \in Nat, t \in A PROVE t + 1 \in A
  <2>1. PICK g : IsRun(g, k, t)
    BY <1>2
  <2> DEFINE h == [n \in 0 .. t + 1 |-> IF n = t + 1 THEN tickCounter(g[t]) ELSE g[n]]
  <2>2. ASSUME NEW n \in 0 .. t + 1
        PROVE  h[n] = IF n = 0 THEN k ELSE tickCounter(h[n - 1])
    <3>1. CASE n = t + 1
      <4>1. n # 0 /\ n - 1 = t /\ t \in 0 .. t + 1 /\ t # t + 1
        BY <3>1
      <4>2. h[n] = tickCounter(g[t]) /\ h[t] = g[t]
        BY <3>1, <4>1
      <4> QED BY <4>1, <4>2, Zenon
    <3>2. CASE n # t + 1
      <4>1. n \in 0 .. t /\ (n # 0 => n - 1 \in 0 .. t + 1 /\ n - 1 # t + 1)
        BY <3>2
      <4>2. h[n] = g[n] /\ (n # 0 => h[n - 1] = g[n - 1])
        BY <3>2, <4>1
      <4>3. g[n] = IF n = 0 THEN k ELSE tickCounter(g[n - 1])
        BY <2>1, <4>1, Zenon DEF IsRun
      <4> QED BY <4>2, <4>3, Zenon
    <3> QED BY <3>1, <3>2
  <2>3. h = [n \in 0 .. t + 1 |-> h[n]]
    OBVIOUS
  <2> HIDE DEF h
  <2>4. IsRun(h, k, t + 1)
    BY <2>2, <2>3, Zenon DEF IsRun
  <2> QED BY <2>4
<1> HIDE DEF A
<1>3. Nat \subseteq A
  BY <1>1, <1>2, SetInduction
<1> QED BY <1>3 DEF A

LEMMA TickedRuns ==
  ASSUME NEW k, NEW ticks \in Nat
  PROVE  \E g : IsRun(g, k, ticks) /\ Ticked(k, ticks) = g[ticks]
<1> DEFINE after == CHOOSE g : IsRun(g, k, ticks)
<1>1. IsRun(after, k, ticks)
  BY RunExists, Zenon
<1>2. Ticked(k, ticks) = after[ticks]
  BY Zenon DEF Ticked, IsRun
<1> QED BY <1>1, <1>2, Zenon

\* As long as it is not written to, a counter is on its wave: after any number of ticks
\* it is where the time since it was loaded says, whatever the length of the steps that
\* time came in (pit8254.cpp 212-229).
THEOREM StepFollowsWave ==
  ASSUME NEW k \in Counter, NEW ticks \in Nat
  PROVE  LET m == Ticked(k, ticks)
         IN  /\ m \in Counter /\ SameButCount(k, m)
             /\ ~k.running => m = k
             /\ \A t \in Phases(k) : OnWave(k, t) =>
                  SinceLoad(k, t + ticks) \in Phases(k) /\ OnWave(m, SinceLoad(k, t + ticks))
<1>1. PICK g : IsRun(g, k, ticks) /\ Ticked(k, ticks) = g[ticks]
  BY TickedRuns
<1> DEFINE Good(n) ==
      /\ g[n] \in Counter /\ SameButCount(k, g[n])
      /\ ~k.running => g[n] = k
      /\ \A t \in Phases(k) : OnWave(k, t) => OnWave(g[n], SinceLoad(k, t + n))
    A == {n \in Nat : n <= ticks => Good(n)}
<1>2. 0 \in A
  <2>1. g[0] = k
    BY <1>1 DEF IsRun
  <2>2. ASSUME NEW t \in Phases(k) PROVE SinceLoad(k, t + 0) = t
    <3>1. t \in Nat /\ SinceLoad(k, t) = t
      BY SinceLoadStart
    <3>2. t + 0 = t
      BY <3>1
    <3> QED BY <3>1, <3>2
  <2>3. SameButCount(k, k)
    BY DEF SameButCount
  <2>4. Good(0)
    BY <2>1, <2>2, <2>3
  <2> QED BY <2>4
<1>3. ASSUME NEW n \in Nat, n \in A PROVE n + 1 \in A
  <2> SUFFICES ASSUME n + 1 <= ticks PROVE Good(n + 1)
    OBVIOUS
  <2>1. Good(n)
    BY <1>3
  <2>2. g[n + 1] = tickCounter(g[n])
    <3>1. n + 1 \in 0 .. ticks /\ n + 1 # 0 /\ (n + 1) - 1 = n
      OBVIOUS
    <3> QED BY <1>1, <3>1 DEF IsRun
  <2> DEFINE c == g[n]
             d == g[n + 1]
  <2>3. c \in Counter /\ SameButCount(k, c) /\ d = tickCounter(c)
    BY <2>1, <2>2
  <2>4. /\ ~k.running => c = k
        /\ \A t \in Phases(k) : OnWave(k, t) => OnWave(c, SinceLoad(k, t + n))
    BY <2>1
  <2> HIDE DEF c, d
  <2>5. d \in Counter
    BY <2>3, TickType
  <2>6. ~k.running => d = k
    BY <2>3, <2>4 DEF tickCounter
  <2>7. fullCount(c) = fullCount(k) /\ Half(c) = Half(k) /\ c.mode = k.mode
    BY <2>3 DEF SameButCount, fullCount, Half
  <2>8. Phases(c) = Phases(k) /\ \A x : SinceLoad(c, x) = SinceLoad(k, x)
    BY <2>7 DEF Phases, SinceLoad
  <2>9. SameButCount(k, d)
    <3>1. SameButCount(c, d)
      BY <2>3 DEF SameButCount, tickCounter, TickRate, TickSquare, TickDown, Counter
    <3> QED BY <2>3, <3>1 DEF SameButCount
  <2>10. ASSUME NEW t \in Phases(k), OnWave(k, t)
         PROVE  OnWave(d, SinceLoad(k, t + (n + 1)))
    <3> DEFINE u == SinceLoad(k, t + n)
    <3>1. t \in Nat
      BY SinceLoadStart
    <3>2. t + n \in Nat /\ t + (n + 1) = (t + n) + 1
      BY <3>1
    <3>3. u \in Phases(c) /\ OnWave(c, u)
      BY <2>4, <2>8, <2>10, <3>2, SinceLoadType
    <3>4. OnWave(d, SinceLoad(c, u + 1))
      BY <2>3, <3>3, TickFollowsWave
    <3>5. SinceLoad(k, u + 1) = SinceLoad(k, t + (n + 1))
      BY <3>2, SinceLoadNext
    <3> QED BY <2>8, <3>4, <3>5
  <2> QED BY <2>5, <2>6, <2>9, <2>10 DEF d
<1> HIDE DEF A
<1>4. Nat \subseteq A
  BY <1>2, <1>3, SetInduction
<1>5. Good(ticks)
  BY <1>4 DEF A
<1>6. ASSUME NEW t \in Phases(k) PROVE SinceLoad(k, t + ticks) \in Phases(k)
  <2>1. t + ticks \in Nat
    BY SinceLoadStart
  <2> QED BY <2>1, SinceLoadType
<1> QED BY <1>1, <1>5, <1>6

----------------------------------------------------------------------------
(* The ports *)

\* What a program can do to a counter through the ports, other than program it anew.
Accessed(k, m) ==
  m = Latch(k) \/ m = advanceRead(k) \/ \E byte \in Octet : m = writeCounter(k, byte)

\* A new count, of one byte or of both, starts the wave of the mode.
LEMMA LoadStartsWave ==
  ASSUME NEW k \in Counter, NEW initial \in 0 .. FullSize - 1
  PROVE  /\ 0 \in Phases(loadCounter(k, initial))
         /\ OnWave(loadCounter(k, initial), 0)
<1> DEFINE m == loadCounter(k, initial)
           F == fullCount(m)
<1>1. /\ m.initial = initial /\ m.running = TRUE /\ m.mode = k.mode /\ m.out = (k.mode # 0)
      /\ m.count = IF initial = 0 THEN FullSize ELSE initial
  BY DEF loadCounter, Counter
<1>2. F = IF initial = 0 THEN FullSize ELSE initial
  BY <1>1 DEF fullCount
<1>3. F \in Nat /\ F >= 1 /\ m.count = F
  BY <1>1, <1>2, FullSizeType
<1>4. Half(m) \in Nat /\ Half(m) >= 1
  <2> HIDE DEF F, m
  <2>1. (F + 1) \div 2 \in Nat /\ (F + 1) \div 2 >= 1
    BY <1>3
  <2> QED BY <2>1 DEF Half, F
<1> HIDE DEF F, m
<1>5. 0 \in Phases(m)
  BY <1>3, <1>4, FullSizeType DEF Phases, F
<1>6. m.count = WaveCount(m, 0)
  BY <1>3, <1>4 DEF WaveCount, F
<1>7. m.out = WaveOut(m, 0)
  <2>1. CASE k.mode = 0
    BY <1>1, <1>3, <2>1 DEF WaveOut, F
  <2>2. CASE k.mode = 2
    <3>1. WaveOut(m, 0) = (F = 1 \/ 0 # F - 1)
      BY <1>1, <2>2 DEF WaveOut, F
    <3> QED BY <1>1, <1>3, <2>2, <3>1
  <2>3. CASE k.mode = 3
    <3>1. WaveOut(m, 0) = (0 < Half(m))
      BY <1>1, <2>3 DEF WaveOut
    <3> QED BY <1>1, <1>4, <2>3, <3>1
  <2>4. CASE k.mode \notin {0, 2, 3}
    BY <1>1, <2>4 DEF WaveOut
  <2> QED BY <2>1, <2>2, <2>3, <2>4
<1> QED BY <1>1, <1>5, <1>6, <1>7 DEF OnWave, m

\* Bytes make a word.
LEMMA WordOfBytes ==
  ASSUME NEW high \in Octet, NEW low \in Octet
  PROVE  ByteSize * high + low \in 0 .. FullSize - 1
<1>1. ByteSize \in Nat /\ high \in 0 .. ByteSize - 1 /\ low \in 0 .. ByteSize - 1
  BY ByteSizeAssumption DEF Octet
<1>2. ByteSize * high \in Nat /\ ByteSize * high <= ByteSize * (ByteSize - 1)
  BY <1>1
<1>3. ByteSize * (ByteSize - 1) = ByteSize * ByteSize - ByteSize
  BY <1>1
<1> DEFINE upper == ByteSize * high
           square == ByteSize * ByteSize
<1>4. square \in Nat /\ upper \in Nat /\ upper <= square - ByteSize
  BY <1>1, <1>2, <1>3
<1> HIDE DEF upper, square
<1>5. upper + low \in 0 .. square - 1
  BY <1>1, <1>4
<1> QED BY <1>5 DEF upper, square, FullSize

\* Only a whole new count disturbs the wave of a running counter, and then it starts
\* anew: a latch command, a read and the first byte of a pair do not (pit8254.cpp
\* 127-210).
THEOREM AccessKeepsWave ==
  ASSUME NEW k \in Counter, NEW t \in Phases(k), OnWave(k, t), NEW m, Accessed(k, m)
  PROVE  OnWave(m, t) \/ OnWave(m, 0)
<1> DEFINE Same(n) == /\ n.initial = k.initial /\ n.mode = k.mode /\ n.running = k.running
                      /\ n.out = k.out /\ n.count = k.count
<1>1. ASSUME NEW n, Same(n) PROVE OnWave(n, t)
  BY <1>1 DEF OnWave, WaveOut, WaveCount, fullCount, Half
<1>2. CASE m = Latch(k)
  <2>1. Same(m)
    BY <1>2 DEF Latch, Counter
  <2> QED BY <1>1, <2>1
<1>3. CASE m = advanceRead(k)
  <2>1. Same(m)
    BY <1>3 DEF advanceRead, Counter
  <2> QED BY <1>1, <2>1
<1>4. ASSUME NEW byte \in Octet, m = writeCounter(k, byte) PROVE OnWave(m, t) \/ OnWave(m, 0)
  <2> USE <1>4
  <2>1. CASE k.rw = 1
    <3>1. byte \in 0 .. FullSize - 1
      BY FullSizeType, ByteSizeAssumption DEF Octet
    <3>2. m = loadCounter(k, byte)
      BY <2>1 DEF writeCounter
    <3> QED BY <3>1, <3>2, LoadStartsWave
  <2>2. CASE k.rw = 2
    <3>1. ByteSize * byte \in 0 .. FullSize - 1
      <4>1. 0 \in Octet /\ ByteSize * byte + 0 = ByteSize * byte
        BY ByteSizeAssumption DEF Octet
      <4> QED BY <4>1, WordOfBytes
    <3>2. m = loadCounter(k, ByteSize * byte)
      BY <2>2 DEF writeCounter
    <3> QED BY <3>1, <3>2, LoadStartsWave
  <2>3. CASE k.rw = 3 /\ ~k.writeMsbNext
    <3>1. m = [k EXCEPT !.writeLsb = byte, !.writeMsbNext = TRUE]
      BY <2>3 DEF writeCounter
    <3>2. Same(m)
      BY <3>1 DEF Counter
    <3> QED BY <1>1, <3>2
  <2>4. CASE k.rw = 3 /\ k.writeMsbNext
    <3> DEFINE word == ByteSize * byte + k.writeLsb
               n == loadCounter(k, word)
    <3>1. word \in 0 .. FullSize - 1
      BY WordOfBytes DEF Counter
    <3>2. m = [n EXCEPT !.writeMsbNext = FALSE]
      BY <2>4 DEF writeCounter
    <3>3. OnWave(n, 0)
      BY <3>1, LoadStartsWave
    <3>4. /\ m.initial = n.initial /\ m.mode = n.mode /\ m.running = n.running
          /\ m.out = n.out /\ m.count = n.count
      BY <3>2 DEF loadCounter, Counter
    <3> HIDE DEF n
    <3> QED BY <3>3, <3>4 DEF OnWave, WaveOut, WaveCount, fullCount, Half
  <2> QED BY <2>1, <2>2, <2>3, <2>4 DEF Counter
<1> QED BY <1>2, <1>3, <1>4 DEF Accessed

\* Two counters that a read cannot tell apart: one some ticks, further latch commands
\* or a first byte of a new count later than the other.
SameLatch(k, m) ==
  /\ m.latched = k.latched /\ m.latchVal = k.latchVal
  /\ m.rw = k.rw /\ m.readMsbNext = k.readMsbNext

\* A latched count stays what it is while the counter goes on, is latched again or
\* given a new count (pit8254.cpp 95-133, 141-149).
THEOREM LatchHolds ==
  ASSUME NEW k \in Counter, k.latched
  PROVE  /\ SameLatch(k, tickCounter(k)) /\ SameLatch(k, Latch(k))
         /\ \A byte \in Octet : SameLatch(k, writeCounter(k, byte))
<1>1. SameLatch(k, Latch(k))
  BY DEF SameLatch, Latch
<1>2. SameLatch(k, tickCounter(k))
  BY DEF SameLatch, tickCounter, TickRate, TickSquare, TickDown, Counter
<1>3. ASSUME NEW byte \in Octet PROVE SameLatch(k, writeCounter(k, byte))
  BY DEF SameLatch, writeCounter, loadCounter, Counter
<1> QED BY <1>1, <1>2, <1>3

\* A pair of reads after a latch command gives the two bytes of the count at the
\* command, low and high, and only the second releases it; whatever keeps the latch
\* may happen before each (pit8254.cpp 141-149, 187-210).
THEOREM LatchReadWhole ==
  ASSUME NEW k \in Counter, k.rw = 3, ~k.latched,
         NEW first \in Counter, SameLatch(Latch(k), first),
         NEW second \in Counter, SameLatch(advanceRead(first), second)
  PROVE  /\ readCounterByte(first) = Low(k.count % FullSize)
         /\ readCounterByte(second) = High(k.count % FullSize)
         /\ second.latched /\ ~advanceRead(second).latched
<1>1. /\ first.latched = TRUE /\ first.latchVal = k.count % FullSize
      /\ first.rw = 3 /\ first.readMsbNext = FALSE
  BY DEF Latch, SameLatch, Counter
<1>2. advanceRead(first) = [first EXCEPT !.readMsbNext = TRUE]
  BY <1>1 DEF advanceRead
<1>3. /\ second.latched = TRUE /\ second.latchVal = k.count % FullSize
      /\ second.rw = 3 /\ second.readMsbNext = TRUE
  BY <1>1, <1>2 DEF SameLatch, Counter
<1>4. ~advanceRead(second).latched
  BY <1>3 DEF advanceRead, Counter
<1> QED BY <1>1, <1>3, <1>4 DEF readCounterByte

----------------------------------------------------------------------------
(* One counter *)

\* A latched counter and the account of its latch: nothing of the count has been read,
\* or the first byte of a pair.
Latched(k, w) ==
  \/ w = [value |-> k.latchVal, bytes |-> <<>>] /\ (k.rw = 3 => ~k.readMsbNext)
  \/ w = [value |-> k.latchVal, bytes |-> <<Low(k.latchVal)>>] /\ k.rw = 3 /\ k.readMsbNext

\* A counter, the time since it was loaded and the account of its latch agree.
CounterInv(k, t, w) ==
  /\ k \in Counter /\ t \in Nat
  /\ k.running => t \in Phases(k) /\ OnWave(k, t)
  /\ ~k.running => k.out = (k.mode # 0)
  /\ IF k.latched THEN Latched(k, w) ELSE w = None

LEMMA LatchedIsSome ==
  ASSUME NEW k, NEW w, Latched(k, w)
  PROVE  w # None
BY DEF Latched, None

\* What the invariant says of a counter depends on these fields.
LEMMA CounterInvSame ==
  ASSUME NEW k, NEW t, NEW w, CounterInv(k, t, w), NEW m \in Counter,
         /\ m.initial = k.initial /\ m.mode = k.mode /\ m.running = k.running
         /\ m.out = k.out /\ m.count = k.count /\ m.rw = k.rw
         /\ m.latched = k.latched /\ m.latchVal = k.latchVal /\ m.readMsbNext = k.readMsbNext
  PROVE  CounterInv(m, t, w)
<1>1. fullCount(m) = fullCount(k) /\ Half(m) = Half(k)
  BY DEF fullCount, Half
<1>2. Phases(m) = Phases(k)
  BY <1>1 DEF Phases
<1>3. OnWave(k, t) => OnWave(m, t)
  BY <1>1 DEF OnWave, WaveOut, WaveCount
<1>4. Latched(k, w) => Latched(m, w)
  BY DEF Latched
<1> QED
  BY <1>2, <1>3, <1>4 DEF CounterInv

\* Any number of ticks, if the gate is high.
LEMMA StepKeepsCounter ==
  ASSUME NEW k, NEW t, NEW w, CounterInv(k, t, w), NEW ticks \in Nat
  PROVE  /\ CounterInv(Ticked(k, ticks), IF k.running THEN SinceLoad(k, t + ticks) ELSE t, w)
         /\ SameButCount(k, Ticked(k, ticks))
<1> DEFINE m == Ticked(k, ticks)
           u == SinceLoad(k, t + ticks)
<1>1. /\ k \in Counter /\ t \in Nat
      /\ m \in Counter /\ SameButCount(k, m)
      /\ ~k.running => m = k
      /\ \A x \in Phases(k) : OnWave(k, x) =>
           SinceLoad(k, x + ticks) \in Phases(k) /\ OnWave(m, SinceLoad(k, x + ticks))
  BY StepFollowsWave DEF CounterInv
<1> HIDE DEF m
<1>2. CASE ~k.running
  BY <1>1, <1>2 DEF m
<1>3. CASE k.running
  <2>1. u \in Phases(k) /\ OnWave(m, u)
    BY <1>1, <1>3 DEF CounterInv
  <2>2. t + ticks \in Nat
    BY <1>1
  <2>3. u \in Nat
    BY <1>1, <2>1, SinceLoadStart
  <2>4. m.running /\ m.mode = k.mode /\ m.latched = k.latched
    BY <1>1, <1>3 DEF SameButCount
  <2>5. Phases(m) = Phases(k)
    BY <1>1 DEF SameButCount, Phases, fullCount, Half
  <2>6. Latched(k, w) => Latched(m, w)
    BY <1>1 DEF SameButCount, Latched
  <2>7. CounterInv(m, u, w)
    BY <1>1, <2>1, <2>3, <2>4, <2>5, <2>6 DEF CounterInv
  <2> QED BY <1>1, <1>3, <2>7 DEF m
<1> QED BY <1>2, <1>3

\* The count of a counter that is not running is not on a wave.
LEMMA StoppedAnyAge ==
  ASSUME NEW k, NEW t, NEW w, CounterInv(k, t, w), ~k.running, NEW u \in Nat
  PROVE  CounterInv(k, u, w)
BY DEF CounterInv

LEMMA LoadKeepsCounter ==
  ASSUME NEW k, NEW t, NEW w, CounterInv(k, t, w), NEW initial \in 0 .. FullSize - 1
  PROVE  CounterInv(loadCounter(k, initial), 0, w)
<1> DEFINE m == loadCounter(k, initial)
<1>1. k \in Counter
  BY DEF CounterInv
<1>2. 0 \in Phases(m) /\ OnWave(m, 0)
  BY <1>1, LoadStartsWave
<1>3. /\ m.running = TRUE
      /\ m.latched = k.latched /\ m.latchVal = k.latchVal
      /\ m.rw = k.rw /\ m.readMsbNext = k.readMsbNext
  BY <1>1 DEF loadCounter, Counter
<1>4. m \in Counter
  <2>1. (IF initial = 0 THEN FullSize ELSE initial) \in Count
    BY FullSizeType DEF Count
  <2> QED BY <1>1, <2>1 DEF loadCounter, Counter
<1> HIDE DEF m
<1>5. Latched(k, w) => Latched(m, w)
  BY <1>3 DEF Latched
<1> QED BY <1>2, <1>3, <1>4, <1>5 DEF CounterInv, m

\* The first byte of a pair only waits for the second; every other byte loads the counter.
LEMMA WriteKeepsCounter ==
  ASSUME NEW k, NEW t, NEW w, CounterInv(k, t, w), NEW byte \in Octet
  PROVE  CounterInv(writeCounter(k, byte),
                    IF k.rw = 3 => k.writeMsbNext THEN 0 ELSE t, w)
<1>1. k \in Counter /\ k.rw \in 1 .. 3 /\ k.writeLsb \in Octet /\ k.writeMsbNext \in BOOLEAN
  BY DEF CounterInv, Counter
<1>2. CASE k.rw = 1
  <2>1. byte \in 0 .. FullSize - 1
    BY FullSizeType, ByteSizeAssumption DEF Octet
  <2>2. writeCounter(k, byte) = loadCounter(k, byte)
    BY <1>2 DEF writeCounter
  <2> QED BY <1>2, <2>1, <2>2, LoadKeepsCounter
<1>3. CASE k.rw = 2
  <2>1. ByteSize * byte \in 0 .. FullSize - 1
    <3>1. 0 \in Octet /\ ByteSize * byte + 0 = ByteSize * byte
      BY ByteSizeAssumption DEF Octet
    <3> QED BY <3>1, WordOfBytes
  <2>2. writeCounter(k, byte) = loadCounter(k, ByteSize * byte)
    BY <1>3 DEF writeCounter
  <2> QED BY <1>3, <2>1, <2>2, LoadKeepsCounter
<1>4. CASE k.rw = 3 /\ ~k.writeMsbNext
  <2> DEFINE m == writeCounter(k, byte)
  <2>1. m = [k EXCEPT !.writeLsb = byte, !.writeMsbNext = TRUE]
    BY <1>4 DEF writeCounter
  <2>2. /\ m \in Counter
        /\ m.initial = k.initial /\ m.mode = k.mode /\ m.running = k.running
        /\ m.out = k.out /\ m.count = k.count /\ m.rw = k.rw
        /\ m.latched = k.latched /\ m.latchVal = k.latchVal /\ m.readMsbNext = k.readMsbNext
    BY <1>1, <2>1 DEF Counter
  <2> HIDE DEF m
  <2>3. CounterInv(m, t, w)
    BY <2>2, CounterInvSame
  <2> QED BY <1>4, <2>3 DEF m
<1>5. CASE k.rw = 3 /\ k.writeMsbNext
  <2> DEFINE word == ByteSize * byte + k.writeLsb
             n == loadCounter(k, word)
             m == writeCounter(k, byte)
  <2>1. word \in 0 .. FullSize - 1
    BY <1>1, WordOfBytes
  <2>2. CounterInv(n, 0, w)
    BY <2>1, LoadKeepsCounter
  <2>3. m = [n EXCEPT !.writeMsbNext = FALSE]
    BY <1>5 DEF writeCounter
  <2>4. n \in Counter
    BY <2>2 DEF CounterInv
  <2> HIDE DEF n, m, word
  <2>5. /\ m \in Counter
        /\ m.initial = n.initial /\ m.mode = n.mode /\ m.running = n.running
        /\ m.out = n.out /\ m.count = n.count /\ m.rw = n.rw
        /\ m.latched = n.latched /\ m.latchVal = n.latchVal /\ m.readMsbNext = n.readMsbNext
    BY <2>3, <2>4 DEF Counter
  <2>6. CounterInv(m, 0, w)
    BY <2>2, <2>5, CounterInvSame
  <2> QED BY <1>5, <2>6 DEF m
<1> QED BY <1>1, <1>2, <1>3, <1>4, <1>5

\* A latch command takes the count, unless a count is latched already.
LEMMA LatchKeepsCounter ==
  ASSUME NEW k, NEW t, NEW w, CounterInv(k, t, w)
  PROVE  CounterInv(Latch(k), t,
                    IF w = None THEN [value |-> k.count % FullSize, bytes |-> <<>>] ELSE w)
<1>1. k \in Counter /\ t \in Nat
  BY DEF CounterInv
<1>2. CASE k.latched
  <2>1. w # None
    BY <1>2, LatchedIsSome DEF CounterInv
  <2> QED BY <1>2, <2>1 DEF Latch
<1>3. CASE ~k.latched
  <2> DEFINE m == Latch(k)
             v == k.count % FullSize
  <2>1. w = None
    BY <1>3 DEF CounterInv
  <2>2. v \in 0 .. FullSize - 1
    <3>1. k.count \in Nat /\ FullSize \in Nat /\ FullSize > 0
      BY <1>1, FullSizeType DEF Counter, Count
    <3> QED BY <3>1, Remainder
  <2>3. m = [k EXCEPT !.latchVal = v, !.latched = TRUE, !.readMsbNext = FALSE]
    BY <1>3 DEF Latch
  <2> HIDE DEF v
  <2>4. /\ m \in Counter
        /\ m.initial = k.initial /\ m.mode = k.mode /\ m.running = k.running
        /\ m.out = k.out /\ m.count = k.count
        /\ m.latched = TRUE /\ m.latchVal = v /\ m.readMsbNext = FALSE
    BY <1>1, <2>2, <2>3 DEF Counter
  <2> HIDE DEF m
  <2>5. Phases(m) = Phases(k) /\ (OnWave(k, t) => OnWave(m, t))
    BY <2>4 DEF Phases, OnWave, WaveOut, WaveCount, fullCount, Half
  <2>6. Latched(m, [value |-> v, bytes |-> <<>>])
    BY <2>4 DEF Latched
  <2>7. CounterInv(m, t, [value |-> v, bytes |-> <<>>])
    BY <1>1, <2>4, <2>5, <2>6 DEF CounterInv
  <2> QED BY <2>1, <2>7 DEF m, v
<1> QED BY <1>2, <1>3

LEMMA ProgramKeepsCounter ==
  ASSUME NEW k \in Counter, NEW word \in [sc : 0 .. 3, rw : 0 .. 3, mode : 0 .. 7], word.rw # 0,
         NEW t \in Nat
  PROVE  CounterInv(Program(k, word), t, None)
<1> DEFINE mode == IF word.mode > 5 THEN word.mode - 4 ELSE word.mode
           m == Program(k, word)
<1>1. mode \in 0 .. 5 /\ word.rw \in 1 .. 3
  OBVIOUS
<1>2. m = [k EXCEPT !.rw = word.rw, !.mode = mode, !.running = FALSE, !.writeMsbNext = FALSE,
                    !.readMsbNext = FALSE, !.latched = FALSE, !.out = (mode # 0)]
  BY DEF Program
<1> HIDE DEF mode
<1>3. (mode # 0) \in BOOLEAN
  OBVIOUS
<1>4. m.running = FALSE /\ m.latched = FALSE /\ m.mode = mode /\ m.out = (mode # 0)
  BY <1>2 DEF Counter
<1>5. m \in Counter
  BY <1>1, <1>2, <1>3 DEF Counter
<1> HIDE DEF m
<1> QED BY <1>4, <1>5 DEF CounterInv, m

----------------------------------------------------------------------------
(* Reading a counter *)

LEMMA Longer ==
  ASSUME NEW S, NEW s \in Seq(S), NEW e \in S, NEW t \in Seq(S),
         Len(t) = Len(s) + 1, \A i \in 1 .. Len(s) : t[i] = s[i], t[Len(s) + 1] = e
  PROVE  Append(s, e) = t
<1>1. /\ Append(s, e) \in Seq(S) /\ Len(Append(s, e)) = Len(s) + 1 /\ Len(s) \in Nat
      /\ \A i \in 1 .. Len(s) : Append(s, e)[i] = s[i]
      /\ Append(s, e)[Len(s) + 1] = e
  BY AppendProperties, LenProperties
<1>2. \A i \in 1 .. Len(s) + 1 : Append(s, e)[i] = t[i]
  BY <1>1
<1> QED
  BY <1>1, <1>2, SeqEqual

LEMMA SecondElement ==
  ASSUME NEW a, NEW b
  PROVE  Append(<<a>>, b) = <<a, b>>
<1> DEFINE S == {a, b}
           s == <<a>>
           t == <<a, b>>
<1>1. /\ s \in Seq(S) /\ t \in Seq(S) /\ Len(s) = 1 /\ Len(t) = 2 /\ b \in S
      /\ s[1] = a /\ t[1] = a /\ t[2] = b
  OBVIOUS
<1> HIDE DEF S, s, t
<1>2. /\ Len(t) = Len(s) + 1 /\ t[Len(s) + 1] = b
      /\ \A i \in 1 .. Len(s) : t[i] = s[i]
  <2>1. \A i \in 1 .. 1 : i = 1
    OBVIOUS
  <2> QED BY <1>1, <2>1
<1>3. Append(s, b) = t
  BY <1>1, <1>2, Longer
<1> QED BY <1>3 DEF s, t

\* A read passes the first byte of a pair or ends the latch, and the byte read is the
\* one that comes next of the latched count.
LEMMA ReadKeepsCounter ==
  ASSUME NEW k, NEW t, NEW w, CounterInv(k, t, w)
  PROVE  LET read == Append(w.bytes, readCounterByte(k))
             expected == Expected(k, w.value)
             next == IF w = None \/ Len(read) = Len(expected) THEN None
                     ELSE [w EXCEPT !.bytes = read]
         IN  /\ CounterInv(advanceRead(k), t, next)
             /\ w # None => IsPrefix(read, expected)
<1> DEFINE m == advanceRead(k)
           read == Append(w.bytes, readCounterByte(k))
           expected == Expected(k, w.value)
           next == IF w = None \/ Len(read) = Len(expected) THEN None
                   ELSE [w EXCEPT !.bytes = read]
<1>1. k \in Counter /\ k.rw \in 1 .. 3 /\ t \in Nat /\ k.latched \in BOOLEAN /\ k.readMsbNext \in BOOLEAN
  BY DEF CounterInv, Counter
<1>2. /\ m \in Counter
      /\ m.initial = k.initial /\ m.mode = k.mode /\ m.running = k.running
      /\ m.out = k.out /\ m.count = k.count /\ m.rw = k.rw /\ m.latchVal = k.latchVal
      /\ k.rw = 3 /\ ~k.readMsbNext => m.latched = k.latched /\ m.readMsbNext = TRUE
      /\ ~(k.rw = 3 /\ ~k.readMsbNext) => m.latched = FALSE
  <2>1. CASE k.rw = 3 /\ ~k.readMsbNext
    <3>1. m = [k EXCEPT !.readMsbNext = TRUE]
      BY <2>1 DEF advanceRead
    <3> QED BY <1>1, <2>1, <3>1 DEF Counter
  <2>2. CASE ~(k.rw = 3 /\ ~k.readMsbNext)
    <3> DEFINE b == k.rw # 3 /\ k.readMsbNext
    <3>1. m = [k EXCEPT !.readMsbNext = b, !.latched = FALSE]
      BY <2>2 DEF advanceRead
    <3>2. b \in BOOLEAN
      OBVIOUS
    <3> HIDE DEF b
    <3> QED BY <1>1, <2>2, <3>1, <3>2 DEF Counter
  <2> QED BY <2>1, <2>2
<1> HIDE DEF m
<1>3. Phases(m) = Phases(k) /\ (OnWave(k, t) => OnWave(m, t))
  BY <1>2 DEF Phases, OnWave, WaveOut, WaveCount, fullCount, Half
<1>4. ASSUME NEW x, IF m.latched THEN Latched(m, x) ELSE x = None
      PROVE  CounterInv(m, t, x)
  BY <1>1, <1>2, <1>3, <1>4 DEF CounterInv
<1>5. CASE ~k.latched
  <2>1. w = None /\ ~m.latched
    BY <1>2, <1>5 DEF CounterInv
  <2>2. CounterInv(m, t, None)
    BY <1>4, <2>1
  <2> QED BY <2>1, <2>2 DEF m
<1>6. CASE k.latched
  <2>1. Latched(k, w) /\ w # None
    BY <1>6, LatchedIsSome DEF CounterInv
  <2> DEFINE v == k.latchVal
  <2>2. w.value = v /\ w = [value |-> v, bytes |-> w.bytes]
    BY <2>1 DEF Latched
  <2>3. CASE k.rw # 3
    <3>1. w.bytes = <<>>
      BY <2>1, <2>3 DEF Latched
    <3>2. expected = <<readCounterByte(k)>>
      BY <1>1, <1>6, <2>2, <2>3 DEF Expected, readCounterByte
    <3>3. read = <<readCounterByte(k)>>
      BY <3>1
    <3>4. read = expected /\ Len(read) = 1 /\ Len(expected) = 1
      BY <3>2, <3>3
    <3>5. IsPrefix(read, expected)
      BY <3>4 DEF IsPrefix
    <3>6. next = None /\ ~m.latched
      BY <1>2, <2>3, <3>4
    <3>7. CounterInv(m, t, next)
      BY <1>4, <3>6
    <3> QED BY <3>5, <3>7 DEF m
  <2>4. CASE k.rw = 3 /\ ~k.readMsbNext
    <3>1. w.bytes = <<>>
      BY <2>1, <2>4 DEF Latched
    <3>2. expected = <<Low(v), High(v)>>
      BY <2>2, <2>4 DEF Expected
    <3>3. read = <<Low(v)>>
      BY <1>6, <2>4, <3>1 DEF readCounterByte
    <3>4. IsPrefix(read, expected)
      BY <3>2, <3>3 DEF IsPrefix
    <3>5. next = [value |-> v, bytes |-> <<Low(v)>>]
      <4>1. Len(read) # Len(expected)
        BY <3>2, <3>3
      <4>2. next = [w EXCEPT !.bytes = read]
        BY <2>1, <4>1
      <4> HIDE DEF read
      <4> QED BY <2>2, <3>3, <4>2
    <3>6. m.latched /\ m.latchVal = v /\ m.rw = 3 /\ m.readMsbNext = TRUE
      BY <1>2, <1>6, <2>4
    <3> HIDE DEF v, next
    <3>7. Latched(m, next)
      BY <3>5, <3>6 DEF Latched
    <3>8. CounterInv(m, t, next)
      BY <1>4, <3>6, <3>7
    <3> QED BY <3>4, <3>8 DEF m, next
  <2>5. CASE k.rw = 3 /\ k.readMsbNext
    <3>1. w.bytes = <<Low(v)>>
      BY <2>1, <2>5 DEF Latched
    <3>2. expected = <<Low(v), High(v)>>
      BY <2>2, <2>5 DEF Expected
    <3>3. read = <<Low(v), High(v)>>
      <4>1. readCounterByte(k) = High(v)
        BY <1>6, <2>5 DEF readCounterByte
      <4>2. Append(<<Low(v)>>, High(v)) = <<Low(v), High(v)>>
        BY SecondElement, Zenon
      <4> QED BY <3>1, <4>1, <4>2, Zenon
    <3>4. read = expected /\ IsPrefix(read, expected)
      BY <3>2, <3>3 DEF IsPrefix
    <3>5. next = None /\ ~m.latched
      BY <1>2, <2>5, <3>4
    <3>6. CounterInv(m, t, next)
      BY <1>4, <3>5
    <3> QED BY <3>4, <3>6 DEF m
  <2> QED BY <1>1, <2>3, <2>4, <2>5
<1> QED BY <1>1, <1>5, <1>6

----------------------------------------------------------------------------
(* The timer *)

\* The timer's clock is the time of the program, and its counters agree with the account.
TimerInv ==
  /\ board \in Boards /\ clock \in Nat /\ states \in Nat
  /\ pit = [clkAccum |-> clock, clkdiv |-> board.clkdiv, gateMask |-> board.gateMask, c |-> pit.c]
  /\ pit.c = [n \in 0 .. 2 |-> pit.c[n]]
  /\ \A n \in 0 .. 2 : CounterInv(pit.c[n], age[n], watch[n])
  /\ torn = FALSE

\* The timer and the ports once the time of the last instruction has passed.
PitNow == on_step(pit, states)
PpiNow == Wired(PitNow, ppi)

LEMMA BoardType ==
  ASSUME NEW b \in Boards
  PROVE  IsBoard(b)
BY BoardsAssumption

LEMMA GuestType ==
  ASSUME board \in Boards, NEW i \in board.guest
  PROVE  IsInstruction(i)
BY BoardsAssumption DEF IsBoard

LEMMA InstructionSteps ==
  ASSUME NEW i, Instruction(i)
  PROVE  \E refused \in Refusals(i) :
           /\ Allowed(i) /\ Record(i, PitNow, refused) /\ board' = board
           /\ Run(i, PitNow, PpiNow) \/ Out(i, PitNow, PpiNow, refused) \/ In(i, PitNow, PpiNow)
BY DEF Instruction, Stepped, PitNow, PpiNow

LEMMA Quotient ==
  ASSUME NEW n \in Nat, NEW d \in Nat, d > 0
  PROVE  n \div d \in Nat
<1> DEFINE q == n \div d
           r == n % d
<1>1. q \in Int /\ r \in 0 .. d - 1 /\ n = d * q + r
  OBVIOUS
<1> HIDE DEF q, r
<1>2. CASE q <= -1
  <2>1. d * q <= -d
    BY <1>1, <1>2
  <2> QED BY <1>1, <2>1
<1>3. q >= 0
  BY <1>1, <1>2
<1> QED BY <1>1, <1>3 DEF q

\* The step of the timer, and that each counter still agrees with its account.
LEMMA PitStep ==
  ASSUME TimerInv
  PROVE  /\ Ticks \in Nat
         /\ PitNow = [clkAccum |-> (clock + states) % board.clkdiv, clkdiv |-> board.clkdiv,
                      gateMask |-> board.gateMask, c |-> PitNow.c]
         /\ PitNow.c = [n \in 0 .. 2 |-> PitNow.c[n]]
         /\ \A n \in 0 .. 2 :
              /\ SameButCount(pit.c[n], PitNow.c[n])
              /\ CounterInv(PitNow.c[n],
                            IF pit.c[n].running /\ n \in board.gateMask
                            THEN SinceLoad(pit.c[n], age[n] + Ticks) ELSE age[n], watch[n])
<1>1. board.clkdiv \in Nat /\ board.clkdiv > 0
  BY BoardType DEF TimerInv, IsBoard
<1>2. clock + states \in Nat
  BY DEF TimerInv
<1>3. Ticks \in Nat
  BY <1>1, <1>2, Quotient DEF Ticks
<1> DEFINE c == [n \in 0 .. 2 |-> IF n \in board.gateMask THEN Ticked(pit.c[n], Ticks) ELSE pit.c[n]]
<1>4. PitNow = [clkAccum |-> (clock + states) % board.clkdiv, clkdiv |-> board.clkdiv,
                gateMask |-> board.gateMask, c |-> c]
  <2>1. /\ pit = [clkAccum |-> clock, clkdiv |-> board.clkdiv, gateMask |-> board.gateMask,
                  c |-> pit.c]
        /\ pit.clkAccum = clock /\ pit.clkdiv = board.clkdiv /\ pit.gateMask = board.gateMask
    BY DEF TimerInv
  <2>2. PitNow = [pit EXCEPT !.clkAccum = (clock + states) % board.clkdiv, !.c = c]
    BY <2>1 DEF PitNow, on_step, TimerInv, Ticks
  <2> HIDE DEF c
  <2> QED BY <2>1, <2>2
<1>5. PitNow.c = c
  BY <1>4
<1>6. ASSUME NEW n \in 0 .. 2
      PROVE  /\ SameButCount(pit.c[n], c[n])
             /\ CounterInv(c[n], IF pit.c[n].running /\ n \in board.gateMask
                                 THEN SinceLoad(pit.c[n], age[n] + Ticks) ELSE age[n], watch[n])
  <2>1. CounterInv(pit.c[n], age[n], watch[n])
    BY DEF TimerInv
  <2>2. CASE n \in board.gateMask
    <3>1. c[n] = Ticked(pit.c[n], Ticks)
      BY <2>2
    <3> HIDE DEF c
    <3> QED BY <1>3, <2>1, <2>2, <3>1, StepKeepsCounter
  <2>3. CASE n \notin board.gateMask
    <3>1. c[n] = pit.c[n]
      BY <2>3
    <3>2. SameButCount(pit.c[n], pit.c[n])
      BY DEF SameButCount
    <3> HIDE DEF c
    <3> QED BY <2>1, <2>3, <3>1, <3>2
  <2> QED BY <2>2, <2>3
<1> QED BY <1>3, <1>4, <1>5, <1>6

\* What instruction i does to counter n, which the last step has left as k.
Operated(i, n, k) ==
  CASE i.op = "OUT" /\ i.dev = "pit" /\ i.reg = n -> writeCounter(k, i.value)
    [] i.op = "OUT" /\ i.dev = "pit" /\ i.reg = 3 /\ i.value.sc = n ->
         IF i.value.rw = 0 THEN Latch(k) ELSE Program(k, i.value)
    [] i.op = "IN" /\ i.dev = "pit" /\ i.reg = n -> advanceRead(k)
    [] OTHER -> k

LEMMA PitAfter ==
  ASSUME TimerInv, NEW i \in board.guest, Instruction(i)
  PROVE  pit' = [PitNow EXCEPT !.c = [n \in 0 .. 2 |-> Operated(i, n, PitNow.c[n])]]
<1> DEFINE p == PitNow
           after == [n \in 0 .. 2 |-> Operated(i, n, p.c[n])]
<1>1. PICK refused \in Refusals(i) :
        /\ IsInstruction(i)
        /\ Run(i, p, PpiNow) \/ Out(i, p, PpiNow, refused) \/ In(i, p, PpiNow)
  BY InstructionSteps, GuestType DEF TimerInv
<1>2. /\ p = [clkAccum |-> p.clkAccum, clkdiv |-> p.clkdiv, gateMask |-> p.gateMask, c |-> p.c]
      /\ p.c = [n \in 0 .. 2 |-> p.c[n]]
  BY PitStep
<1> HIDE DEF p
<1>3. ASSUME after = p.c PROVE p = [p EXCEPT !.c = after]
  BY <1>2, <1>3
<1>4. ASSUME \A n \in 0 .. 2 : Operated(i, n, p.c[n]) = p.c[n] PROVE after = p.c
  BY <1>2, <1>4
<1>5. CASE i.op = "RUN" \/ i.dev # "pit"
  <2>1. pit' = p
    BY <1>1, <1>5 DEF Run, Out, In
  <2>2. \A n \in 0 .. 2 : Operated(i, n, p.c[n]) = p.c[n]
    BY <1>5 DEF Operated
  <2> QED BY <1>3, <1>4, <2>1, <2>2 DEF p
<1>6. CASE i.op = "OUT" /\ i.dev = "pit" /\ i.reg # 3
  <2>1. pit' = [p EXCEPT !.c[i.reg] = writeCounter(p.c[i.reg], i.value)]
    BY <1>1, <1>6 DEF Run, Out, In, on_io_write
  <2>2. \A n \in 0 .. 2 : Operated(i, n, p.c[n]) =
          IF n = i.reg THEN writeCounter(p.c[n], i.value) ELSE p.c[n]
    BY <1>6 DEF Operated
  <2> QED BY <1>2, <2>1, <2>2 DEF p
<1>7. CASE i.op = "OUT" /\ i.dev = "pit" /\ i.reg = 3
  <2> DEFINE new(k) == IF i.value.rw = 0 THEN Latch(k) ELSE Program(k, i.value)
  <2>1. pit' = writeControl(p, i.value)
    BY <1>1, <1>7 DEF Run, Out, In, on_io_write
  <2>2. \A n \in 0 .. 2 : Operated(i, n, p.c[n]) = IF n = i.value.sc THEN new(p.c[n]) ELSE p.c[n]
    BY <1>7 DEF Operated
  <2>3. CASE i.value.sc = 3
    <3>1. pit' = p
      BY <2>1, <2>3 DEF writeControl
    <3>2. \A n \in 0 .. 2 : Operated(i, n, p.c[n]) = p.c[n]
      BY <2>2, <2>3
    <3> QED BY <1>3, <1>4, <3>1, <3>2 DEF p
  <2>4. CASE i.value.sc # 3
    <3>1. pit' = [p EXCEPT !.c[i.value.sc] = new(p.c[i.value.sc])]
      BY <2>1, <2>4 DEF writeControl
    <3> HIDE DEF new
    <3> QED BY <1>2, <2>2, <3>1 DEF p
  <2> QED BY <2>3, <2>4
<1>8. CASE i.op = "IN" /\ i.dev = "pit"
  <2>1. pit' = on_io_post_read(p, i.reg)
    BY <1>1, <1>8 DEF Run, Out, In
  <2>2. \A n \in 0 .. 2 : Operated(i, n, p.c[n]) = IF n = i.reg THEN advanceRead(p.c[n]) ELSE p.c[n]
    BY <1>8 DEF Operated
  <2>3. CASE i.reg = 3
    <3>1. pit' = p
      BY <2>1, <2>3 DEF on_io_post_read
    <3>2. \A n \in 0 .. 2 : Operated(i, n, p.c[n]) = p.c[n]
      BY <2>2, <2>3
    <3> QED BY <1>3, <1>4, <3>1, <3>2 DEF p
  <2>4. CASE i.reg # 3
    <3>1. pit' = [p EXCEPT !.c[i.reg] = advanceRead(p.c[i.reg])]
      BY <2>1, <2>4 DEF on_io_post_read
    <3> QED BY <1>2, <2>2, <3>1 DEF p
  <2> QED BY <2>3, <2>4
<1>9. QED
  <2>1. i.op \in {"RUN", "IN", "OUT"}
    BY <1>1 DEF IsInstruction
  <2> QED BY <2>1, <1>5, <1>6, <1>7, <1>8

\* Whatever the instruction is, the counter and its account go on together, and what it
\* reads of a latched count is right.
LEMMA CounterAfter ==
  ASSUME TimerInv, NEW i \in board.guest, NEW n \in 0 .. 2
  PROVE  /\ CounterInv(Operated(i, n, PitNow.c[n]), Aged(i, n), Watched(i, n, PitNow))
         /\ ~Torn(i, n, PitNow)
<1> DEFINE k0 == pit.c[n]
           k == PitNow.c[n]
           w == watch[n]
           t == IF ~k0.running THEN 0 ELSE
                IF n \notin board.gateMask THEN age[n] ELSE SinceLoad(k0, age[n] + Ticks)
<1>1. IsInstruction(i)
  BY GuestType DEF TimerInv
<1>2. /\ SameButCount(k0, k) /\ CounterInv(k0, age[n], w)
      /\ CounterInv(k, IF k0.running /\ n \in board.gateMask
                       THEN SinceLoad(k0, age[n] + Ticks) ELSE age[n], w)
  BY PitStep DEF TimerInv
<1>3. Aged(i, n) = IF Loads(i, n) THEN 0 ELSE t
  BY DEF Aged
<1>4. /\ n # 3
      /\ Loads(i, n) <=> (i.op = "OUT" /\ i.dev = "pit" /\ i.reg = n /\ (k0.rw = 3 => k0.writeMsbNext))
  <2>1. n # 3
    OBVIOUS
  <2> QED BY <2>1, Zenon DEF Loads
<1>5. k.running = k0.running /\ k.rw = k0.rw /\ k.writeMsbNext = k0.writeMsbNext
  BY <1>2 DEF SameButCount
<1>6. k \in Counter
  BY <1>2 DEF CounterInv
<1> HIDE DEF k0, k
<1>7. CounterInv(k, t, w)
  <2>1. CASE ~k0.running
    <3>1. t = 0 /\ ~k.running /\ 0 \in Nat
      BY <1>5, <2>1
    <3> HIDE DEF t
    <3> QED BY <1>2, <3>1, StoppedAnyAge
  <2>2. CASE k0.running
    <3>1. t = IF k0.running /\ n \in board.gateMask
              THEN SinceLoad(k0, age[n] + Ticks) ELSE age[n]
      BY <2>2
    <3> HIDE DEF t
    <3> QED BY <1>2, <3>1
  <2> QED BY <2>1, <2>2
<1> HIDE DEF t
<1>8. CASE i.op = "OUT" /\ i.dev = "pit" /\ i.reg = n
  <2>1. Operated(i, n, k) = writeCounter(k, i.value) /\ i.value \in Octet
    BY <1>1, <1>4, <1>8 DEF Operated, IsInstruction, Values
  <2>2. Watched(i, n, PitNow) = w /\ ~Torn(i, n, PitNow)
    BY <1>4, <1>8 DEF Watched, Torn, ToControl, ReadsCounter
  <2>3. Aged(i, n) = IF k.rw = 3 => k.writeMsbNext THEN 0 ELSE t
    BY <1>3, <1>4, <1>5, <1>8
  <2> QED BY <1>7, <2>1, <2>2, <2>3, WriteKeepsCounter DEF k
<1>9. CASE ToControl(i, n)
  <2>1. /\ i.value \in [sc : 0 .. 3, rw : 0 .. 3, mode : 0 .. 7]
        /\ i.op = "OUT" /\ i.dev = "pit" /\ i.reg = 3 /\ i.value.sc = n
    BY <1>1, <1>9 DEF ToControl, IsInstruction, Values
  <2>2. Operated(i, n, k) = IF i.value.rw = 0 THEN Latch(k) ELSE Program(k, i.value)
    BY <1>4, <2>1 DEF Operated
  <2>3. ~Torn(i, n, PitNow) /\ ~ReadsCounter(i, n)
    BY <2>1 DEF Torn, ReadsCounter
  <2>4. Aged(i, n) = t
    BY <1>3, <1>4, <2>1
  <2>5. CASE i.value.rw # 0
    <3>1. Watched(i, n, PitNow) = None
      BY <1>9, <2>3, <2>5 DEF Watched
    <3>2. t \in Nat
      BY <1>7 DEF CounterInv
    <3>3. CounterInv(Program(k, i.value), t, None)
      BY <1>6, <2>1, <2>5, <3>2, ProgramKeepsCounter
    <3> QED BY <2>2, <2>3, <2>4, <2>5, <3>1, <3>3 DEF k
  <2>6. CASE i.value.rw = 0
    <3>1. Watched(i, n, PitNow) = IF w = None THEN [value |-> k.count % FullSize, bytes |-> <<>>] ELSE w
      BY <1>9, <2>3, <2>6 DEF Watched, k
    <3>2. CounterInv(Latch(k), t, IF w = None THEN [value |-> k.count % FullSize, bytes |-> <<>>] ELSE w)
      BY <1>7, LatchKeepsCounter
    <3> QED BY <2>2, <2>3, <2>4, <2>6, <3>1, <3>2 DEF k
  <2> QED BY <2>5, <2>6
<1>10. CASE i.op = "IN" /\ i.dev = "pit" /\ i.reg = n
  <2> DEFINE read == Append(w.bytes, readCounterByte(k))
             expected == Expected(k, w.value)
             next == IF w = None \/ Len(read) = Len(expected) THEN None
                     ELSE [w EXCEPT !.bytes = read]
  <2>1. Operated(i, n, k) = advanceRead(k)
    BY <1>10 DEF Operated
  <2>2. ~ToControl(i, n) /\ ~Loads(i, n) /\ (ReadsCounter(i, n) <=> w # None)
    BY <1>4, <1>10 DEF ToControl, ReadsCounter
  <2>3. Aged(i, n) = t
    BY <1>3, <2>2
  <2>4. BytesRead(n, PitNow) = read
    BY DEF BytesRead, k
  <2>5. Watched(i, n, PitNow) = next
    BY <2>2, <2>4 DEF Watched, k
  <2>6. Torn(i, n, PitNow) = (w # None /\ ~IsPrefix(read, expected))
    BY <2>2, <2>4 DEF Torn, k
  <2>7. CounterInv(advanceRead(k), t, next) /\ (w # None => IsPrefix(read, expected))
    BY <1>7, ReadKeepsCounter
  <2> HIDE DEF read, expected, next
  <2> QED BY <2>1, <2>3, <2>5, <2>6, <2>7 DEF k
<1>11. CASE /\ ~(i.op = "OUT" /\ i.dev = "pit" /\ i.reg = n)
            /\ ~ToControl(i, n)
            /\ ~(i.op = "IN" /\ i.dev = "pit" /\ i.reg = n)
  <2>1. Operated(i, n, k) = k
    BY <1>11 DEF Operated, ToControl
  <2>2. ~ReadsCounter(i, n) /\ ~Loads(i, n)
    BY <1>4, <1>11 DEF ReadsCounter
  <2>3. Watched(i, n, PitNow) = w /\ ~Torn(i, n, PitNow) /\ Aged(i, n) = t
    BY <1>3, <1>11, <2>2 DEF Watched, Torn
  <2> QED BY <1>7, <2>1, <2>3 DEF k
<1> QED BY <1>8, <1>9, <1>10, <1>11

LEMMA TimerInit == Init => TimerInv
<1> SUFFICES ASSUME Init PROVE TimerInv
  OBVIOUS
<1> DEFINE c == [n \in 0 .. 2 |-> NewCounter]
<1>1. /\ board \in Boards /\ clock = 0 /\ states = 0 /\ torn = FALSE
      /\ age = [n \in 0 .. 2 |-> 0] /\ watch = [n \in 0 .. 2 |-> None]
  BY DEF Init
<1>2. pit = [clkAccum |-> 0, clkdiv |-> board.clkdiv, gateMask |-> board.gateMask, c |-> c]
  BY DEF Init, Reset
<1>3. pit.c = c
  BY <1>2
<1>4. NewCounter \in Counter
  BY FullSizeType, ByteSizeAssumption DEF NewCounter, Counter, Count, Octet
<1>5. CounterInv(NewCounter, 0, None)
  BY <1>4 DEF CounterInv, NewCounter
<1> QED BY <1>1, <1>2, <1>3, <1>5 DEF TimerInv

LEMMA TimerNext ==
  ASSUME TimerInv, NEW i \in board.guest, Instruction(i)
  PROVE  TimerInv'
<1>1. IsInstruction(i) /\ board \in Boards /\ torn = FALSE
  BY GuestType DEF TimerInv
<1>2. PICK refused \in Refusals(i) :
        /\ Record(i, PitNow, refused) /\ board' = board
        /\ Run(i, PitNow, PpiNow) \/ Out(i, PitNow, PpiNow, refused) \/ In(i, PitNow, PpiNow)
  BY InstructionSteps
<1> DEFINE c == [n \in 0 .. 2 |-> Operated(i, n, PitNow.c[n])]
<1>3. pit' = [PitNow EXCEPT !.c = c]
  BY PitAfter
<1>4. PitNow = [clkAccum |-> (clock + states) % board.clkdiv, clkdiv |-> board.clkdiv,
                gateMask |-> board.gateMask, c |-> PitNow.c]
  BY PitStep
<1>5. /\ clock' = (clock + states) % board.clkdiv
      /\ torn' = (torn \/ \E n \in 0 .. 2 : Torn(i, n, PitNow))
      /\ \A n \in 0 .. 2 : age'[n] = Aged(i, n) /\ watch'[n] = Watched(i, n, PitNow)
  BY <1>2 DEF Record
<1>6. \A n \in 0 .. 2 : CounterInv(c[n], Aged(i, n), Watched(i, n, PitNow)) /\ ~Torn(i, n, PitNow)
  BY CounterAfter
<1> HIDE DEF c
<1>7. pit' = [clkAccum |-> clock', clkdiv |-> board'.clkdiv, gateMask |-> board'.gateMask, c |-> c]
  BY <1>2, <1>3, <1>4, <1>5
<1>8. pit'.c = c
  BY <1>7
<1>9. clock' \in Nat
  <2>1. clock \in Nat /\ states \in Nat
    BY DEF TimerInv
  <2>2. board.clkdiv \in Nat \ {0}
    BY <1>1, BoardType DEF IsBoard
  <2>3. clock + states \in Nat /\ board.clkdiv \in Nat /\ board.clkdiv > 0
    BY <2>1, <2>2
  <2>4. (clock + states) % board.clkdiv \in 0 .. board.clkdiv - 1
    BY <2>3, Remainder
  <2> QED BY <1>5, <2>3, <2>4
<1>10. states' \in Nat
  BY <1>1, <1>2 DEF Run, Out, In, IsInstruction, IoStates
<1>11. torn' = FALSE
  BY <1>1, <1>5, <1>6
<1>12. c = [n \in 0 .. 2 |-> c[n]]
  BY DEF c
<1>13. \A n \in 0 .. 2 : CounterInv(pit'.c[n], age'[n], watch'[n])
  BY <1>5, <1>6, <1>8
<1> QED BY <1>1, <1>2, <1>7, <1>8, <1>9, <1>10, <1>11, <1>12, <1>13 DEF TimerInv

LEMMA TimerStutter == TimerInv /\ UNCHANGED vars => TimerInv'
BY DEF TimerInv, vars

\* OUT and the count of a running counter are functions of the time since it was
\* loaded, whatever the program does and however long its instructions are
\* (pit8254.cpp 95-125, 212-229).
THEOREM OutFollowsTimeHolds == Spec => []OutFollowsTime
<1>1. TimerInv /\ [Next]_vars => TimerInv'
  BY TimerNext, TimerStutter DEF Next
<1>2. TimerInv => OutFollowsTime
  BY DEF TimerInv, CounterInv, OnWave, OutFollowsTime
<1> QED BY TimerInit, <1>1, <1>2, PTL DEF Spec

\* What is read of a latched count is that count: no byte of it is torn by ticks, by
\* further latch commands or by a pair that was half read (pit8254.cpp 141-149, 187-210).
THEOREM LatchExactHolds == Spec => []LatchExact
<1>1. TimerInv /\ [Next]_vars => TimerInv'
  BY TimerNext, TimerStutter DEF Next
<1>2. TimerInv => LatchExact
  BY DEF TimerInv, LatchExact
<1> QED BY TimerInit, <1>1, <1>2, PTL DEF Spec

----------------------------------------------------------------------------
(* The disk *)

\* A disk and what its program knows of it.  Of a file open for reading it knows what it
\* has read; behind that there may be more, never less.
DiskForm(d) ==
  /\ d = [files |-> d.files, readFp |-> d.readFp, writeFp |-> d.writeFp, addrLo |-> d.addrLo,
          addrHi |-> d.addrHi, dataByte |-> d.dataByte, status |-> d.status]
  /\ d.readFp = [name |-> d.readFp.name, pos |-> d.readFp.pos]
  /\ d.files \in [DOMAIN d.files -> Seq(Nat)] /\ d.dataByte \in Nat

Held(fp) == IF Disk!IsOpen(fp) THEN <<fp.name>> ELSE <<>>

Known(d, t, status) ==
  t = [files |-> d.files, reading |-> Held(d.readFp), writing |-> Held(d.writeFp),
       taken |-> t.taken, lo |-> d.addrLo, hi |-> d.addrHi, data |-> d.dataByte,
       status |-> status]

Reading(d, t) ==
  Disk!IsOpen(d.readFp) =>
    /\ t.taken = d.readFp.pos
    /\ d.readFp.name = <<>> \/ d.readFp.name \in DOMAIN d.files
    /\ d.readFp.pos \in 0 .. Len(Disk!Contents(d, d.readFp.name))

Writing(d) == Disk!IsOpen(d.writeFp) => d.writeFp.name \in DOMAIN d.files

DiskAgrees(d, t) == DiskForm(d) /\ Known(d, t, d.status) /\ Reading(d, t) /\ Writing(d)

\* An answer changes the status alone.
LEMMA AnswerAgrees ==
  ASSUME NEW d, NEW t, NEW status, DiskForm(d), Known(d, t, status), Reading(d, t), Writing(d)
  PROVE  DiskAgrees(Disk!Answer(d, status), t)
<1> DEFINE e == Disk!Answer(d, status)
<1>1. /\ d = [files |-> d.files, readFp |-> d.readFp, writeFp |-> d.writeFp, addrLo |-> d.addrLo,
              addrHi |-> d.addrHi, dataByte |-> d.dataByte, status |-> d.status]
      /\ e = [d EXCEPT !.status = status]
  BY DEF DiskForm, Disk!Answer
<1> HIDE DEF e
<1>2. e = [files |-> d.files, readFp |-> d.readFp, writeFp |-> d.writeFp, addrLo |-> d.addrLo,
           addrHi |-> d.addrHi, dataByte |-> d.dataByte, status |-> status]
  BY <1>1
<1>3. /\ e.files = d.files /\ e.readFp = d.readFp /\ e.writeFp = d.writeFp
      /\ e.addrLo = d.addrLo /\ e.addrHi = d.addrHi /\ e.dataByte = d.dataByte /\ e.status = status
  BY <1>2
<1>4. DiskForm(e) /\ Writing(e)
  BY <1>2, <1>3 DEF DiskForm, Writing
<1>5. Known(e, t, e.status)
  BY <1>3 DEF Known
<1>6. Reading(e, t)
  BY <1>3 DEF Reading, Disk!Contents
<1> QED BY <1>4, <1>5, <1>6 DEF DiskAgrees, e

\* What the program knows is so, and a name it gives is the one the disk takes.
LEMMA KnownSo ==
  ASSUME DiskAgrees(disk, told)
  PROVE  /\ told.files = disk.files
         /\ told.reading = Held(disk.readFp) /\ told.writing = Held(disk.writeFp)
         /\ told.lo = disk.addrLo /\ told.hi = disk.addrHi
         /\ told.data = disk.dataByte /\ told.status = disk.status
         /\ NameSaid = Disk!NameOf(disk)
<1>1. /\ told.files = disk.files
      /\ told.reading = Held(disk.readFp) /\ told.writing = Held(disk.writeFp)
      /\ told.lo = disk.addrLo /\ told.hi = disk.addrHi
      /\ told.data = disk.dataByte /\ told.status = disk.status
  BY DEF DiskAgrees, Known
<1> QED BY <1>1 DEF NameSaid, Disk!NameOf

LEMMA ContentsType ==
  ASSUME NEW d, DiskForm(d), NEW name, name = <<>> \/ name \in DOMAIN d.files
  PROVE  /\ Disk!Contents(d, name) \in Seq(Nat)
         /\ Len(Disk!Contents(d, name)) \in Nat
         /\ \A j \in 1 .. Len(Disk!Contents(d, name)) : Disk!Contents(d, name)[j] \in Nat
<1> DEFINE text == Disk!Contents(d, name)
<1>1. text \in Seq(Nat)
  BY DEF DiskForm, Disk!Contents
<1> HIDE DEF text
<1>2. Len(text) \in Nat /\ \A j \in 1 .. Len(text) : text[j] \in Nat
  BY <1>1, LenProperties, ElementOfSeq
<1> QED BY <1>1, <1>2 DEF text

\* A file that is not open is nobody's.
LEMMA ShutFile ==
  /\ ~Disk!IsOpen(Disk!NoFile) /\ Held(Disk!NoFile) = <<>>
  /\ Disk!NoFile = [name |-> Disk!NoFile.name, pos |-> Disk!NoFile.pos]
BY DEF Disk!NoFile, Disk!IsOpen, Held

LEMMA OpenFile ==
  ASSUME NEW name, NEW pos \in Nat
  PROVE  /\ Disk!IsOpen([name |-> name, pos |-> pos])
         /\ Held([name |-> name, pos |-> pos]) = <<name>>
BY DEF Disk!IsOpen, Held

\* The name of the file that is held, if any is.
LEMMA HeldName ==
  ASSUME NEW fp
  PROVE  /\ Disk!IsOpen(fp) <=> Held(fp) # <<>>
         /\ Disk!IsOpen(fp) => Held(fp) = <<fp.name>> /\ Held(fp)[1] = fp.name
<1>1. \A x : <<x>> # <<>> /\ <<x>>[1] = x
  OBVIOUS
<1>2. CASE Disk!IsOpen(fp)
  <2>1. Held(fp) = <<fp.name>>
    BY <1>2 DEF Held
  <2> QED BY <1>1, <1>2, <2>1
<1>3. CASE ~Disk!IsOpen(fp)
  BY <1>3 DEF Held
<1> QED BY <1>2, <1>3

\* What a command leaves of the disk before it answers, and of the account.
LEMMA OpenReadAgrees ==
  ASSUME DiskAgrees(disk, told), NEW refused \in BOOLEAN
  PROVE  DiskAgrees(Disk!OpenRead(disk, refused), Commanded("open_read", refused))
<1> DEFINE name == Disk!NameOf(disk)
           d == Disk!OpenRead(disk, refused)
           t == Commanded("open_read", refused)
           ok == Succeeds("open_read", refused)
           shut == [disk EXCEPT !.readFp = Disk!NoFile]
           fp == [name |-> name, pos |-> 0]
           opened == [disk EXCEPT !.readFp = fp]
<1>1. /\ DiskForm(disk) /\ Writing(disk)
  BY DEF DiskAgrees
<1>2. ok <=> ~(refused \/ (name # <<>> /\ name \notin DOMAIN disk.files))
  BY KnownSo DEF Succeeds
<1>3. t = [files |-> disk.files, reading |-> IF ok THEN <<name>> ELSE <<>>,
           writing |-> Held(disk.writeFp), taken |-> 0, lo |-> disk.addrLo, hi |-> disk.addrHi,
           data |-> disk.dataByte, status |-> IF ok THEN "ok" ELSE "error"]
  <2> HIDE DEF ok
  <2> QED BY KnownSo DEF Commanded, FilesAfter, OpenAfter, ok
<1>4. CASE ~ok
  <2>1. d = Disk!Answer(shut, "error")
    BY <1>2, <1>4 DEF Disk!OpenRead
  <2>2. /\ shut.files = disk.files /\ shut.writeFp = disk.writeFp /\ shut.dataByte = disk.dataByte
        /\ shut.addrLo = disk.addrLo /\ shut.addrHi = disk.addrHi
        /\ shut.readFp = Disk!NoFile
        /\ shut = [files |-> shut.files, readFp |-> shut.readFp, writeFp |-> shut.writeFp,
                   addrLo |-> shut.addrLo, addrHi |-> shut.addrHi, dataByte |-> shut.dataByte,
                   status |-> shut.status]
    BY <1>1 DEF DiskForm
  <2> HIDE DEF shut, ok
  <2>3. DiskForm(shut) /\ Writing(shut) /\ Reading(shut, t)
    BY <1>1, <2>2, ShutFile DEF DiskForm, Writing, Reading
  <2>4. Known(shut, t, "error")
    BY <1>3, <1>4, <2>2, ShutFile DEF Known
  <2> QED BY <2>1, <2>3, <2>4, AnswerAgrees
<1>5. CASE ok
  <2>1. d = Disk!Answer(opened, "ok")
    BY <1>2, <1>5 DEF Disk!OpenRead
  <2>2. name = <<>> \/ name \in DOMAIN disk.files
    BY <1>2, <1>5
  <2> HIDE DEF name, ok
  <2>3. fp.name = name /\ fp.pos = 0 /\ Disk!IsOpen(fp) /\ Held(fp) = <<name>>
    BY OpenFile
  <2>4. /\ opened.files = disk.files /\ opened.writeFp = disk.writeFp
        /\ opened.addrLo = disk.addrLo /\ opened.addrHi = disk.addrHi
        /\ opened.dataByte = disk.dataByte /\ opened.readFp = fp
        /\ opened = [files |-> opened.files, readFp |-> opened.readFp, writeFp |-> opened.writeFp,
                     addrLo |-> opened.addrLo, addrHi |-> opened.addrHi,
                     dataByte |-> opened.dataByte, status |-> opened.status]
    BY <1>1 DEF DiskForm
  <2> HIDE DEF opened
  <2>5. DiskForm(opened) /\ Writing(opened)
    BY <1>1, <2>3, <2>4 DEF DiskForm, Writing
  <2>6. Known(opened, t, "ok") /\ t.taken = 0
    <3> HIDE DEF fp
    <3> QED BY <1>3, <1>5, <2>3, <2>4 DEF Known
  <2>7. Len(Disk!Contents(opened, name)) \in Nat
    BY <2>2, <2>4, <2>5, ContentsType
  <2>8. Reading(opened, t)
    <3> HIDE DEF fp, t
    <3> QED BY <2>2, <2>3, <2>4, <2>6, <2>7 DEF Reading
  <2> QED BY <2>1, <2>5, <2>6, <2>8, AnswerAgrees
<1> QED BY <1>4, <1>5

LEMMA OpenWriteAgrees ==
  ASSUME DiskAgrees(disk, told), NEW refused \in BOOLEAN, told.reading # <<NameSaid>>
  PROVE  DiskAgrees(Disk!OpenWrite(disk, refused), Commanded("open_write", refused))
<1> DEFINE name == Disk!NameOf(disk)
           d == Disk!OpenWrite(disk, refused)
           t == Commanded("open_write", refused)
           ok == Succeeds("open_write", refused)
           shut == [disk EXCEPT !.writeFp = Disk!NoFile]
           fp == [name |-> name, pos |-> 0]
           files == [x \in DOMAIN disk.files \cup {name} |-> IF x = name THEN <<>> ELSE disk.files[x]]
           half == [disk EXCEPT !.writeFp = fp]
           opened == [half EXCEPT !.files = files]
<1>1. /\ DiskForm(disk) /\ Writing(disk) /\ Reading(disk, told)
  BY DEF DiskAgrees
<1>2. ok <=> ~(refused \/ name = <<>>)
  BY KnownSo DEF Succeeds
<1>3. t = [files |-> IF ok THEN files ELSE disk.files, reading |-> Held(disk.readFp),
           writing |-> IF ok THEN <<name>> ELSE <<>>, taken |-> told.taken,
           lo |-> disk.addrLo, hi |-> disk.addrHi,
           data |-> disk.dataByte, status |-> IF ok THEN "ok" ELSE "error"]
  <2> HIDE DEF ok
  <2> QED BY KnownSo DEF Commanded, FilesAfter, OpenAfter, ok
<1> HIDE DEF t, ok
<1>4. t.taken = told.taken
  BY <1>3
<1>5. CASE ~ok
  <2>1. d = Disk!Answer(shut, "error")
    BY <1>2, <1>5 DEF Disk!OpenWrite
  <2>2. /\ shut.files = disk.files /\ shut.readFp = disk.readFp /\ shut.dataByte = disk.dataByte
        /\ shut.addrLo = disk.addrLo /\ shut.addrHi = disk.addrHi
        /\ shut.writeFp = Disk!NoFile
        /\ shut = [files |-> shut.files, readFp |-> shut.readFp, writeFp |-> shut.writeFp,
                   addrLo |-> shut.addrLo, addrHi |-> shut.addrHi, dataByte |-> shut.dataByte,
                   status |-> shut.status]
    BY <1>1 DEF DiskForm
  <2> HIDE DEF shut
  <2>3. DiskForm(shut) /\ Writing(shut)
    BY <1>1, <2>2, ShutFile DEF DiskForm, Writing
  <2>4. Reading(shut, t)
    BY <1>1, <1>4, <2>2 DEF Reading, Disk!Contents
  <2>5. Known(shut, t, "error")
    <3> HIDE DEF files
    <3> QED BY <1>3, <1>5, <2>2, ShutFile DEF Known
  <2> QED BY <2>1, <2>3, <2>4, <2>5, AnswerAgrees DEF t
<1>6. CASE ok
  <2>1. d = Disk!Answer(opened, "ok")
    BY <1>2, <1>6 DEF Disk!OpenWrite
  <2>2. fp.name = name /\ Disk!IsOpen(fp) /\ Held(fp) = <<name>>
    <3> HIDE DEF name
    <3> QED BY OpenFile
  <2>3. /\ files \in [DOMAIN files -> Seq(Nat)] /\ DOMAIN files = DOMAIN disk.files \cup {name}
        /\ \A x \in DOMAIN disk.files : x # name => files[x] = disk.files[x]
    <3>1. <<>> \in Seq(Nat)
      OBVIOUS
    <3> QED BY <1>1, <3>1 DEF DiskForm
  <2> HIDE DEF fp
  <2>4. half = [files |-> disk.files, readFp |-> disk.readFp, writeFp |-> fp,
                addrLo |-> disk.addrLo, addrHi |-> disk.addrHi, dataByte |-> disk.dataByte,
                status |-> disk.status]
    BY <1>1 DEF DiskForm
  <2> HIDE DEF half, files
  <2>5. opened = [files |-> files, readFp |-> disk.readFp, writeFp |-> fp,
                  addrLo |-> disk.addrLo, addrHi |-> disk.addrHi, dataByte |-> disk.dataByte,
                  status |-> disk.status]
    BY <2>4
  <2> HIDE DEF opened
  <2>6. /\ opened.files = files /\ opened.readFp = disk.readFp /\ opened.writeFp = fp
        /\ opened.addrLo = disk.addrLo /\ opened.addrHi = disk.addrHi
        /\ opened.dataByte = disk.dataByte /\ opened.status = disk.status
    BY <2>5
  <2>7. DiskForm(opened) /\ Writing(opened)
    BY <1>1, <2>2, <2>3, <2>5, <2>6 DEF DiskForm, Writing
  <2>8. Known(opened, t, "ok")
    <3> HIDE DEF name
    <3> QED BY <1>3, <1>6, <2>2, <2>6 DEF Known
  <2>9. Reading(opened, t)
    <3> SUFFICES ASSUME Disk!IsOpen(disk.readFp) PROVE Reading(opened, t)
      BY <2>6 DEF Reading
    <3> DEFINE old == disk.readFp.name
    <3>1. old # name
      BY KnownSo, HeldName
    <3>2. old = <<>> \/ (old \in DOMAIN disk.files /\ old \in DOMAIN files /\ files[old] = disk.files[old])
      BY <1>1, <2>3, <3>1 DEF Reading
    <3> HIDE DEF name
    <3>3. Disk!Contents(opened, old) = Disk!Contents(disk, old)
      BY <2>6, <3>2 DEF Disk!Contents
    <3> QED BY <1>1, <1>4, <2>6, <3>2, <3>3 DEF Reading
  <2> QED BY <2>1, <2>7, <2>8, <2>9, AnswerAgrees DEF t
<1> QED BY <1>5, <1>6

\* A byte is read where the program knows it to be, or none.
LEMMA ReadAgrees ==
  ASSUME DiskAgrees(disk, told), NEW refused
  PROVE  DiskAgrees(Disk!ReadByte(disk), Commanded("read", refused))
<1> DEFINE d == Disk!ReadByte(disk)
           t == Commanded("read", refused)
           ok == Succeeds("read", refused)
           fp == disk.readFp
           text == Disk!Contents(disk, fp.name)
           byte == text[fp.pos + 1]
<1>1. /\ DiskForm(disk) /\ Writing(disk) /\ Reading(disk, told)
  BY DEF DiskAgrees
<1>2. Disk!IsOpen(fp) =>
        /\ told.reading = <<fp.name>> /\ TextRead = text
        /\ told.taken = fp.pos /\ fp.pos \in Nat /\ fp.pos <= Len(text) /\ Len(text) \in Nat
        /\ \A j \in 1 .. Len(text) : text[j] \in Nat
  <2> SUFFICES ASSUME Disk!IsOpen(fp)
               PROVE  /\ told.reading = <<fp.name>> /\ TextRead = text
                      /\ told.taken = fp.pos /\ fp.pos \in Nat /\ fp.pos <= Len(text)
                      /\ Len(text) \in Nat
                      /\ \A j \in 1 .. Len(text) : text[j] \in Nat
    OBVIOUS
  <2>1. told.reading = <<fp.name>> /\ told.reading[1] = fp.name /\ told.files = disk.files
    BY KnownSo, HeldName
  <2>2. /\ fp.name = <<>> \/ fp.name \in DOMAIN disk.files
        /\ told.taken = fp.pos /\ fp.pos \in 0 .. Len(text)
    BY <1>1 DEF Reading
  <2>3. Len(text) \in Nat /\ \A j \in 1 .. Len(text) : text[j] \in Nat
    BY <1>1, <2>2, ContentsType
  <2>4. TextRead = text
    BY <2>1 DEF TextRead, Disk!Contents
  <2> HIDE DEF text
  <2> QED BY <2>1, <2>2, <2>3, <2>4
<1>3. Disk!IsOpen(fp) <=> told.reading # <<>>
  BY KnownSo, HeldName
<1> HIDE DEF text
<1>4. ok <=> Disk!IsOpen(fp) /\ fp.pos # Len(text)
  <2>1. ok <=> told.reading # <<>> /\ told.taken < Len(TextRead)
    BY DEF Succeeds
  <2> HIDE DEF ok, fp
  <2> QED BY <1>2, <1>3, <2>1
<1>5. t = [files |-> disk.files, reading |-> Held(fp), writing |-> Held(disk.writeFp),
           taken |-> IF ok THEN told.taken + 1 ELSE told.taken, lo |-> disk.addrLo,
           hi |-> disk.addrHi, data |-> IF ok THEN byte ELSE 0,
           status |-> IF ok THEN "ok" ELSE IF Disk!IsOpen(fp) THEN "eof" ELSE "error"]
  <2>1. ok => TextRead[told.taken + 1] = byte
    BY <1>2, <1>4
  <2> HIDE DEF ok, fp, byte
  <2> QED BY <1>3, <2>1, KnownSo DEF Commanded, FilesAfter, OpenAfter, ok, fp
<1> HIDE DEF t, ok
<1>6. CASE ~ok
  <2> DEFINE cleared == [disk EXCEPT !.dataByte = 0]
             status == IF Disk!IsOpen(fp) THEN "eof" ELSE "error"
  <2>1. d = Disk!Answer(cleared, status)
    BY <1>4, <1>6 DEF Disk!ReadByte, text
  <2>2. /\ cleared.files = disk.files /\ cleared.readFp = disk.readFp
        /\ cleared.writeFp = disk.writeFp /\ cleared.dataByte = 0
        /\ cleared.addrLo = disk.addrLo /\ cleared.addrHi = disk.addrHi
        /\ cleared = [files |-> cleared.files, readFp |-> cleared.readFp, writeFp |-> cleared.writeFp,
                      addrLo |-> cleared.addrLo, addrHi |-> cleared.addrHi,
                      dataByte |-> cleared.dataByte, status |-> cleared.status]
    BY <1>1 DEF DiskForm
  <2> HIDE DEF cleared
  <2>3. DiskForm(cleared) /\ Writing(cleared)
    BY <1>1, <2>2 DEF DiskForm, Writing
  <2>4. Known(cleared, t, status) /\ t.taken = told.taken
    <3> HIDE DEF byte, status
    <3> QED BY <1>5, <1>6, <2>2 DEF Known, status
  <2>5. Reading(cleared, t)
    BY <1>1, <2>2, <2>4 DEF Reading, Disk!Contents
  <2> HIDE DEF status
  <2> QED BY <2>1, <2>3, <2>4, <2>5, AnswerAgrees DEF t
<1>7. CASE ok
  <2> DEFINE next == [fp EXCEPT !.pos = fp.pos + 1]
             half == [disk EXCEPT !.dataByte = byte]
             passed == [half EXCEPT !.readFp.pos = fp.pos + 1]
  <2>1. d = Disk!Answer(passed, "ok")
    BY <1>4, <1>7 DEF Disk!ReadByte, text
  <2>2. /\ Disk!IsOpen(fp) /\ fp.pos \in Nat /\ fp.pos + 1 \in 1 .. Len(text)
        /\ Len(text) \in Nat
    <3> HIDE DEF fp
    <3> QED BY <1>2, <1>4, <1>7
  <2>3. byte \in Nat
    BY <1>2, <2>2
  <2>4. fp.name = <<>> \/ fp.name \in DOMAIN disk.files
    BY <1>1, <2>2 DEF Reading
  <2> HIDE DEF byte
  <2>5. /\ half = [files |-> disk.files, readFp |-> fp, writeFp |-> disk.writeFp,
                   addrLo |-> disk.addrLo, addrHi |-> disk.addrHi, dataByte |-> byte,
                   status |-> disk.status]
        /\ fp = [name |-> fp.name, pos |-> fp.pos]
    BY <1>1 DEF DiskForm
  <2> HIDE DEF half, fp
  <2>6. /\ passed = [files |-> disk.files, readFp |-> next, writeFp |-> disk.writeFp,
                     addrLo |-> disk.addrLo, addrHi |-> disk.addrHi, dataByte |-> byte,
                     status |-> disk.status]
        /\ next = [name |-> fp.name, pos |-> fp.pos + 1]
    BY <2>5
  <2> HIDE DEF passed, next
  <2>7. /\ passed.files = disk.files /\ passed.readFp = next /\ passed.writeFp = disk.writeFp
        /\ passed.dataByte = byte /\ passed.addrLo = disk.addrLo /\ passed.addrHi = disk.addrHi
        /\ passed.status = disk.status
        /\ next.name = fp.name /\ next.pos = fp.pos + 1
    BY <2>6
  <2>8. Disk!IsOpen(next) /\ Held(next) = <<fp.name>> /\ Held(fp) = <<fp.name>>
    <3>1. fp.pos + 1 \in Nat
      BY <2>2
    <3> QED BY <2>2, <2>6, <3>1, OpenFile DEF Held
  <2>9. DiskForm(passed) /\ Writing(passed)
    <3>1. passed = [files |-> passed.files, readFp |-> passed.readFp, writeFp |-> passed.writeFp,
                    addrLo |-> passed.addrLo, addrHi |-> passed.addrHi,
                    dataByte |-> passed.dataByte, status |-> passed.status]
      BY <2>6, <2>7
    <3>2. passed.readFp = [name |-> passed.readFp.name, pos |-> passed.readFp.pos]
      BY <2>6, <2>7
    <3> QED BY <1>1, <2>3, <2>7, <3>1, <3>2 DEF DiskForm, Writing
  <2>10. Known(passed, t, "ok") /\ t.taken = fp.pos + 1
    <3>1. told.taken = fp.pos
      BY <1>2, <2>2
    <3> QED BY <1>5, <1>7, <2>7, <2>8, <3>1 DEF Known
  <2>11. Reading(passed, t)
    <3>1. Disk!Contents(passed, fp.name) = text
      BY <2>7 DEF Disk!Contents, text, fp
    <3>2. fp.pos + 1 \in 0 .. Len(text)
      BY <2>2
    <3> QED BY <2>4, <2>7, <2>10, <3>1, <3>2 DEF Reading
  <2> QED BY <2>1, <2>9, <2>10, <2>11, AnswerAgrees DEF t
<1> QED BY <1>6, <1>7

\* A byte written goes to the end of the file, and reading goes on where it was.
LEMMA WriteAgrees ==
  ASSUME DiskAgrees(disk, told), NEW refused \in BOOLEAN
  PROVE  DiskAgrees(Disk!WriteByte(disk, refused), Commanded("write", refused))
<1> DEFINE d == Disk!WriteByte(disk, refused)
           t == Commanded("write", refused)
           ok == Succeeds("write", refused)
           name == disk.writeFp.name
           files == [disk.files EXCEPT ![name] = Append(disk.files[name], disk.dataByte)]
           written == [disk EXCEPT !.files = files]
<1>1. /\ DiskForm(disk) /\ Writing(disk) /\ Reading(disk, told)
  BY DEF DiskAgrees
<1>2. ok <=> ~(refused \/ ~Disk!IsOpen(disk.writeFp))
  BY KnownSo, HeldName DEF Succeeds
<1>3. t = [files |-> IF ok THEN files ELSE disk.files, reading |-> Held(disk.readFp),
           writing |-> Held(disk.writeFp), taken |-> told.taken, lo |-> disk.addrLo,
           hi |-> disk.addrHi, data |-> disk.dataByte, status |-> IF ok THEN "ok" ELSE "error"]
  <2>1. ok => told.writing[1] = name
    BY <1>2, KnownSo, HeldName
  <2>2. FilesAfter("write", ok) = IF ok THEN files ELSE disk.files
    <3> HIDE DEF ok, name
    <3> QED BY <2>1, KnownSo DEF FilesAfter
  <2> HIDE DEF ok, files
  <2> QED BY <2>2, KnownSo DEF Commanded, OpenAfter, ok
<1> HIDE DEF t, ok
<1>4. t.taken = told.taken
  <2> HIDE DEF files
  <2> QED BY <1>3
<1>5. CASE ~ok
  <2>1. d = Disk!Answer(disk, "error")
    BY <1>2, <1>5 DEF Disk!WriteByte
  <2>2. Known(disk, t, "error")
    <3> HIDE DEF files
    <3> QED BY <1>3, <1>5 DEF Known
  <2>3. Reading(disk, t)
    BY <1>1, <1>4 DEF Reading
  <2> QED BY <1>1, <2>1, <2>2, <2>3, AnswerAgrees DEF t
<1>6. CASE ok
  <2>1. d = Disk!Answer(written, "ok")
    BY <1>2, <1>6 DEF Disk!WriteByte
  <2>2. /\ name \in DOMAIN disk.files /\ disk.files[name] \in Seq(Nat) /\ disk.dataByte \in Nat
    BY <1>1, <1>2, <1>6 DEF Writing, DiskForm
  <2>3. /\ Append(disk.files[name], disk.dataByte) \in Seq(Nat)
        /\ Len(Append(disk.files[name], disk.dataByte)) = Len(disk.files[name]) + 1
        /\ Len(disk.files[name]) \in Nat
    BY <2>2, AppendProperties, LenProperties
  <2>4. /\ DOMAIN files = DOMAIN disk.files /\ files \in [DOMAIN files -> Seq(Nat)]
        /\ \A x \in DOMAIN disk.files : x # name => files[x] = disk.files[x]
        /\ Len(files[name]) = Len(disk.files[name]) + 1
    <3> DEFINE longer == Append(disk.files[name], disk.dataByte)
    <3>1. files = [disk.files EXCEPT ![name] = longer] /\ longer \in Seq(Nat)
      BY <2>3
    <3> HIDE DEF longer
    <3>2. disk.files \in [DOMAIN disk.files -> Seq(Nat)]
      BY <1>1 DEF DiskForm
    <3>3. files \in [DOMAIN disk.files -> Seq(Nat)] /\ DOMAIN files = DOMAIN disk.files
      BY <2>2, <3>1, <3>2
    <3>4. files[name] = longer
      BY <2>2, <3>1, <3>2
    <3>5. \A x \in DOMAIN disk.files : x # name => files[x] = disk.files[x]
      BY <3>1
    <3> QED BY <2>3, <3>3, <3>4, <3>5 DEF longer
  <2> HIDE DEF files
  <2>5. /\ written.files = files /\ written.readFp = disk.readFp
        /\ written.addrLo = disk.addrLo /\ written.addrHi = disk.addrHi
        /\ written.writeFp = disk.writeFp /\ written.dataByte = disk.dataByte
        /\ written = [files |-> written.files, readFp |-> written.readFp,
                      writeFp |-> written.writeFp, addrLo |-> written.addrLo,
                      addrHi |-> written.addrHi, dataByte |-> written.dataByte,
                      status |-> written.status]
    BY <1>1 DEF DiskForm
  <2> HIDE DEF written
  <2>6. Known(written, t, "ok")
    BY <1>3, <1>6, <2>5 DEF Known
  <2>7. DiskForm(written) /\ Writing(written)
    BY <1>1, <2>4, <2>5 DEF DiskForm, Writing
  <2>8. Reading(written, t)
    <3> SUFFICES ASSUME Disk!IsOpen(disk.readFp) PROVE Reading(written, t)
      BY <2>5 DEF Reading
    <3> DEFINE old == disk.readFp.name
               before == Len(Disk!Contents(disk, old))
               after == Len(Disk!Contents(written, old))
    <3>1. /\ old = <<>> \/ old \in DOMAIN disk.files
          /\ disk.readFp.pos \in 0 .. before
      BY <1>1 DEF Reading
    <3>2. old = <<>> \/ old \in DOMAIN written.files
      BY <2>4, <2>5, <3>1
    <3>3. before \in Nat /\ after \in Nat
      BY <1>1, <2>7, <3>1, <3>2, ContentsType
    <3>4. after = before \/ after = before + 1
      BY <2>4, <2>5, <3>1 DEF Disk!Contents
    <3> HIDE DEF before, after
    <3>5. disk.readFp.pos \in 0 .. after
      BY <3>1, <3>3, <3>4
    <3> QED BY <1>1, <1>4, <2>5, <3>2, <3>5 DEF Reading, after
  <2> QED BY <2>1, <2>6, <2>7, <2>8, AnswerAgrees DEF t
<1> QED BY <1>5, <1>6

LEMMA CloseAgrees ==
  ASSUME DiskAgrees(disk, told), NEW refused
  PROVE  DiskAgrees(Disk!Close(disk), Commanded("close", refused))
<1> DEFINE d == Disk!Close(disk)
           t == Commanded("close", refused)
           half == [disk EXCEPT !.readFp = Disk!NoFile]
           shut == [half EXCEPT !.writeFp = Disk!NoFile]
<1>1. DiskForm(disk)
  BY DEF DiskAgrees
<1>2. d = Disk!Answer(shut, "ok")
  BY DEF Disk!Close
<1>3. half = [files |-> disk.files, readFp |-> Disk!NoFile, writeFp |-> disk.writeFp,
              addrLo |-> disk.addrLo, addrHi |-> disk.addrHi,
              dataByte |-> disk.dataByte, status |-> disk.status]
  BY <1>1 DEF DiskForm
<1> HIDE DEF half
<1>4. shut = [files |-> disk.files, readFp |-> Disk!NoFile, writeFp |-> Disk!NoFile,
              addrLo |-> disk.addrLo, addrHi |-> disk.addrHi,
              dataByte |-> disk.dataByte, status |-> disk.status]
  BY <1>3
<1> HIDE DEF shut
<1>5. /\ shut.files = disk.files /\ shut.readFp = Disk!NoFile /\ shut.writeFp = Disk!NoFile
      /\ shut.addrLo = disk.addrLo /\ shut.addrHi = disk.addrHi
      /\ shut.dataByte = disk.dataByte /\ shut.status = disk.status
  BY <1>4
<1>6. t = [files |-> disk.files, reading |-> <<>>, writing |-> <<>>, taken |-> 0,
           lo |-> disk.addrLo, hi |-> disk.addrHi, data |-> disk.dataByte, status |-> "ok"]
  BY KnownSo DEF Commanded, Succeeds, FilesAfter, OpenAfter
<1> HIDE DEF t
<1>7. DiskForm(shut) /\ Writing(shut) /\ Reading(shut, t)
  BY <1>1, <1>4, <1>5, ShutFile DEF DiskForm, Writing, Reading
<1>8. Known(shut, t, "ok")
  BY <1>5, <1>6, ShutFile DEF Known
<1> QED BY <1>2, <1>7, <1>8, AnswerAgrees DEF t

LEMMA RewindAgrees ==
  ASSUME DiskAgrees(disk, told), NEW refused
  PROVE  DiskAgrees(Disk!Rewind(disk), Commanded("rewind", refused))
<1> DEFINE d == Disk!Rewind(disk)
           t == Commanded("rewind", refused)
           ok == Disk!IsOpen(disk.readFp)
           fp == disk.readFp
           first == [fp EXCEPT !.pos = 0]
           rewound == [disk EXCEPT !.readFp = first]
<1>1. /\ DiskForm(disk) /\ Writing(disk) /\ Reading(disk, told)
  BY DEF DiskAgrees
<1>2. ok <=> Succeeds("rewind", refused)
  BY KnownSo, HeldName DEF Succeeds
<1>3. t = [files |-> disk.files, reading |-> Held(fp), writing |-> Held(disk.writeFp),
           taken |-> 0, lo |-> disk.addrLo, hi |-> disk.addrHi, data |-> disk.dataByte,
           status |-> IF ok THEN "ok" ELSE "error"]
  <2> HIDE DEF ok
  <2> QED BY <1>2, KnownSo DEF Commanded, FilesAfter, OpenAfter
<1> HIDE DEF t
<1>4. CASE ~ok
  <2>1. d = Disk!Answer(disk, "error")
    BY <1>4 DEF Disk!Rewind
  <2>2. Known(disk, t, "error") /\ Reading(disk, t)
    BY <1>3, <1>4 DEF Known, Reading
  <2> QED BY <1>1, <2>1, <2>2, AnswerAgrees DEF t
<1>5. CASE ok
  <2>1. d = Disk!Answer(rewound, "ok")
    BY <1>5 DEF Disk!Rewind
  <2>2. first = [name |-> fp.name, pos |-> 0]
    BY <1>1 DEF DiskForm
  <2> HIDE DEF first
  <2>3. first.name = fp.name /\ first.pos = 0 /\ Held(first) = Held(fp)
    BY <1>5, <2>2, OpenFile DEF Held
  <2>4. /\ rewound.files = disk.files /\ rewound.readFp = first
        /\ rewound.addrLo = disk.addrLo /\ rewound.addrHi = disk.addrHi
        /\ rewound.writeFp = disk.writeFp /\ rewound.dataByte = disk.dataByte
        /\ rewound = [files |-> rewound.files, readFp |-> rewound.readFp,
                      writeFp |-> rewound.writeFp, addrLo |-> rewound.addrLo,
                      addrHi |-> rewound.addrHi, dataByte |-> rewound.dataByte,
                      status |-> rewound.status]
    BY <1>1 DEF DiskForm
  <2> HIDE DEF rewound
  <2>5. DiskForm(rewound) /\ Writing(rewound)
    BY <1>1, <2>2, <2>3, <2>4 DEF DiskForm, Writing
  <2>6. Known(rewound, t, "ok") /\ t.taken = 0
    BY <1>3, <1>5, <2>3, <2>4 DEF Known
  <2>7. Reading(rewound, t)
    <3> DEFINE text == Disk!Contents(rewound, fp.name)
    <3>1. fp.name = <<>> \/ fp.name \in DOMAIN disk.files
      BY <1>1, <1>5 DEF Reading
    <3>2. Len(text) \in Nat
      BY <2>4, <2>5, <3>1, ContentsType
    <3> HIDE DEF text
    <3>3. 0 \in 0 .. Len(text)
      BY <3>2
    <3> QED BY <2>3, <2>4, <2>6, <3>1, <3>3 DEF Reading, text
  <2> QED BY <2>1, <2>5, <2>6, <2>7, AnswerAgrees DEF t
<1> QED BY <1>4, <1>5

\* Whatever a command does, and whatever the host refuses.
LEMMA CommandAgrees ==
  ASSUME DiskAgrees(disk, told), NEW cmd \in Disk!Commands, NEW refused \in BOOLEAN,
         cmd = "open_write" => told.reading # <<NameSaid>>
  PROVE  DiskAgrees(Disk!diskCommand(disk, cmd, refused), Commanded(cmd, refused))
<1> DEFINE d == Disk!diskCommand(disk, cmd, refused)
<1>1. CASE cmd = "open_read"
  <2>1. d = Disk!OpenRead(disk, refused)
    BY <1>1 DEF Disk!diskCommand
  <2> QED BY <1>1, <2>1, OpenReadAgrees
<1>2. CASE cmd = "open_write"
  <2>1. d = Disk!OpenWrite(disk, refused)
    BY <1>2 DEF Disk!diskCommand
  <2> QED BY <1>2, <2>1, OpenWriteAgrees
<1>3. CASE cmd = "read"
  <2>1. d = Disk!ReadByte(disk)
    BY <1>3 DEF Disk!diskCommand
  <2> QED BY <1>3, <2>1, ReadAgrees
<1>4. CASE cmd = "write"
  <2>1. d = Disk!WriteByte(disk, refused)
    BY <1>4 DEF Disk!diskCommand
  <2> QED BY <1>4, <2>1, WriteAgrees
<1>5. CASE cmd = "close"
  <2>1. d = Disk!Close(disk)
    BY <1>5 DEF Disk!diskCommand
  <2> QED BY <1>5, <2>1, CloseAgrees
<1>6. CASE cmd = "rewind"
  <2>1. d = Disk!Rewind(disk)
    BY <1>6 DEF Disk!diskCommand
  <2> QED BY <1>6, <2>1, RewindAgrees
<1>7. CASE cmd = "unknown"
  <2> DEFINE t == Commanded("unknown", refused)
  <2>1. d = Disk!Answer(disk, "error")
    BY <1>7 DEF Disk!diskCommand
  <2>2. t = [files |-> disk.files, reading |-> Held(disk.readFp), writing |-> Held(disk.writeFp),
             taken |-> told.taken, lo |-> disk.addrLo, hi |-> disk.addrHi,
             data |-> disk.dataByte, status |-> "error"]
    BY KnownSo DEF Commanded, Succeeds, FilesAfter, OpenAfter
  <2> HIDE DEF t
  <2>3. Known(disk, t, "error") /\ Reading(disk, t) /\ DiskForm(disk) /\ Writing(disk)
    BY <2>2 DEF Known, Reading, DiskAgrees
  <2> QED BY <1>7, <2>1, <2>3, AnswerAgrees DEF t
<1> QED BY <1>1, <1>2, <1>3, <1>4, <1>5, <1>6, <1>7 DEF Disk!Commands

\* A register of the disk is given a value.
LEMMA RegisterAgrees ==
  ASSUME DiskAgrees(disk, told), NEW reg \in 1 .. 3, NEW value \in Nat, NEW refused,
         NEW t, t = CASE reg = 1 -> [told EXCEPT !.data = value]
                      [] reg = 2 -> [told EXCEPT !.lo = value]
                      [] OTHER -> [told EXCEPT !.hi = value]
  PROVE  DiskAgrees(Disk!disk_emu_on_io_write(disk, reg, value, refused), t)
<1> DEFINE d == Disk!disk_emu_on_io_write(disk, reg, value, refused)
<1>1. /\ DiskForm(disk) /\ Known(disk, told, disk.status) /\ Writing(disk) /\ Reading(disk, told)
  BY DEF DiskAgrees
<1>2. /\ reg = 1 => d = [disk EXCEPT !.dataByte = value]
      /\ reg = 2 => d = [disk EXCEPT !.addrLo = value]
      /\ reg = 3 => d = [disk EXCEPT !.addrHi = value]
  BY DEF Disk!disk_emu_on_io_write
<1> HIDE DEF d
<1>3. d = [files |-> disk.files, readFp |-> disk.readFp, writeFp |-> disk.writeFp,
           addrLo |-> IF reg = 2 THEN value ELSE disk.addrLo,
           addrHi |-> IF reg = 3 THEN value ELSE disk.addrHi,
           dataByte |-> IF reg = 1 THEN value ELSE disk.dataByte, status |-> disk.status]
  <2>1. disk = [files |-> disk.files, readFp |-> disk.readFp, writeFp |-> disk.writeFp,
                addrLo |-> disk.addrLo, addrHi |-> disk.addrHi, dataByte |-> disk.dataByte,
                status |-> disk.status]
    BY <1>1 DEF DiskForm
  <2>2. CASE reg = 1
    BY <1>2, <2>1, <2>2
  <2>3. CASE reg = 2
    BY <1>2, <2>1, <2>3
  <2>4. CASE reg = 3
    BY <1>2, <2>1, <2>4
  <2> QED BY <2>2, <2>3, <2>4
<1>4. /\ d.files = disk.files /\ d.readFp = disk.readFp /\ d.writeFp = disk.writeFp
      /\ d.addrLo = (IF reg = 2 THEN value ELSE disk.addrLo)
      /\ d.addrHi = (IF reg = 3 THEN value ELSE disk.addrHi)
      /\ d.dataByte = (IF reg = 1 THEN value ELSE disk.dataByte) /\ d.status = disk.status
  BY <1>3
<1>5. DiskForm(d) /\ Writing(d)
  BY <1>1, <1>3, <1>4 DEF DiskForm, Writing
<1>6. t = [files |-> disk.files, reading |-> Held(disk.readFp), writing |-> Held(disk.writeFp),
           taken |-> told.taken, lo |-> d.addrLo, hi |-> d.addrHi, data |-> d.dataByte,
           status |-> disk.status]
  <2>1. told = [files |-> disk.files, reading |-> Held(disk.readFp), writing |-> Held(disk.writeFp),
                taken |-> told.taken, lo |-> disk.addrLo, hi |-> disk.addrHi,
                data |-> disk.dataByte, status |-> disk.status]
    BY <1>1 DEF Known
  <2>2. CASE reg = 1
    BY <1>4, <2>1, <2>2
  <2>3. CASE reg = 2
    BY <1>4, <2>1, <2>3
  <2>4. CASE reg = 3
    BY <1>4, <2>1, <2>4
  <2> QED BY <2>2, <2>3, <2>4
<1>7. Known(d, t, d.status) /\ t.taken = told.taken
  BY <1>4, <1>6 DEF Known
<1>8. Reading(d, t)
  BY <1>1, <1>4, <1>7 DEF Reading, Disk!Contents
<1> QED BY <1>5, <1>7, <1>8 DEF DiskAgrees, d

\* The invariant of the disk.
DiskInv == board \in Boards /\ DiskAgrees(disk, told)

LEMMA DiskInit == Init => DiskInv
<1> SUFFICES ASSUME Init PROVE DiskInv
  OBVIOUS
<1>1. /\ board \in Boards
      /\ disk = [files |-> board.files, readFp |-> Disk!NoFile, writeFp |-> Disk!NoFile,
                 addrLo |-> 0, addrHi |-> 0, dataByte |-> 0, status |-> "ok"]
      /\ told = [files |-> board.files, reading |-> <<>>, writing |-> <<>>, taken |-> 0,
                 lo |-> 0, hi |-> 0, data |-> 0, status |-> "ok"]
  BY DEF Init, Disk!disk_emu_init
<1>2. board.files \in [DOMAIN board.files -> Seq(Nat)]
  BY <1>1, BoardsAssumption DEF IsBoard
<1>3. DiskForm(disk)
  BY <1>1, <1>2, ShutFile DEF DiskForm
<1>4. Known(disk, told, disk.status) /\ Writing(disk) /\ Reading(disk, told)
  BY <1>1, ShutFile DEF Known, Writing, Reading
<1> QED BY <1>1, <1>3, <1>4 DEF DiskInv, DiskAgrees

LEMMA DiskNext ==
  ASSUME DiskInv, NEW i \in board.guest, Instruction(i)
  PROVE  DiskInv'
<1>1. IsInstruction(i) /\ board \in Boards /\ DiskAgrees(disk, told)
  BY GuestType DEF DiskInv
<1>2. PICK refused \in Refusals(i) :
        /\ told' = Told(i, refused) /\ board' = board /\ Allowed(i)
        /\ Run(i, PitNow, PpiNow) \/ Out(i, PitNow, PpiNow, refused) \/ In(i, PitNow, PpiNow)
  BY InstructionSteps DEF Record
<1>3. DiskAgrees(disk', told')
  <2>1. CASE ~(i.op = "OUT" /\ i.dev = "disk")
    <3>1. disk' = disk
      BY <1>2, <2>1 DEF Run, Out, In
    <3>2. told' = told
      BY <1>2, <2>1 DEF Told
    <3> QED BY <1>1, <3>1, <3>2
  <2>2. CASE i.op = "OUT" /\ i.dev = "disk"
    <3>1. disk' = Disk!disk_emu_on_io_write(disk, i.reg, i.value, refused)
      BY <1>2, <2>2 DEF Run, Out, In
    <3>2. i.reg \in 0 .. 3 /\ i.value \in Values("disk", i.reg)
      BY <1>1, <2>2 DEF IsInstruction
    <3>3. CASE i.reg = 0
      <4>1. i.value \in Disk!Commands
        BY <3>2, <3>3 DEF Values
      <4>2. disk' = Disk!diskCommand(disk, i.value, refused)
        BY <3>1, <3>3 DEF Disk!disk_emu_on_io_write
      <4>3. told' = Commanded(i.value, refused)
        BY <1>2, <2>2, <3>3 DEF Told
      <4>4. i.value = "open_write" => told.reading # <<NameSaid>>
        BY <1>2, <2>2, <3>3 DEF Allowed, IsCommand
      <4>5. refused \in BOOLEAN
        BY <2>2, <3>3 DEF Refusals, IsCommand
      <4> QED BY <1>1, <4>1, <4>2, <4>3, <4>4, <4>5, CommandAgrees
    <3>4. CASE i.reg \in 1 .. 3
      <4>1. i.value \in Nat
        BY <3>2, <3>4 DEF Values
      <4>2. told' = CASE i.reg = 1 -> [told EXCEPT !.data = i.value]
                      [] i.reg = 2 -> [told EXCEPT !.lo = i.value]
                      [] OTHER -> [told EXCEPT !.hi = i.value]
        BY <1>2, <2>2, <3>4 DEF Told
      <4> QED BY <1>1, <3>1, <3>4, <4>1, <4>2, RegisterAgrees
    <3> QED BY <3>2, <3>3, <3>4
  <2> QED BY <2>1, <2>2
<1> QED BY <1>1, <1>2, <1>3 DEF DiskInv, DiskAgrees, DiskForm, Known, Reading, Writing

LEMMA DiskStutter == DiskInv /\ UNCHANGED vars => DiskInv'
BY DEF DiskInv, DiskAgrees, DiskForm, Known, Reading, Writing, vars

\* Files hold what the program wrote, in order, it reads what they hold, and a command is
\* answered by what it and those before it have asked and been refused, whichever commands
\* fail and whatever the host refuses (disk_emu.cpp 84-198).
THEOREM DiskExactHolds == Spec => []DiskExact
<1>1. DiskInv /\ [Next]_vars => DiskInv'
  BY DiskNext, DiskStutter DEF Next
<1>2. DiskInv => DiskExact
  BY KnownSo DEF DiskInv, DiskExact
<1> QED BY DiskInit, <1>1, <1>2, PTL DEF Spec

----------------------------------------------------------------------------
(* The port *)

Port == {"A", "B", "C"}

\* The wires of the board give a pin one node: of two that did not, the last one read
\* would count.
OneNodePerPin(b) ==
  \A e \in Net!Endpoints(b.net), f \in Net!Endpoints(b.net) :
    b.pins[e] = b.pins[f] => b.net.wire[e] = b.net.wire[f]

PortForm(q) ==
  /\ q = [ctrl |-> q.ctrl, out |-> q.out, in |-> q.in]
  /\ q.in = [port \in Port |-> q.in[port]]

Inputs(q) == {e \in Net!Endpoints(board.net) : ~IsOutput(q, e)}

\* The bits of a port that had "bits" when the endpoints in s have been given levels.
Given(bits, level, s, port) ==
  LET at(b) == {e \in s : board.pins[e] = [port |-> port, bit |-> b]}
  IN  {b \in bits \cup 0 .. 7 :
         \/ at(b) = {} /\ b \in bits
         \/ \E e \in at(b) : level[board.net.wire[e]] = "1"}

GivenPort(q, level, s) ==
  [ctrl |-> q.ctrl, out |-> q.out,
   in |-> [port \in Port |-> Given(q.in[port], level, s, port)]]

LEMMA InputPin ==
  ASSUME board \in Boards, NEW q, NEW e \in Inputs(q)
  PROVE  /\ e \in Net!Endpoints(board.net)
         /\ board.pins[e].port \in Port /\ board.pins[e].bit \in 0 .. 7
         /\ board.pins[e] = [port |-> board.pins[e].port, bit |-> board.pins[e].bit]
<1>1. e \in Net!Endpoints(board.net) /\ board.pins[e].port # "OUT"
  BY DEF Inputs, IsOutput
<1>2. board.pins[e] \in [port : {"OUT"}, bit : 0 .. 2] \cup [port : {"A", "B", "C"}, bit : 0 .. 7]
  BY <1>1, BoardType DEF IsBoard
<1>3. board.pins[e] \in [port : {"A", "B", "C"}, bit : 0 .. 7]
  BY <1>1, <1>2
<1> QED BY <1>1, <1>3 DEF Port

\* One more pin is given its level.
LEMMA OnePinMore ==
  ASSUME board \in Boards, OneNodePerPin(board), NEW q, NEW level,
         NEW s \in SUBSET Inputs(q), NEW e \in s
  PROVE  Ppi!pin_set(GivenPort(q, level, s \ {e}), board.pins[e].port, board.pins[e].bit,
                     level[board.net.wire[e]])
           = GivenPort(q, level, s)
<1> DEFINE old == GivenPort(q, level, s \ {e})
           port == board.pins[e].port
           bit == board.pins[e].bit
           v == level[board.net.wire[e]]
           bits == IF v = "1" THEN old.in[port] \cup {bit} ELSE old.in[port] \ {bit}
           in == [old.in EXCEPT ![port] = bits]
<1>1. /\ port \in Port /\ bit \in 0 .. 7 /\ board.pins[e] = [port |-> port, bit |-> bit]
      /\ e \in Net!Endpoints(board.net)
  BY InputPin
<1>2. Ppi!pin_set(old, port, bit, v) = [old EXCEPT !.in = in]
  BY DEF Ppi!pin_set
<1>3. /\ old = [ctrl |-> q.ctrl, out |-> q.out, in |-> old.in]
      /\ old.in = [x \in Port |-> Given(q.in[x], level, s \ {e}, x)]
  BY DEF GivenPort
<1> HIDE DEF old
<1>4. \A f \in s : board.pins[f] = board.pins[e] => level[board.net.wire[f]] = v
  BY <1>1, InputPin DEF OneNodePerPin
<1>5. bits = Given(q.in[port], level, s, port)
  <2>1. bits = IF v = "1" THEN Given(q.in[port], level, s \ {e}, port) \cup {bit}
               ELSE Given(q.in[port], level, s \ {e}, port) \ {bit}
    BY <1>1, <1>3
  <2> HIDE DEF bits
  <2> DEFINE here(b) == [port |-> port, bit |-> b]
             was(b) == {f \in s \ {e} : board.pins[f] = here(b)}
             now(b) == {f \in s : board.pins[f] = here(b)}
  <2>2. \A b : b # bit => here(b) # board.pins[e]
    BY <1>1
  <2>3. \A b : b # bit => was(b) = now(b)
    BY <2>2
  <2>4. e \in now(bit) /\ \A f \in now(bit) : level[board.net.wire[f]] = v
    BY <1>1, <1>4
  <2>5. \A b : b \in Given(q.in[port], level, s, port) <=>
               /\ b \in q.in[port] \cup 0 .. 7
               /\ \/ now(b) = {} /\ b \in q.in[port]
                  \/ \E f \in now(b) : level[board.net.wire[f]] = "1"
    BY DEF Given
  <2>6. \A b : b \in Given(q.in[port], level, s \ {e}, port) <=>
               /\ b \in q.in[port] \cup 0 .. 7
               /\ \/ was(b) = {} /\ b \in q.in[port]
                  \/ \E f \in was(b) : level[board.net.wire[f]] = "1"
    BY DEF Given
  <2> HIDE DEF was, now, here, v, bit, port
  <2>7. \A b : b # bit => (b \in Given(q.in[port], level, s, port) <=>
                           b \in Given(q.in[port], level, s \ {e}, port))
    BY <2>3, <2>5, <2>6
  <2>8. bit \in Given(q.in[port], level, s, port) <=> v = "1"
    BY <1>1, <2>4, <2>5
  <2> QED BY <2>1, <2>7, <2>8
<1>6. \A x \in Port : x # port => Given(q.in[x], level, s \ {e}, x) = Given(q.in[x], level, s, x)
  <2> SUFFICES ASSUME NEW x \in Port, x # port
               PROVE  Given(q.in[x], level, s \ {e}, x) = Given(q.in[x], level, s, x)
    OBVIOUS
  <2>1. \A b : board.pins[e] # [port |-> x, bit |-> b]
    BY <1>1
  <2>2. \A b : {f \in s \ {e} : board.pins[f] = [port |-> x, bit |-> b]}
                 = {f \in s : board.pins[f] = [port |-> x, bit |-> b]}
    BY <2>1
  <2> QED BY <2>2 DEF Given
<1> HIDE DEF port, bit, v, bits
<1>7. in = [x \in Port |-> Given(q.in[x], level, s, x)]
  BY <1>1, <1>3, <1>5, <1>6
<1> HIDE DEF in
<1>8. [old EXCEPT !.in = in] = [ctrl |-> q.ctrl, out |-> q.out, in |-> in]
  BY <1>3
<1> QED BY <1>2, <1>7, <1>8 DEF GivenPort, old, port, bit, v

\* The pins of the net get their levels one after the other, in any order.
LEMMA WiredGives ==
  ASSUME board \in Boards, OneNodePerPin(board), NEW p, NEW q, PortForm(q)
  PROVE  Wired(p, q) = GivenPort(q, Net!Evaluated(board.net, Driven(p, q)), Inputs(q))
<1> DEFINE level == Net!Evaluated(board.net, Driven(p, q))
           inputs == Inputs(q)
           one(r, e) == Ppi!pin_set(r, board.pins[e].port, board.pins[e].bit, level[board.net.wire[e]])
           IsFold(g) == g = [s \in SUBSET inputs |->
                               IF s = {} THEN q
                               ELSE one(g[s \ {CHOOSE e \in s : TRUE}], CHOOSE e \in s : TRUE)]
           given == [s \in SUBSET inputs |-> GivenPort(q, level, s)]
           fold == CHOOSE g : IsFold(g)
<1>1. Wired(p, q) = fold[inputs]
  BY DEF Wired, FoldSet, MapThenFoldSet, Inputs
<1>2. GivenPort(q, level, {}) = q
  <2>1. \A port \in Port : Given(q.in[port], level, {}, port) = q.in[port]
    BY DEF Given
  <2>2. [port \in Port |-> Given(q.in[port], level, {}, port)] = q.in
    BY <2>1 DEF PortForm
  <2> QED BY <2>2 DEF GivenPort, PortForm
<1> HIDE DEF level
<1>3. \A s \in SUBSET inputs : s # {} =>
        /\ (CHOOSE e \in s : TRUE) \in s
        /\ \A e \in s : one(GivenPort(q, level, s \ {e}), e) = GivenPort(q, level, s)
  BY OnePinMore
<1> HIDE DEF one, inputs
<1>4. IsFold(given)
  <2>1. \A s \in SUBSET inputs : s # {} =>
          given[s] = one(given[s \ {CHOOSE e \in s : TRUE}], CHOOSE e \in s : TRUE)
    BY <1>3
  <2>2. given[{}] = q
    BY <1>2
  <2>3. given = [s \in SUBSET inputs |-> given[s]]
    OBVIOUS
  <2> HIDE DEF given
  <2> QED BY <2>1, <2>2, <2>3
<1>5. IsFold(fold)
  BY <1>4
<1> HIDE DEF fold
<1>6. /\ fold[{}] = q
      /\ \A s \in SUBSET inputs : s # {} =>
           fold[s] = one(fold[s \ {CHOOSE e \in s : TRUE}], CHOOSE e \in s : TRUE)
  BY <1>5
<1>7. IsFiniteSet(inputs)
  BY BoardType, FS_Subset DEF IsBoard, Inputs, inputs
<1> DEFINE A == {n \in Nat : \A s \in SUBSET inputs : Cardinality(s) = n => fold[s] = GivenPort(q, level, s)}
<1>8. 0 \in A
  <2>1. \A s \in SUBSET inputs : Cardinality(s) = 0 => s = {}
    BY <1>7, FS_Subset, FS_EmptySet
  <2> QED BY <1>2, <1>6, <2>1
<1>9. \A n \in Nat : n \in A => n + 1 \in A
  <2> SUFFICES ASSUME NEW n \in Nat, n \in A, NEW s \in SUBSET inputs, Cardinality(s) = n + 1
               PROVE  fold[s] = GivenPort(q, level, s)
    OBVIOUS
  <2> DEFINE e == CHOOSE e \in s : TRUE
  <2>1. IsFiniteSet(s) /\ s # {}
    BY <1>7, FS_Subset, FS_EmptySet
  <2>2. e \in s /\ s \ {e} \in SUBSET inputs
    BY <1>3, <2>1
  <2>3. Cardinality(s \ {e}) = n
    <3>1. Cardinality(s \ {e}) = Cardinality(s) - 1
      BY <2>1, <2>2, FS_RemoveElement
    <3> HIDE DEF e
    <3> QED BY <3>1
  <2>4. fold[s \ {e}] = GivenPort(q, level, s \ {e})
    BY <2>2, <2>3
  <2>5. fold[s] = one(fold[s \ {e}], e)
    BY <1>6, <2>1
  <2>6. one(GivenPort(q, level, s \ {e}), e) = GivenPort(q, level, s)
    BY <1>3, <2>1, <2>2
  <2> HIDE DEF e
  <2> QED BY <2>4, <2>5, <2>6
<1>10. Nat \subseteq A
  <2> HIDE DEF A
  <2> QED BY <1>8, <1>9, SetInduction
<1>11. Cardinality(inputs) \in Nat
  BY <1>7, FS_CardinalityType
<1>12. fold[inputs] = GivenPort(q, level, inputs)
  BY <1>10, <1>11
<1> QED BY <1>1, <1>12 DEF inputs, level

\* The port has what the program has said, and levels only at pins of the net.
PortAgrees(q) ==
  /\ PortForm(q) /\ q.out \in [Port -> SUBSET (0 .. 7)]
  /\ said = [ctrl |-> q.ctrl, out |-> q.out, in |-> said.in]
  /\ \A port \in Port : \A bit \in q.in[port] : PinAt(port, bit) # {}

LEMMA WiredAgrees ==
  ASSUME board \in Boards, OneNodePerPin(board), PortAgrees(ppi), NEW p
  PROVE  PortAgrees(Wired(p, ppi))
<1> DEFINE level == Net!Evaluated(board.net, Driven(p, ppi))
           inputs == Inputs(ppi)
           q == GivenPort(ppi, level, inputs)
<1>1. Wired(p, ppi) = q
  BY WiredGives DEF PortAgrees
<1> HIDE DEF level
<1>2. /\ q = [ctrl |-> q.ctrl, out |-> q.out, in |-> q.in]
      /\ q.ctrl = ppi.ctrl /\ q.out = ppi.out
      /\ q.in = [port \in Port |-> Given(ppi.in[port], level, inputs, port)]
  BY DEF GivenPort
<1>3. inputs \subseteq Net!Endpoints(board.net)
  BY DEF Inputs
<1> HIDE DEF q, inputs
<1>4. PortForm(q)
  BY <1>2 DEF PortForm
<1>5. \A port \in Port : \A bit \in q.in[port] : PinAt(port, bit) # {}
  BY <1>2, <1>3 DEF Given, PinAt, PortAgrees
<1>6. PortAgrees(q)
  BY <1>2, <1>4, <1>5 DEF PortAgrees
<1> QED BY <1>1, <1>6

\* An OUT to the port, and what the program has then said.
LEMMA OutSays ==
  ASSUME NEW q, PortAgrees(q), NEW i, IsInstruction(i), i.op = "OUT", i.dev = "ppi"
  PROVE  LET r == Ppi!on_io_write(q, i.reg, i.value)
         IN  /\ PortForm(r) /\ r.out \in [Port -> SUBSET (0 .. 7)] /\ r.in = q.in
             /\ Said(i) = [ctrl |-> r.ctrl, out |-> r.out, in |-> said.in]
<1> DEFINE r == Ppi!on_io_write(q, i.reg, i.value)
           Says(x, y) == /\ x = [ctrl |-> x.ctrl, out |-> x.out, in |-> q.in]
                         /\ x.out \in [Port -> SUBSET (0 .. 7)]
                         /\ y = [ctrl |-> x.ctrl, out |-> x.out, in |-> said.in]
<1>1. i.reg \in 0 .. 3 /\ i.value \in Values("ppi", i.reg)
  BY DEF IsInstruction
<1>2. /\ q = [ctrl |-> q.ctrl, out |-> q.out, in |-> q.in]
      /\ said = [ctrl |-> q.ctrl, out |-> q.out, in |-> said.in]
      /\ q.out \in [Port -> SUBSET (0 .. 7)]
      /\ said.out = q.out
  BY DEF PortAgrees, PortForm
<1>3. ASSUME i.reg = 3, i.value.set PROVE Says(r, Said(i))
  <2> DEFINE half == [q EXCEPT !.ctrl = i.value]
             said1 == [said EXCEPT !.ctrl = i.value]
  <2>1. r = [half EXCEPT !.out = Ppi!NoBits]
    BY <1>3 DEF Ppi!on_io_write, Ppi!writeControl
  <2>2. Said(i) = [said1 EXCEPT !.out = Ppi!NoBits]
    BY <1>3 DEF Said
  <2>3. half = [ctrl |-> i.value, out |-> q.out, in |-> q.in]
    BY <1>2
  <2>4. said1 = [ctrl |-> i.value, out |-> q.out, in |-> said.in]
    BY <1>2
  <2> HIDE DEF half, said1, r
  <2>5. r = [ctrl |-> i.value, out |-> Ppi!NoBits, in |-> q.in]
    BY <2>1, <2>3
  <2>6. Said(i) = [ctrl |-> i.value, out |-> Ppi!NoBits, in |-> said.in]
    BY <2>2, <2>4
  <2>7. Ppi!NoBits \in [Port -> SUBSET (0 .. 7)]
    BY DEF Ppi!NoBits, Port
  <2>8. r.ctrl = i.value /\ r.out = Ppi!NoBits
    BY <2>5
  <2> QED BY <2>5, <2>6, <2>7, <2>8
<1>4. ASSUME ~(i.reg = 3 /\ i.value.set) PROVE Says(r, Said(i))
  <2>1. PICK port \in Port, bits \in SUBSET (0 .. 7) :
          /\ r = [q EXCEPT !.out = [q.out EXCEPT ![port] = bits]]
          /\ Said(i) = [said EXCEPT !.out = [said.out EXCEPT ![port] = bits]]
    <3>1. CASE i.reg = 3
      <4> DEFINE bits == IF i.value.value THEN q.out["C"] \cup {i.value.bit} ELSE q.out["C"] \ {i.value.bit}
      <4>1. i.value \in Ppi!BitWord /\ ~i.value.set
        BY <1>1, <1>4, <3>1 DEF Values, Ppi!ModeWord, Ppi!BitWord
      <4>2. i.value.bit \in 0 .. 7 /\ i.value.value \in BOOLEAN
        BY <4>1 DEF Ppi!BitWord
      <4>3. "C" \in Port /\ bits \in SUBSET (0 .. 7)
        BY <1>2, <4>2 DEF Port
      <4>4. r = [q EXCEPT !.out = [q.out EXCEPT !["C"] = bits]]
        BY <3>1, <4>1, <4>2 DEF Ppi!on_io_write, Ppi!writeControl
      <4>5. Said(i) = [said EXCEPT !.out = [said.out EXCEPT !["C"] =
                         IF i.value.value THEN said.out["C"] \cup {i.value.bit}
                         ELSE said.out["C"] \ {i.value.bit}]]
        BY <3>1, <4>1 DEF Said
      <4>6. Said(i) = [said EXCEPT !.out = [said.out EXCEPT !["C"] = bits]]
        BY <1>2, <4>5
      <4> HIDE DEF bits, r
      <4> QED BY <4>3, <4>4, <4>6
    <3>2. CASE i.reg # 3
      <4> DEFINE port == <<"A", "B", "C">>[i.reg + 1]
      <4>1. i.value \in SUBSET (0 .. 7)
        BY <1>1, <3>2 DEF Values
      <4>2. port \in Port
        BY <1>1, <3>2 DEF Port
      <4>3. r = [q EXCEPT !.out = [q.out EXCEPT ![port] = i.value]]
        BY <3>2 DEF Ppi!on_io_write
      <4>4. Said(i) = [said EXCEPT !.out = [said.out EXCEPT ![port] = i.value]]
        BY <3>2 DEF Said
      <4> HIDE DEF port, r
      <4> QED BY <4>1, <4>2, <4>3, <4>4
    <3> QED BY <3>1, <3>2
  <2> DEFINE out == [q.out EXCEPT ![port] = bits]
  <2>2. out \in [Port -> SUBSET (0 .. 7)]
    BY <1>2
  <2>3. r = [q EXCEPT !.out = out] /\ Said(i) = [said EXCEPT !.out = out]
    BY <1>2, <2>1
  <2> HIDE DEF out, r
  <2>4. r = [ctrl |-> q.ctrl, out |-> out, in |-> q.in]
    BY <1>2, <2>3
  <2>5. Said(i) = [ctrl |-> q.ctrl, out |-> out, in |-> said.in]
    BY <1>2, <2>3
  <2>6. r.ctrl = q.ctrl /\ r.out = out
    BY <2>4
  <2> QED BY <2>2, <2>4, <2>5, <2>6
<1>5. Says(r, Said(i))
  BY <1>3, <1>4
<1> HIDE DEF r
<1>6. r.in = q.in
  BY <1>5
<1>7. PortForm(r)
  BY <1>5, <1>6 DEF PortForm, PortAgrees
<1> QED BY <1>5, <1>6, <1>7 DEF r

LEMMA InputBitsType ==
  ASSUME NEW q, NEW r, r.ctrl = q.ctrl, NEW port
  PROVE  Ppi!InputBits(r, port) = Ppi!InputBits(q, port) /\ Ppi!InputBits(q, port) \subseteq 0 .. 7
BY DEF Ppi!InputBits, Ppi!Upper, Ppi!Lower

\* What a pin of the net drives is what time and the program make it.
LEMMA DriveIsIdeal ==
  ASSUME board' \in Boards, TimerInv', pit' = PitNow, board' = board, said' = said,
         PortAgrees(ppi), NEW e \in Net!Endpoints(board.net)
  PROVE  IdealDrive(e)' = Driven(PitNow, ppi)[e]
<1> DEFINE pin == board.pins[e]
           k == pit'.c[pin.bit]
<1>1. pin \in [port : {"OUT"}, bit : 0 .. 2] \cup [port : {"A", "B", "C"}, bit : 0 .. 7]
  BY BoardType DEF IsBoard
<1>2. Driven(PitNow, ppi)[e] = IF ~IsOutput(ppi, e) THEN "Z"
                              ELSE IF pin.port = "OUT" THEN LevelOf(k.out)
                              ELSE LevelOf(pin.bit \in Ppi!readPort(ppi, pin.port))
  BY DEF Driven
<1>3. IdealDrive(e)' =
        CASE pin.port = "OUT" ->
               LevelOf(IF k.running THEN WaveOut(k, age'[pin.bit]) ELSE k.mode # 0)
          [] pin.port # "OUT" /\ pin.bit \in Ppi!InputBits(said, pin.port) -> "Z"
          [] OTHER -> LevelOf(pin.bit \in said.out[pin.port])
  BY DEF IdealDrive
<1>4. CASE pin.port = "OUT"
  <2>1. pin.bit \in 0 .. 2
    BY <1>1, <1>4
  <2>2. CounterInv(k, age'[pin.bit], watch'[pin.bit])
    BY <2>1 DEF TimerInv
  <2>3. k.out = IF k.running THEN WaveOut(k, age'[pin.bit]) ELSE k.mode # 0
    BY <2>2, Zenon DEF CounterInv, OnWave
  <2>4. IsOutput(ppi, e)
    BY <1>4 DEF IsOutput
  <2>5. IdealDrive(e)' = LevelOf(IF k.running THEN WaveOut(k, age'[pin.bit]) ELSE k.mode # 0)
    BY <1>3, <1>4
  <2>6. Driven(PitNow, ppi)[e] = LevelOf(k.out)
    BY <1>2, <1>4, <2>4
  <2> QED BY <2>3, <2>5, <2>6, Zenon
<1>5. CASE pin.port # "OUT"
  <2>1. pin.port \in Port
    BY <1>1, <1>5 DEF Port
  <2>2. said.ctrl = ppi.ctrl /\ said.out = ppi.out
    BY DEF PortAgrees
  <2>3. Ppi!InputBits(said, pin.port) = Ppi!InputBits(ppi, pin.port)
    BY <2>2, InputBitsType
  <2>4. IsOutput(ppi, e) <=> pin.bit \notin Ppi!InputBits(ppi, pin.port)
    BY <1>5 DEF IsOutput
  <2>5. pin.bit \notin Ppi!InputBits(ppi, pin.port) =>
          (pin.bit \in Ppi!readPort(ppi, pin.port) <=> pin.bit \in said.out[pin.port])
    BY <2>2 DEF Ppi!readPort
  <2>6. CASE pin.bit \in Ppi!InputBits(ppi, pin.port)
    BY <1>2, <1>3, <1>5, <2>3, <2>4, <2>6
  <2>7. CASE pin.bit \notin Ppi!InputBits(ppi, pin.port)
    <3>1. Driven(PitNow, ppi)[e] = LevelOf(pin.bit \in Ppi!readPort(ppi, pin.port))
      BY <1>2, <1>5, <2>4, <2>7
    <3>2. IdealDrive(e)' = LevelOf(pin.bit \in said.out[pin.port])
      BY <1>3, <1>5, <2>3, <2>7
    <3> QED BY <2>5, <2>7, <3>1, <3>2 DEF LevelOf
  <2> QED BY <2>6, <2>7
<1> QED BY <1>4, <1>5

\* What a read of a port shows.
LEMMA ReadShows ==
  ASSUME board' \in Boards, OneNodePerPin(board), TimerInv', pit' = PitNow, board' = board,
         said' = said, PortAgrees(ppi), NEW port \in Port
  PROVE  Ppi!readPort(PpiNow, port) = IdealPort(port)'
<1> DEFINE level == Net!Evaluated(board.net, Driven(PitNow, ppi))
           inputs == Inputs(ppi)
           bits == Ppi!InputBits(ppi, port)
           at(b) == PinAt(port, b)
<1>1. [e \in Net!Endpoints(board.net) |-> IdealDrive(e)]' = Driven(PitNow, ppi)
  <2>1. Driven(PitNow, ppi) = [e \in Net!Endpoints(board.net) |-> Driven(PitNow, ppi)[e]]
    BY DEF Driven
  <2>2. [e \in Net!Endpoints(board.net) |-> IdealDrive(e)]'
          = [e \in Net!Endpoints(board.net) |-> IdealDrive(e)']
    OBVIOUS
  <2>3. \A e \in Net!Endpoints(board.net) : IdealDrive(e)' = Driven(PitNow, ppi)[e]
    BY DriveIsIdeal
  <2> QED BY <2>1, <2>2, <2>3
<1>2. /\ said.ctrl = ppi.ctrl /\ said.out = ppi.out /\ PortForm(ppi)
      /\ ppi.out[port] \subseteq 0 .. 7
  BY DEF PortAgrees
<1>3. Ppi!InputBits(said, port) = bits /\ bits \subseteq 0 .. 7
  BY <1>2, InputBitsType
<1>4. \A b : at(b)' = at(b)
  BY DEF PinAt
<1>5. \A b : b \in IdealPort(port)' <=>
               /\ b \in 0 .. 7
               /\ IF b \in bits THEN \E e \in at(b) : level[board.net.wire[e]] = "1"
                  ELSE b \in ppi.out[port]
  BY <1>1, <1>2, <1>3, <1>4 DEF IdealPort
<1> HIDE DEF level
<1>6. PpiNow = GivenPort(ppi, level, inputs)
  BY <1>2, WiredGives DEF PpiNow, level
<1>7. /\ PpiNow.ctrl = ppi.ctrl /\ PpiNow.out = ppi.out
      /\ PpiNow.in[port] = Given(ppi.in[port], level, inputs, port)
  BY <1>6 DEF GivenPort
<1>8. Ppi!InputBits(PpiNow, port) = bits
  BY <1>7, InputBitsType
<1>9. Ppi!readPort(PpiNow, port)
        = (Given(ppi.in[port], level, inputs, port) \cap bits) \cup (ppi.out[port] \ bits)
  BY <1>7, <1>8 DEF Ppi!readPort
<1>10. \A b \in bits : b \in Given(ppi.in[port], level, inputs, port) <=>
                         \E e \in at(b) : level[board.net.wire[e]] = "1"
  <2> SUFFICES ASSUME NEW b \in bits
               PROVE  b \in Given(ppi.in[port], level, inputs, port) <=>
                        \E e \in at(b) : level[board.net.wire[e]] = "1"
    OBVIOUS
  <2>1. at(b) = {e \in inputs : board.pins[e] = [port |-> port, bit |-> b]}
    <3>1. \A e \in Net!Endpoints(board.net) : board.pins[e] = [port |-> port, bit |-> b] => e \in inputs
      <4> SUFFICES ASSUME NEW e \in Net!Endpoints(board.net),
                          board.pins[e] = [port |-> port, bit |-> b]
                   PROVE  ~IsOutput(ppi, e)
        BY DEF Inputs
      <4>1. board.pins[e].port = port /\ board.pins[e].bit = b
        OBVIOUS
      <4> QED BY <4>1 DEF IsOutput, Port
    <3>2. inputs \subseteq Net!Endpoints(board.net)
      BY DEF Inputs
    <3> QED BY <3>1, <3>2 DEF PinAt
  <2>2. at(b) = {} => b \notin ppi.in[port]
    BY DEF PortAgrees
  <2>3. b \in 0 .. 7
    BY <1>3
  <2>4. b \in Given(ppi.in[port], level, inputs, port) <=>
          /\ b \in ppi.in[port] \cup 0 .. 7
          /\ \/ at(b) = {} /\ b \in ppi.in[port]
             \/ \E e \in at(b) : level[board.net.wire[e]] = "1"
    BY <2>1 DEF Given
  <2> HIDE DEF at
  <2> QED BY <2>2, <2>3, <2>4
<1> HIDE DEF at, bits, inputs
<1> QED BY <1>2, <1>3, <1>5, <1>9, <1>10

PortInv == TimerInv /\ PortAgrees(ppi) /\ PortsShowBoard

LEMMA PortInit == Init => PortInv
<1> SUFFICES ASSUME Init PROVE PortInv
  OBVIOUS
<1> DEFINE made == [ctrl |-> Ppi!AllInputs, out |-> Ppi!NoBits, in |-> Ppi!NoBits]
<1>1. ppi = [[made EXCEPT !.ctrl = Ppi!AllInputs] EXCEPT !.out = Ppi!NoBits]
  BY DEF Init, Ppi!on_reset, Ppi!Created
<1>2. ppi = made /\ said = ppi /\ got = None
  BY <1>1 DEF Init
<1>3. /\ ppi = [ctrl |-> ppi.ctrl, out |-> ppi.out, in |-> ppi.in]
      /\ ppi.in = Ppi!NoBits /\ ppi.out = Ppi!NoBits
  BY <1>2
<1>4. Ppi!NoBits = [port \in Port |-> {}]
  BY DEF Ppi!NoBits, Port
<1>5. PortAgrees(ppi)
  BY <1>2, <1>3, <1>4 DEF PortAgrees, PortForm
<1> QED BY <1>2, <1>5, TimerInit DEF PortInv, PortsShowBoard

LEMMA PortNext ==
  ASSUME PortInv, OneNodePerPin(board), NEW i \in board.guest, Instruction(i)
  PROVE  PortInv'
<1>1. TimerInv' /\ IsInstruction(i) /\ board \in Boards /\ board' \in Boards
  BY TimerNext, GuestType DEF PortInv, TimerInv
<1>2. PICK refused \in Refusals(i) :
        /\ Record(i, PitNow, refused) /\ board' = board
        /\ Run(i, PitNow, PpiNow) \/ Out(i, PitNow, PpiNow, refused) \/ In(i, PitNow, PpiNow)
  BY InstructionSteps
<1>3. said' = Said(i)
  BY <1>2 DEF Record
<1>4. PortAgrees(PpiNow)
  BY <1>1, WiredAgrees DEF PortInv, PpiNow
<1>5. PortAgrees(ppi)'
  <2>1. CASE i.op = "OUT" /\ i.dev = "ppi"
    <3> DEFINE r == Ppi!on_io_write(PpiNow, i.reg, i.value)
    <3>1. /\ PortForm(r) /\ r.out \in [Port -> SUBSET (0 .. 7)] /\ r.in = PpiNow.in
          /\ Said(i) = [ctrl |-> r.ctrl, out |-> r.out, in |-> said.in]
      BY <1>1, <1>4, <2>1, OutSays
    <3>2. ppi' = r
      BY <1>2, <2>1 DEF Run, Out, In
    <3> HIDE DEF r
    <3>3. said' = [ctrl |-> ppi'.ctrl, out |-> ppi'.out, in |-> said'.in]
      BY <1>3, <3>1, <3>2
    <3>4. \A port \in Port : \A bit \in ppi'.in[port] : PinAt(port, bit)' # {}
      BY <1>2, <1>4, <3>1, <3>2 DEF PortAgrees, PinAt
    <3> QED BY <3>1, <3>2, <3>3, <3>4 DEF PortAgrees, PortForm
  <2>2. CASE ~(i.op = "OUT" /\ i.dev = "ppi")
    <3>1. ppi' = PpiNow
      BY <1>2, <2>2 DEF Run, Out, In
    <3>2. said' = said
      BY <1>3, <2>2 DEF Said
    <3> QED BY <1>2, <1>4, <3>1, <3>2 DEF PortAgrees, PortForm, PinAt
  <2> QED BY <2>1, <2>2
<1>6. PortsShowBoard'
  <2>1. CASE i.op = "IN" /\ i.dev = "ppi" /\ i.reg # 3
    <3> DEFINE port == <<"A", "B", "C">>[i.reg + 1]
    <3>1. port \in Port /\ i.reg \in 0 .. 2
      BY <1>1, <2>1 DEF IsInstruction, Port
    <3>2. got' = [reg |-> i.reg, value |-> Ppi!readPort(PpiNow, port)]
      BY <1>2, <2>1 DEF Run, Out, In, ReadValue
    <3>3. pit' = PitNow
      BY <1>2, <2>1 DEF Run, Out, In
    <3>4. said' = said
      BY <1>3, <2>1 DEF Said
    <3>5. Ppi!readPort(PpiNow, port) = IdealPort(port)'
      BY <1>1, <1>2, <3>1, <3>3, <3>4, ReadShows DEF PortInv
    <3>6. got'.value = Ppi!readPort(PpiNow, port) /\ <<"A", "B", "C">>[got'.reg + 1] = port
      BY <3>2
    <3> HIDE DEF port
    <3> QED BY <3>5, <3>6 DEF PortsShowBoard
  <2>2. CASE ~(i.op = "IN" /\ i.dev = "ppi" /\ i.reg # 3)
    <3>1. got' = None
      BY <1>2, <2>2 DEF Run, Out, In
    <3> QED BY <3>1 DEF PortsShowBoard
  <2> QED BY <2>1, <2>2
<1> QED BY <1>1, <1>5, <1>6 DEF PortInv

LEMMA PortStutter == PortInv /\ UNCHANGED vars => PortInv'
<1> SUFFICES ASSUME PortInv, UNCHANGED vars PROVE PortInv'
  OBVIOUS
<1>1. TimerInv'
  BY TimerStutter DEF PortInv
<1>2. PortAgrees(ppi)'
  BY DEF PortInv, PortAgrees, PortForm, PinAt, vars
<1>3. PortsShowBoard'
  <2>1. \A e : IdealDrive(e)' = IdealDrive(e)
    BY DEF IdealDrive, vars
  <2>2. \A port : IdealPort(port)' = IdealPort(port)
    BY <2>1 DEF IdealPort, PinAt, vars
  <2> QED BY <2>2 DEF PortInv, PortsShowBoard, vars
<1> QED BY <1>1, <1>2, <1>3 DEF PortInv

\* A read of a port shows the board as it stands, whatever chips and wires there are, if
\* the wires give no pin two nodes (i8255.cpp 78-113, io_runtime.cpp 310-376, 463-478).
THEOREM PortsShowBoardHolds ==
  ASSUME \A b \in Boards : OneNodePerPin(b)
  PROVE  Spec => []PortsShowBoard
<1>1. PortInv /\ [Next]_vars => PortInv'
  BY PortNext, PortStutter DEF Next, PortInv, TimerInv
<1>2. PortInv => PortsShowBoard
  BY DEF PortInv
<1> QED BY PortInit, <1>1, <1>2, PTL DEF Spec
=============================================================================
