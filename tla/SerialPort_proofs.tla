-------------------------- MODULE SerialPort_proofs --------------------------
(***************************************************************************)
(* Proofs about SerialPort: bytes keep their order on both ways, nothing   *)
(* is lost between the socket and the program, the script is read          *)
(* completely and /RTS stops the stream, for every script, every typing,   *)
(* every output, every size of the buffers and any number of connections.  *)
(***************************************************************************)
EXTENDS SerialPort, SequenceTheorems, TLAPS

(***************************************************************************)
(* Sequences.                                                              *)
(***************************************************************************)

\* Concatenation under a name of its own: the provers then use the two laws below
\* and do not look into the sequences.
Cat(p, q) == p \o q

LEMMA CatAssociative ==
  ASSUME NEW S, NEW p \in Seq(S), NEW q \in Seq(S), NEW r \in Seq(S)
  PROVE  Cat(p, q) \in Seq(S) /\ Cat(Cat(p, q), r) = Cat(p, Cat(q, r))
<1>1. p \o q \in Seq(S)
  BY ConcatProperties, SMTT(30)
<1>2. (p \o q) \o r = p \o (q \o r)
  BY ConcatAssociative, SMTT(60)
<1> QED
  BY <1>1, <1>2, Zenon DEF Cat

LEMMA Regroup ==
  ASSUME NEW S, NEW p \in Seq(S), NEW q \in Seq(S), NEW r \in Seq(S), NEW s \in Seq(S)
  PROVE  Cat(Cat(p, Cat(q, r)), s) = Cat(Cat(p, q), Cat(r, s))
<1>1. Cat(p, q) \in Seq(S)
  BY CatAssociative
<1>2. Cat(p, Cat(q, r)) = Cat(Cat(p, q), r)
  BY CatAssociative
<1>3. Cat(Cat(Cat(p, q), r), s) = Cat(Cat(p, q), Cat(r, s))
  BY <1>1, CatAssociative
<1> QED
  BY <1>2, <1>3

\* Dropping as many elements as t has from the end of s \o t leaves s.
LEMMA DropEnd ==
  ASSUME NEW S, NEW s \in Seq(S), NEW t \in Seq(S)
  PROVE  SubSeq(s \o t, 1, Len(s \o t) - Len(t)) = s
<1>1. /\ Len(s) \in Nat /\ Len(t) \in Nat
      /\ Len(s \o t) = Len(s) + Len(t)
      /\ \A i \in 1 .. Len(s) + Len(t) :
           (s \o t)[i] = IF i <= Len(s) THEN s[i] ELSE t[i - Len(s)]
  BY ConcatProperties, LenProperties
<1>2. Len(s \o t) - Len(t) = Len(s)
  BY <1>1
<1>3. \A i \in 1 .. Len(s) : (s \o t)[i] = s[i] /\ s[i] \in S
  BY <1>1, ElementOfSeq
<1>4. /\ SubSeq(s \o t, 1, Len(s)) \in Seq(S)
      /\ Len(SubSeq(s \o t, 1, Len(s))) = Len(s)
      /\ \A i \in 1 .. Len(s) : SubSeq(s \o t, 1, Len(s))[i] = s[i]
  <2>1. \A i \in 1 .. Len(s) : (s \o t)[i] \in S
    BY <1>3
  <2>2. /\ SubSeq(s \o t, 1, Len(s)) \in Seq(S)
        /\ Len(SubSeq(s \o t, 1, Len(s))) = IF 1 <= Len(s) THEN Len(s) - 1 + 1 ELSE 0
        /\ \A i \in 1 .. Len(s) - 1 + 1 : SubSeq(s \o t, 1, Len(s))[i] = (s \o t)[1 + i - 1]
    BY <1>1, <2>1, SubSeqProperties
  <2>3. QED
    BY <1>1, <1>3, <2>2
<1>5. QED
  BY <1>2, <1>4, SeqEqual

\* A sequence is what is taken from its front and the rest.
LEMMA Split ==
  ASSUME NEW S, NEW s \in Seq(S), NEW n \in 0 .. Len(s)
  PROVE  /\ SubSeq(s, 1, n) \in Seq(S) /\ Len(SubSeq(s, 1, n)) = n
         /\ SubSeq(s, n + 1, Len(s)) \in Seq(S)
         /\ SubSeq(s, 1, n) \o SubSeq(s, n + 1, Len(s)) = s
<1>1. Len(s) \in Nat /\ n \in Nat /\ n <= Len(s)
  BY LenProperties
<1>2. \A i \in 1 .. Len(s) : s[i] \in S
  BY ElementOfSeq
<1>3. SubSeq(s, 1, n) \in Seq(S) /\ Len(SubSeq(s, 1, n)) = IF 1 <= n THEN n - 1 + 1 ELSE 0
  <2>1. \A i \in 1 .. n : s[i] \in S
    BY <1>1, <1>2
  <2>2. QED
    BY <1>1, <2>1, SubSeqProperties
<1>4. SubSeq(s, n + 1, Len(s)) \in Seq(S)
  <2>1. \A i \in (n + 1) .. Len(s) : s[i] \in S
    BY <1>1, <1>2
  <2>2. n + 1 \in Int
    BY <1>1
  <2>3. QED
    BY <1>1, <2>1, <2>2, SubSeqProperties
<1>5. SubSeq(s, 1, n) \o SubSeq(s, n + 1, Len(s)) = SubSeq(s, 1, Len(s))
  <2>1. 1 \in 1 .. Len(s) + 1 /\ n \in 1 - 1 .. Len(s) /\ Len(s) \in n .. Len(s)
    BY <1>1
  <2>2. QED
    BY <2>1, ConcatAdjacentSubSeq
<1>6. SubSeq(s, 1, Len(s)) = s
  BY SubSeqFull
<1>7. Len(SubSeq(s, 1, n)) = n
  BY <1>1, <1>3
<1>8. QED
  BY <1>3, <1>4, <1>5, <1>6, <1>7, Zenon

\* A nonempty sequence is its head and its tail.
LEMMA HeadFirst ==
  ASSUME NEW S, NEW s \in Seq(S), s # <<>>
  PROVE  /\ Head(s) \in S /\ Tail(s) \in Seq(S)
         /\ <<Head(s)>> \o Tail(s) = s
<1>1. Head(s) \in S /\ Tail(s) \in Seq(S) /\ Tail(s) = SubSeq(s, 2, Len(s))
  BY HeadTailProperties, TailIsSubSeq
<1>2. Len(s) \in Nat \ {0}
  BY EmptySeq
<1>3. SubSeq(s, 1, Len(s)) = <<s[1]>> \o SubSeq(s, 2, Len(s))
  <2>1. 1 \in 1 .. Len(s) /\ Len(s) \in 1 .. Len(s)
    BY <1>2
  <2>2. SubSeq(s, 1, Len(s)) = <<s[1]>> \o SubSeq(s, 1 + 1, Len(s))
    BY <2>1, SubSeqRecursiveFirst
  <2>3. QED
    BY <2>2
<1>4. Head(s) = s[1]
  <2>1. 1 \in 1 .. Len(s) /\ Len(s) \in 1 .. Len(s)
    BY <1>2
  <2>2. Head(SubSeq(s, 1, Len(s))) = s[1]
    BY <2>1, HeadTailOfSubSeq
  <2>3. QED
    BY <2>2, SubSeqFull
<1>5. QED
  BY <1>1, <1>3, <1>4, SubSeqFull

\* Appending to the last of two sequences that are joined.
LEMMA AppendLast ==
  ASSUME NEW S, NEW s \in Seq(S), NEW t \in Seq(S), NEW e \in S
  PROVE  s \o Append(t, e) = Append(s \o t, e)
<1>1. s \o t \in Seq(S) /\ <<e>> \in Seq(S)
  BY ConcatProperties
<1>2. Append(t, e) = t \o <<e>> /\ Append(s \o t, e) = (s \o t) \o <<e>>
  BY <1>1, AppendIsConcat
<1>3. QED
  BY <1>1, <1>2, ConcatAssociative

----------------------------------------------------------------------------
(***************************************************************************)
(* The chip.  A step leaves the register, fills it from the script or      *)
(* fills it from the queue, and the two accesses empty it at most.         *)
(***************************************************************************)

\* The registers that a step of the chip leaves.
SamePlace(c, d) == d.rx = c.rx /\ d.rxPos = c.rxPos /\ d.rtsAsserted = c.rtsAsserted

\* What one step does to the register and the queue, "queue" with what has arrived.
Fills(c, d, queue) ==
  \/ d.rdrFull = c.rdrFull /\ d.rdrByte = c.rdrByte /\ d.rxq = queue
  \/ /\ ~c.rdrFull /\ c.rtsAsserted /\ c.rxPos < Len(c.rx)
     /\ d.rdrFull /\ d.rdrByte = c.rx[c.rxPos + 1] /\ d.rxq = queue
  \/ /\ ~c.rdrFull /\ c.rtsAsserted /\ queue # <<>>
     /\ d.rdrFull /\ d.rdrByte = Head(queue) /\ d.rxq = Tail(queue)

\* on_step, mc6850.cpp 150.
LEMMA StepFills ==
  ASSUME NEW c \in Acia, NEW arrived \in Seq(Byte)
  PROVE  LET d == on_step(c, arrived)
         IN  d \in Acia /\ SamePlace(c, d) /\ Fills(c, d, c.rxq \o arrived)
<1> DEFINE queue == c.rxq \o arrived
           later == IF c.wait > 0 THEN c.wait - 1 ELSE 0
           ready == [c EXCEPT !.rxq = queue, !.wait = later]
           fed == FeedScripted(ready)
           d == FeedLive(fed)
<1>1. queue \in Seq(Byte) /\ later \in Nat
  BY ConcatProperties DEF Acia
<1>2. on_step(c, arrived) = d
  BY DEF on_step, Acia
<1> HIDE DEF queue, later
<1>3. /\ ready \in Acia /\ SamePlace(c, ready) /\ ready.rxq = queue
      /\ ready.rdrFull = c.rdrFull /\ ready.rdrByte = c.rdrByte
  BY <1>1 DEF Acia, SamePlace
<1> HIDE DEF ready
<1>4. /\ fed \in Acia /\ SamePlace(ready, fed) /\ fed.rxq = queue
      /\ \/ fed = ready
         \/ /\ ~ready.rdrFull /\ ready.rtsAsserted /\ ready.rxPos < Len(ready.rx)
            /\ fed.rdrFull /\ fed.rdrByte = ready.rx[ready.rxPos + 1]
  <2> DEFINE feeds == /\ ~ready.rdrFull /\ ready.rxPos < Len(ready.rx)
                      /\ ready.rtsAsserted /\ ready.wait = 0
  <2>1. CASE feeds
    <3>1. fed = [ready EXCEPT !.rdrByte = ready.rx[ready.rxPos + 1], !.rdrFull = TRUE]
      BY <2>1 DEF FeedScripted
    <3>2. ready.rx[ready.rxPos + 1] \in Byte
      <4>1. ready.rx \in Seq(Byte) /\ ready.rxPos \in Nat
        BY <1>3 DEF Acia
      <4>2. ready.rxPos + 1 \in 1 .. Len(ready.rx)
        BY <2>1, <4>1
      <4>3. QED
        BY <4>1, <4>2, ElementOfSeq
    <3> DEFINE byte == ready.rx[ready.rxPos + 1]
    <3> HIDE DEF byte
    <3>3. [ready EXCEPT !.rdrByte = byte, !.rdrFull = TRUE] \in Acia
      <4> DEFINE x == [ready EXCEPT !.rdrByte = byte]
      <4>1. x \in Acia
        BY <1>3, <3>2 DEF Acia, byte
      <4>2. [x EXCEPT !.rdrFull = TRUE] \in Acia
        <5> HIDE DEF x
        <5>1. QED BY <4>1 DEF Acia
      <4>3. [ready EXCEPT !.rdrByte = byte, !.rdrFull = TRUE] = [x EXCEPT !.rdrFull = TRUE]
        BY <1>3 DEF Acia
      <4>4. QED
        BY <4>2, <4>3
    <3>4. SamePlace(ready, fed) /\ fed.rxq = queue /\ fed.rdrFull /\ fed.rdrByte = byte
      BY <1>3, <3>1 DEF Acia, SamePlace, byte
    <3>5. QED
      BY <2>1, <3>1, <3>3, <3>4 DEF byte
  <2>2. CASE ~feeds
    <3>1. fed = ready
      BY <2>2 DEF FeedScripted
    <3>2. QED
      BY <1>3, <3>1 DEF SamePlace
  <2>3. QED
    BY <2>1, <2>2
<1> HIDE DEF fed
<1>5. /\ d \in Acia /\ SamePlace(fed, d)
      /\ \/ d = fed
         \/ /\ ~fed.rdrFull /\ fed.rtsAsserted /\ queue # <<>>
            /\ d.rdrFull /\ d.rdrByte = Head(queue) /\ d.rxq = Tail(queue)
  <2> DEFINE feeds == ~fed.rdrFull /\ fed.rxq # <<>> /\ fed.rtsAsserted
  <2>1. CASE feeds
    <3>1. d = [fed EXCEPT !.rdrByte = Head(queue), !.rxq = Tail(queue), !.rdrFull = TRUE]
      BY <1>4, <2>1 DEF FeedLive
    <3>2. Head(queue) \in Byte /\ Tail(queue) \in Seq(Byte)
      BY <1>1, <1>4, <2>1, HeadTailProperties
    <3> DEFINE byte == Head(queue)
               rest == Tail(queue)
    <3> HIDE DEF byte, rest
    <3>3. [fed EXCEPT !.rdrByte = byte, !.rxq = rest, !.rdrFull = TRUE] \in Acia
      <4> DEFINE x == [fed EXCEPT !.rdrByte = byte]
                 y == [x EXCEPT !.rxq = rest]
      <4>1. x \in Acia
        BY <1>4, <3>2 DEF Acia, byte
      <4>2. y \in Acia
        <5> HIDE DEF x
        <5>1. QED BY <3>2, <4>1 DEF Acia, rest
      <4>3. [y EXCEPT !.rdrFull = TRUE] \in Acia
        <5> HIDE DEF y
        <5>1. QED BY <4>2 DEF Acia
      <4>4. [fed EXCEPT !.rdrByte = byte, !.rxq = rest, !.rdrFull = TRUE]
              = [y EXCEPT !.rdrFull = TRUE]
        BY <1>4 DEF Acia
      <4>5. QED
        BY <4>3, <4>4
    <3>4. SamePlace(fed, d) /\ d.rdrFull /\ d.rdrByte = byte /\ d.rxq = rest
      BY <1>4, <3>1 DEF Acia, SamePlace, byte, rest
    <3>5. QED
      BY <1>4, <2>1, <3>1, <3>3, <3>4 DEF byte, rest
  <2>2. CASE ~feeds
    <3>1. d = fed
      BY <2>2 DEF FeedLive
    <3>2. QED
      BY <1>4, <3>1 DEF SamePlace
  <2>3. QED
    BY <2>1, <2>2
<1> HIDE DEF d
<1>6. SamePlace(c, d)
  BY <1>3, <1>4, <1>5 DEF SamePlace
<1>7. Fills(c, d, queue)
  <2>1. CASE d = fed /\ fed = ready
    BY <1>3, <2>1 DEF Fills
  <2>2. CASE d = fed /\ fed # ready
    BY <1>3, <1>4, <2>2 DEF Fills, SamePlace
  <2>3. CASE d # fed
    <3>1. fed = ready
      BY <1>4, <1>5, <2>3
    <3>2. QED
      BY <1>3, <1>5, <2>3, <3>1 DEF Fills, SamePlace
  <2>4. QED
    BY <2>1, <2>2, <2>3
<1>8. QED
  BY <1>2, <1>5, <1>6, <1>7 DEF queue

\* on_io_post_read, mc6850.cpp 200.
LEMMA ReadEmpties ==
  ASSUME NEW c \in Acia
  PROVE  LET d == on_io_post_read(c)
         IN  /\ d \in Acia /\ d.rx = c.rx /\ d.rxq = c.rxq /\ d.rtsAsserted = c.rtsAsserted
             /\ ~d.rdrFull
             /\ d.rxPos = IF c.rdrFull THEN c.rxPos + 1 ELSE c.rxPos
<1>1. CASE c.rdrFull
  <2> DEFINE x == [c EXCEPT !.rdrFull = FALSE]
             y == [x EXCEPT !.rxPos = c.rxPos + 1]
             z == [y EXCEPT !.wait = ByteGap]
  <2>1. on_io_post_read(c) = z
    BY <1>1 DEF on_io_post_read, Acia
  <2>2. x \in Acia
    BY DEF Acia
  <2>3. y \in Acia
    <3>1. c.rxPos + 1 \in Nat
      BY DEF Acia
    <3> HIDE DEF x
    <3>2. QED BY <2>2, <3>1 DEF Acia
  <2>4. z \in Acia
    <3> HIDE DEF y
    <3>1. QED BY <2>3, ByteGapAssumption DEF Acia
  <2>5. QED
    BY <1>1, <2>1, <2>4 DEF Acia
<1>2. CASE ~c.rdrFull
  BY <1>2 DEF on_io_post_read
<1>3. QED
  BY <1>1, <1>2

\* A write to the control register, mc6850.cpp 229.
LEMMA ControlKeeps ==
  ASSUME NEW c \in Acia, NEW bits
  PROVE  LET d == WriteControl(c, bits)
         IN  /\ d \in Acia /\ d.rx = c.rx /\ d.rxq = c.rxq /\ d.rxPos = c.rxPos
             /\ d.rdrByte = c.rdrByte
             /\ d.rdrFull \in {c.rdrFull, FALSE}
<1>1. CASE {0, 1} \subseteq bits
  <2>1. WriteControl(c, bits)
          = [c EXCEPT !.rdrFull = FALSE, !.rxIntEnabled = FALSE, !.rtsAsserted = FALSE]
    BY <1>1 DEF WriteControl
  <2>2. QED
    BY <2>1 DEF Acia
<1>2. CASE ~({0, 1} \subseteq bits)
  <2> DEFINE enabled == 7 \in bits
             asserted == ~(6 \in bits /\ 5 \notin bits)
  <2>1. WriteControl(c, bits) = [c EXCEPT !.rxIntEnabled = enabled, !.rtsAsserted = asserted]
    BY <1>2 DEF WriteControl
  <2>2. enabled \in BOOLEAN /\ asserted \in BOOLEAN
    OBVIOUS
  <2> HIDE DEF enabled, asserted
  <2> DEFINE x == [c EXCEPT !.rxIntEnabled = enabled]
  <2>3. x \in Acia
    BY <2>2 DEF Acia
  <2>4. [x EXCEPT !.rtsAsserted = asserted] \in Acia
    <3> HIDE DEF x
    <3>1. QED BY <2>2, <2>3 DEF Acia
  <2>5. WriteControl(c, bits) = [x EXCEPT !.rtsAsserted = asserted]
    BY <2>1 DEF Acia
  <2>6. QED
    BY <2>1, <2>4, <2>5 DEF Acia
<1>3. QED
  BY <1>1, <1>2

----------------------------------------------------------------------------
(***************************************************************************)
(* The inductive invariant.  RxInOrder needs to know where bytes come from *)
(* (a scripted byte in the register is none a terminal typed), TxInOrder   *)
(* that nothing is kept while a terminal is connected, StopHolds that the  *)
(* register counts as well as what was read, and ScriptKept that the       *)
(* register holds the next byte of the script.                             *)
(***************************************************************************)
Sources ==
  /\ acia.rx = Script
  /\ acia.rdrFull => acia.rdrByte \in Byte
  /\ acia.rxq \in Seq(Range(user)) /\ inflight \in Seq(Range(user))

HandedOver == client => txbuf = <<>>

Paced == IF acia.rtsAsserted THEN late = 0 ELSE late + Len(RdrContent) <= 1

ScriptRead ==
  user = <<>> =>
    /\ acia.rxPos <= Len(Script) /\ read = SubSeq(Script, 1, acia.rxPos)
    /\ acia.rdrFull => acia.rxPos < Len(Script) /\ acia.rdrByte = Script[acia.rxPos + 1]

IInv == TypeOK /\ Sources /\ RxInOrder /\ TxInOrder /\ HandedOver /\ Paced /\ ScriptRead

\* What a terminal types are bytes; without one nothing is under way.
LEMMA TypedBytes ==
  ASSUME TypeOK
  PROVE  /\ user \in Seq(Byte) /\ Range(user) \subseteq Byte
         /\ Seq(Range(user)) \subseteq Seq(Byte)
         /\ \A i \in 1 .. Len(user) : user[i] \in Range(user)
         /\ user = <<>> => \A q \in Seq(Range(user)) : q = <<>>
         /\ \A b \in Range(user) : b \notin Range(Script)
<1>1. user \in Seq(Byte)
  BY SerialAssumption DEF TypeOK
<1>2. DOMAIN user = 1 .. Len(user) /\ Len(user) \in Nat
  BY <1>1, LenProperties
<1>3. Range(user) \subseteq Byte /\ \A i \in 1 .. Len(user) : user[i] \in Range(user)
  BY <1>1, <1>2, ElementOfSeq DEF Range
<1>4. Seq(Range(user)) \subseteq Seq(Byte)
  BY <1>3, SeqMonotonic
<1>5. ASSUME user = <<>>, NEW q \in Seq(Range(user)) PROVE q = <<>>
  <2>1. Range(user) = {}
    <3>1. Len(user) = 0
      BY <1>5
    <3>2. DOMAIN user = {}
      BY <1>2, <3>1
    <3>3. QED
      BY <3>2 DEF Range
  <2>2. SUFFICES ASSUME q # <<>> PROVE FALSE
    OBVIOUS
  <2>3. Head(q) \in Range(user)
    BY <1>5, <2>2, HeadTailProperties
  <2>4. QED
    BY <2>1, <2>3
<1>6. \A b \in Range(user) : b \notin Range(Script)
  BY SerialAssumption DEF TypeOK
<1>7. QED
  BY <1>1, <1>3, <1>4, <1>5, <1>6

\* The register holds at most one byte.
LEMMA ContentTypes ==
  ASSUME TypeOK
  PROVE  /\ TypedContent \in Seq(Byte)
         /\ Len(RdrContent) = IF acia.rdrFull THEN 1 ELSE 0
<1>1. acia.rdrByte \in Range(user) => acia.rdrByte \in Byte
  BY TypedBytes
<1>2. QED
  BY <1>1 DEF TypedContent, RdrContent

\* on_reset leaves an empty register and a script of which nothing was read.
LEMMA InitIInv == Init => IInv
<1> SUFFICES ASSUME Init PROVE IInv
  OBVIOUS
<1>1. /\ acia = [rx |-> Script, rxPos |-> 0, rdrFull |-> FALSE, rdrByte |-> "none", wait |-> 0,
                 rxIntEnabled |-> FALSE, rtsAsserted |-> TRUE, rxq |-> <<>>,
                 ctsLevel |-> 1, dcdLevel |-> 1]
  BY DEF Init, on_reset, Created
<1>2. acia \in Acia
  BY <1>1, SerialAssumption DEF Acia
<1>3. TypeOK
  <2>1. /\ 0 \in 0 .. MaxVisits /\ 0 \in 0 .. Len(Output)
        /\ Len(<<>>) <= TxCap
    BY SerialAssumption, EmptySeq
  <2>2. <<>> \in Seq(Byte) /\ <<>> \in Seq(Range(Output))
    BY EmptySeq
  <2>3. QED
    BY <1>2, <2>1, <2>2 DEF Init, TypeOK
<1>4. Sources
  BY <1>1 DEF Init, Sources
<1>5. RxInOrder /\ TxInOrder /\ HandedOver /\ Paced
  BY <1>1 DEF Init, RxInOrder, TxInOrder, HandedOver, Paced, TypedContent
<1>6. ScriptRead
  <2>1. SubSeq(Script, 1, 0) = <<>>
    BY SubSeqEmpty
  <2>2. Len(Script) \in Nat
    BY SerialAssumption
  <2>3. QED
    BY <1>1, <2>1, <2>2 DEF Init, ScriptRead
<1>7. QED
  BY <1>3, <1>4, <1>5, <1>6 DEF IInv

----------------------------------------------------------------------------
(* Terminals *)

LEMMA ConnectKeeps == IInv /\ Connect => IInv'
<1> SUFFICES ASSUME IInv, Connect PROVE IInv'
  OBVIOUS
<1>1. UNCHANGED <<client, user, incoming, outgoing, received>>
  BY DEF Connect
<1>2. TypeOK'
  BY <1>1, SerialAssumption
     DEF IInv, TypeOK, Connect, incoming, outgoing, received
<1>3. QED
  BY <1>1, <1>2
     DEF IInv, Sources, RxInOrder, TxInOrder, HandedOver, Paced, ScriptRead, RdrContent,
         TypedContent, incoming, outgoing, received

LEMMA TypeKeeps == IInv /\ Type => IInv'
<1> SUFFICES ASSUME IInv, Type PROVE IInv'
  OBVIOUS
<1> DEFINE byte == user[Len(sent) + 1]
<1>1. /\ UNCHANGED <<client, user, peer, visits, txbuf, spoken, kept, screen, acia, taken, read, late>>
      /\ inflight' = Append(inflight, byte) /\ sent' = Append(sent, byte)
      /\ Len(sent) < Len(user)
  BY DEF Type, outgoing, received
<1>2. byte \in Range(user) /\ byte \in Byte /\ sent \in Seq(Byte)
  <2>1. sent \in Seq(Byte) /\ user \in Seq(Byte)
    BY TypedBytes DEF IInv, TypeOK
  <2>2. Len(sent) + 1 \in 1 .. Len(user)
    BY <1>1, <2>1
  <2>3. QED
    BY <2>1, <2>2, TypedBytes DEF IInv
<1> HIDE DEF byte
<1>3. TypeOK'
  <2>1. inflight' \in Seq(Byte) /\ sent' \in Seq(Byte)
    BY <1>1, <1>2, AppendProperties DEF IInv, TypeOK
  <2>2. QED
    BY <1>1, <2>1 DEF IInv, TypeOK
<1>4. Sources'
  <2>1. inflight' \in Seq(Range(user))
    BY <1>1, <1>2, AppendProperties DEF IInv, Sources
  <2>2. QED
    BY <1>1, <2>1 DEF IInv, Sources
<1>5. RxInOrder'
  <2> DEFINE before == taken \o TypedContent \o acia.rxq
  <2>1. before \in Seq(Byte) /\ inflight \in Seq(Byte)
    BY ContentTypes, ConcatProperties DEF IInv, TypeOK, Acia
  <2>2. before' = before
    BY <1>1 DEF TypedContent
  <2>3. before \o inflight = sent
    BY DEF IInv, RxInOrder
  <2> HIDE DEF before
  <2>4. before \o Append(inflight, byte) = Append(sent, byte)
    BY <1>2, <2>1, <2>3, AppendLast
  <2>5. (before \o inflight = sent)'
    BY <1>1, <2>2, <2>4
  <2>6. QED
    BY <2>5 DEF before, RxInOrder
<1>6. (TxInOrder /\ HandedOver /\ Paced /\ ScriptRead)'
  BY <1>1 DEF IInv, TxInOrder, HandedOver, Paced, ScriptRead, RdrContent
<1>7. QED
  BY <1>3, <1>4, <1>5, <1>6 DEF IInv

\* What is in flight is the end of what was sent.
LEMMA LoseInflight ==
  ASSUME IInv
  PROVE  /\ WithoutInflight(sent) \in Seq(Byte)
         /\ taken \o TypedContent \o acia.rxq \o <<>> = WithoutInflight(sent)
<1> DEFINE before == taken \o TypedContent \o acia.rxq
<1>1. before \in Seq(Byte) /\ inflight \in Seq(Byte)
  BY ContentTypes, ConcatProperties DEF IInv, TypeOK, Acia
<1>2. before \o inflight = sent
  BY DEF IInv, RxInOrder
<1> HIDE DEF before
<1>3. WithoutInflight(sent) = before
  BY <1>1, <1>2, DropEnd DEF WithoutInflight
<1>4. before \o <<>> = before
  BY <1>1, ConcatEmptySeq
<1>5. QED
  BY <1>1, <1>3, <1>4 DEF before

LEMMA LeaveKeeps ==
  ASSUME IInv, NEW broken \in BOOLEAN, Leave(broken)
  PROVE  IInv'
<1>1. /\ UNCHANGED <<client, user, visits, txbuf, spoken, kept, screen, acia, taken, read, late>>
      /\ peer' = "left"
  BY DEF Leave, outgoing, received
<1>2. /\ inflight' \in Seq(Byte) /\ inflight' \in Seq(Range(user)) /\ sent' \in Seq(Byte)
      /\ RxInOrder'
  <2>1. CASE broken
    <3>1. inflight' = <<>> /\ sent' = WithoutInflight(sent)
      BY <2>1 DEF Leave
    <3>2. QED
      BY <1>1, <3>1, LoseInflight, EmptySeq DEF RxInOrder, TypedContent
  <2>2. CASE ~broken
    <3>1. inflight' = inflight /\ sent' = sent
      BY <2>2 DEF Leave
    <3>2. QED
      BY <1>1, <3>1 DEF IInv, TypeOK, Sources, RxInOrder, TypedContent
  <2>3. QED
    BY <2>1, <2>2
<1>3. TypeOK'
  BY <1>1, <1>2 DEF IInv, TypeOK
<1>4. (Sources /\ TxInOrder /\ HandedOver /\ Paced /\ ScriptRead)'
  BY <1>1, <1>2 DEF IInv, Sources, TxInOrder, HandedOver, Paced, ScriptRead, RdrContent
<1>5. QED
  BY <1>2, <1>3, <1>4 DEF IInv

----------------------------------------------------------------------------
(* The simulator's step *)

\* A tick receives the front of what is in flight.
LEMMA ArrivedFirst ==
  ASSUME NEW S, inflight \in Seq(S)
  PROVE  LET rest == SubSeq(inflight, Len(Arrived) + 1, Len(inflight))
         IN  Arrived \in Seq(S) /\ rest \in Seq(S) /\ Arrived \o rest = inflight
<1> DEFINE n == IF Chunk < Len(inflight) THEN Chunk ELSE Len(inflight)
<1>1. n \in 0 .. Len(inflight)
  BY SerialAssumption, LenProperties
<1>2. Arrived = SubSeq(inflight, 1, n)
  BY DEF Arrived
<1> HIDE DEF n
<1>3. /\ SubSeq(inflight, 1, n) \in Seq(S) /\ Len(SubSeq(inflight, 1, n)) = n
      /\ SubSeq(inflight, n + 1, Len(inflight)) \in Seq(S)
      /\ SubSeq(inflight, 1, n) \o SubSeq(inflight, n + 1, Len(inflight)) = inflight
  BY <1>1, Split
<1>4. QED
  BY <1>2, <1>3

LEMMA StepKeeps == IInv /\ Step => IInv'
<1> SUFFICES ASSUME IInv, Step PROVE IInv'
  OBVIOUS
<1> DEFINE queue == acia.rxq \o Arrived
           rest == SubSeq(inflight, Len(Arrived) + 1, Len(inflight))
<1>1. /\ client' = (peer # "away" /\ ~Closes)
      /\ peer' = IF Closes THEN "away" ELSE peer
      /\ txbuf' = StillBuffered
      /\ screen' = IF Accepts /\ peer = "here" THEN screen \o txbuf ELSE screen
      /\ kept' = IF Accepts /\ peer = "left" THEN SubSeq(kept, 1, Len(kept) - Len(txbuf)) ELSE kept
      /\ inflight' = rest
      /\ UNCHANGED <<user, visits, sent, taken, read, late, spoken>>
  BY DEF Step
<1>2. /\ Arrived \in Seq(Range(user)) /\ rest \in Seq(Range(user)) /\ Arrived \o rest = inflight
      /\ Arrived \in Seq(Byte) /\ rest \in Seq(Byte)
  <2>1. inflight \in Seq(Range(user)) /\ inflight \in Seq(Byte)
    BY DEF IInv, TypeOK, Sources
  <2>2. QED
    BY <2>1, ArrivedFirst
<1>3. acia' \in Acia /\ SamePlace(acia, acia') /\ Fills(acia, acia', queue)
  <2>1. acia \in Acia /\ acia' = on_step(acia, Arrived)
    BY DEF Step, IInv, TypeOK
  <2>2. QED
    BY <1>2, <2>1, StepFills
<1>4. queue \in Seq(Range(user)) /\ queue \in Seq(Byte)
  BY <1>2, ConcatProperties DEF IInv, TypeOK, Sources, Acia
<1> HIDE DEF queue, rest
<1>5. TypeOK'
  <2>1. txbuf' \in Seq(Range(Output)) /\ Len(txbuf') <= TxCap
    BY <1>1, SerialAssumption, EmptySeq DEF StillBuffered, IInv, TypeOK
  <2>2. screen' \in Seq(Range(Output))
    BY <1>1, ConcatProperties DEF IInv, TypeOK
  <2>3. kept' \in Seq(Range(Output))
    <3>1. /\ screen \in Seq(Range(Output)) /\ txbuf \in Seq(Range(Output))
          /\ kept \in Seq(Range(Output)) /\ kept = screen \o txbuf
      BY DEF IInv, TypeOK, TxInOrder
    <3>2. SubSeq(kept, 1, Len(kept) - Len(txbuf)) = screen
      BY <3>1, DropEnd
    <3>3. QED
      BY <1>1, <3>1, <3>2
  <2>4. client' \in BOOLEAN /\ (client' => peer' # "away")
    <3>1. client' => peer # "away" /\ ~Closes
      BY <1>1, Zenon
    <3>2. client' \in BOOLEAN
      BY <1>1, Zenon
    <3>3. ~Closes => peer' = peer
      BY <1>1
    <3>4. QED
      BY <3>1, <3>2, <3>3
  <2>5. peer' \in {"away", "here", "left"}
    BY <1>1 DEF IInv, TypeOK
  <2>6. QED
    BY <1>1, <1>2, <1>3, <2>1, <2>2, <2>3, <2>4, <2>5 DEF IInv, TypeOK
<1>6. Sources'
  <2>1. acia'.rxq \in Seq(Range(user))
    <3>1. acia'.rxq = queue \/ (queue # <<>> /\ acia'.rxq = Tail(queue))
      BY <1>3 DEF Fills
    <3>2. QED
      BY <1>4, <3>1, HeadTailProperties
  <2>2. acia'.rdrFull => acia'.rdrByte \in Byte
    <3>1. acia.rx \in Seq(Byte) /\ acia.rxPos \in Nat
      BY DEF IInv, TypeOK, Acia
    <3>2. acia.rxPos < Len(acia.rx) => acia.rx[acia.rxPos + 1] \in Byte
      <4>1. acia.rxPos < Len(acia.rx) => acia.rxPos + 1 \in 1 .. Len(acia.rx)
        BY <3>1
      <4>2. QED
        BY <3>1, <4>1, ElementOfSeq
    <3>3. queue # <<>> => Head(queue) \in Byte
      BY <1>4, HeadTailProperties
    <3>4. QED
      BY <1>3, <3>2, <3>3 DEF Fills, IInv, Sources
  <2>3. QED
    BY <1>1, <1>2, <1>3, <2>1, <2>2 DEF IInv, Sources, SamePlace
<1>7. RxInOrder'
  <2>1. taken \in Seq(Byte) /\ TypedContent \in Seq(Byte) /\ acia.rxq \in Seq(Byte)
    BY ContentTypes DEF IInv, TypeOK, Acia
  <2> DEFINE before == taken \o TypedContent
  <2>2. before \in Seq(Byte)
    BY <2>1, ConcatProperties
  <2>3. taken \o TypedContent' \o acia'.rxq = before \o queue
    <3>1. CASE acia'.rdrFull = acia.rdrFull /\ acia'.rdrByte = acia.rdrByte /\ acia'.rxq = queue
      BY <1>1, <3>1 DEF TypedContent
    <3>2. CASE /\ ~acia.rdrFull /\ acia.rxPos < Len(acia.rx) /\ acia'.rdrFull
               /\ acia'.rdrByte = acia.rx[acia.rxPos + 1] /\ acia'.rxq = queue
      <4>1. acia'.rdrByte \in Range(Script)
        <5>1. acia.rx = Script /\ Script \in Seq(Byte) /\ acia.rxPos \in Nat
          BY SerialAssumption DEF IInv, TypeOK, Sources, Acia
        <5>2. acia.rxPos + 1 \in 1 .. Len(Script) /\ DOMAIN Script = 1 .. Len(Script)
          BY <3>2, <5>1, LenProperties
        <5>3. QED
          BY <3>2, <5>1, <5>2 DEF Range
      <4>2. acia'.rdrByte \notin Range(user)
        BY <4>1, TypedBytes DEF IInv
      <4>3. TypedContent = <<>> /\ TypedContent' = <<>>
        BY <1>1, <3>2, <4>2 DEF TypedContent
      <4>4. QED
        BY <3>2, <4>3
    <3>3. CASE /\ ~acia.rdrFull /\ queue # <<>> /\ acia'.rdrFull
               /\ acia'.rdrByte = Head(queue) /\ acia'.rxq = Tail(queue)
      <4>1. /\ Head(queue) \in Range(user) /\ Head(queue) \in Byte /\ Tail(queue) \in Seq(Byte)
            /\ <<Head(queue)>> \o Tail(queue) = queue
        BY <1>4, <3>3, HeadFirst
      <4>2. TypedContent = <<>> /\ TypedContent' = <<Head(queue)>>
        BY <1>1, <3>3, <4>1 DEF TypedContent
      <4>3. before = taken
        BY <2>1, <4>2, ConcatEmptySeq
      <4>4. <<Head(queue)>> \in Seq(Byte)
        BY <4>1
      <4>5. (taken \o <<Head(queue)>>) \o Tail(queue) = taken \o (<<Head(queue)>> \o Tail(queue))
        BY <2>1, <4>1, <4>4, ConcatAssociative
      <4>6. QED
        BY <3>3, <4>1, <4>2, <4>3, <4>5
    <3>4. QED
      BY <1>3, <3>1, <3>2, <3>3 DEF Fills
  <2>4. (before \o acia.rxq) \o inflight = sent
    BY DEF IInv, RxInOrder
  <2> HIDE DEF before
  <2>5. (before \o queue) \o rest = sent
    <3>1. before \in Seq(Byte) /\ acia.rxq \in Seq(Byte) /\ Arrived \in Seq(Byte) /\ rest \in Seq(Byte)
      BY <1>2, <2>1, <2>2, Zenon
    <3>2. Cat(Cat(before, Cat(acia.rxq, Arrived)), rest) = Cat(Cat(before, acia.rxq), Cat(Arrived, rest))
      BY <3>1, Regroup
    <3>3. QED
      BY <1>2, <2>4, <3>2, Zenon DEF queue, Cat
  <2>6. QED
    BY <1>1, <2>3, <2>5 DEF RxInOrder
<1>8. TxInOrder'
  <2>1. /\ screen \in Seq(Range(Output)) /\ txbuf \in Seq(Range(Output))
        /\ screen \o txbuf = kept
    BY DEF IInv, TypeOK, TxInOrder
  <2>2. CASE ~Accepts
    BY <1>1, <2>1, <2>2 DEF TxInOrder, StillBuffered
  <2>3. CASE Accepts
    <3>1. txbuf' = <<>> /\ peer \in {"here", "left"}
      BY <1>1, <2>3 DEF StillBuffered, Accepts, IInv, TypeOK
    <3>2. CASE peer = "here"
      <4>1. screen' = kept /\ kept' = kept /\ kept \in Seq(Range(Output))
        BY <1>1, <2>1, <2>3, <3>2 DEF IInv, TypeOK
      <4>2. QED
        BY <3>1, <4>1, ConcatEmptySeq DEF TxInOrder
    <3>3. CASE peer = "left"
      <4>1. screen' = screen /\ kept' = SubSeq(kept, 1, Len(kept) - Len(txbuf))
        BY <1>1, <2>3, <3>3
      <4>2. kept' = screen
        BY <2>1, <4>1, DropEnd
      <4>3. QED
        BY <2>1, <3>1, <4>1, <4>2, ConcatEmptySeq DEF TxInOrder
    <3>4. QED
      BY <3>1, <3>2, <3>3
  <2>4. QED
    BY <2>2, <2>3
<1>9. HandedOver'
  <2>1. client' => peer # "away"
    BY <1>1, Zenon
  <2>2. QED
    BY <1>1, <2>1 DEF IInv, HandedOver, Accepts, StillBuffered
<1>10. Paced'
  <2>1. CASE acia.rtsAsserted
    BY <1>1, <1>3, <2>1 DEF IInv, Paced, SamePlace
  <2>2. CASE ~acia.rtsAsserted
    <3>1. acia'.rdrFull = acia.rdrFull /\ acia'.rdrByte = acia.rdrByte /\ ~acia'.rtsAsserted
      BY <1>3, <2>2 DEF Fills, SamePlace
    <3>2. RdrContent' = RdrContent
      BY <3>1 DEF RdrContent
    <3>3. QED
      BY <1>1, <2>2, <3>1, <3>2 DEF IInv, Paced
  <2>3. QED
    BY <2>1, <2>2
<1>11. ScriptRead'
  <2> SUFFICES ASSUME user = <<>>
               PROVE  /\ acia'.rxPos <= Len(Script) /\ read' = SubSeq(Script, 1, acia'.rxPos)
                      /\ acia'.rdrFull => /\ acia'.rxPos < Len(Script)
                                          /\ acia'.rdrByte = Script[acia'.rxPos + 1]
    BY <1>1 DEF ScriptRead
  <2>1. queue = <<>>
    BY <1>4, TypedBytes DEF IInv
  <2>2. acia.rx = Script /\ acia'.rxPos = acia.rxPos
    BY <1>3 DEF IInv, Sources, SamePlace
  <2>3. \/ acia'.rdrFull = acia.rdrFull /\ acia'.rdrByte = acia.rdrByte
        \/ acia.rxPos < Len(Script) /\ acia'.rdrByte = Script[acia.rxPos + 1]
    BY <1>3, <2>1, <2>2 DEF Fills
  <2>4. QED
    BY <1>1, <2>2, <2>3 DEF IInv, ScriptRead
<1>12. QED
  BY <1>5, <1>6, <1>7, <1>8, <1>9, <1>10, <1>11 DEF IInv

----------------------------------------------------------------------------
(* The program *)

LEMMA ReadDataKeeps == IInv /\ ReadData => IInv'
<1> SUFFICES ASSUME IInv, ReadData PROVE IInv'
  OBVIOUS
<1>1. /\ taken' = taken \o TypedContent /\ read' = read \o RdrContent
      /\ late' = IF ~acia.rtsAsserted THEN late + Len(RdrContent) ELSE 0
      /\ UNCHANGED <<client, user, peer, visits, inflight, sent, txbuf, spoken, kept, screen>>
  BY DEF ReadData, incoming, outgoing
<1>2. /\ acia' \in Acia /\ acia'.rx = acia.rx /\ acia'.rxq = acia.rxq
      /\ acia'.rtsAsserted = acia.rtsAsserted /\ ~acia'.rdrFull
      /\ acia'.rxPos = IF acia.rdrFull THEN acia.rxPos + 1 ELSE acia.rxPos
  <2>1. acia \in Acia /\ acia' = on_io_post_read(acia)
    BY DEF ReadData, IInv, TypeOK
  <2>2. QED
    BY <2>1, ReadEmpties
<1>3. /\ taken \in Seq(Byte) /\ read \in Seq(Byte) /\ late \in Nat /\ TypedContent \in Seq(Byte)
      /\ Len(RdrContent) = IF acia.rdrFull THEN 1 ELSE 0
      /\ RdrContent \in Seq(Byte)
  BY ContentTypes DEF IInv, TypeOK, Sources, RdrContent
<1>4. RdrContent' = <<>> /\ TypedContent' = <<>>
  BY <1>2 DEF RdrContent, TypedContent
<1>5. TypeOK'
  <2>1. taken' \in Seq(Byte) /\ read' \in Seq(Byte)
    BY <1>1, <1>3, ConcatProperties
  <2>2. late' \in Nat
    BY <1>1, <1>3
  <2>3. QED
    BY <1>1, <1>2, <2>1, <2>2 DEF IInv, TypeOK
<1>6. Sources'
  BY <1>1, <1>2 DEF IInv, Sources
<1>7. RxInOrder'
  <2>1. taken' \o TypedContent' = taken \o TypedContent
    <3>1. taken \o TypedContent \in Seq(Byte)
      BY <1>3, ConcatProperties
    <3>2. QED
      BY <1>1, <1>4, <3>1, ConcatEmptySeq
  <2>2. QED
    BY <1>1, <1>2, <2>1 DEF IInv, RxInOrder
<1>8. (TxInOrder /\ HandedOver)'
  BY <1>1 DEF IInv, TxInOrder, HandedOver
<1>9. Paced'
  BY <1>1, <1>2, <1>3, <1>4 DEF IInv, Paced
<1>10. ScriptRead'
  <2> SUFFICES ASSUME user = <<>>
               PROVE  acia'.rxPos <= Len(Script) /\ read' = SubSeq(Script, 1, acia'.rxPos)
    BY <1>1, <1>2 DEF ScriptRead
  <2> DEFINE p == acia.rxPos
  <2>1. /\ p \in Nat /\ Script \in Seq(Byte) /\ Len(Script) \in Nat
        /\ p <= Len(Script) /\ read = SubSeq(Script, 1, p)
        /\ acia.rdrFull => p < Len(Script) /\ acia.rdrByte = Script[p + 1]
    BY SerialAssumption, LenProperties DEF IInv, TypeOK, ScriptRead, Acia
  <2>2. CASE acia.rdrFull
    <3>1. acia'.rxPos = p + 1 /\ read' = SubSeq(Script, 1, p) \o <<Script[p + 1]>>
      BY <1>1, <1>2, <2>1, <2>2 DEF RdrContent
    <3> HIDE DEF p
    <3>2. SubSeq(Script, 1, p + 1) = SubSeq(Script, 1, p) \o <<Script[p + 1]>>
      <4>1. 1 \in 1 .. Len(Script) /\ p + 1 \in 1 .. Len(Script)
        BY <2>1, <2>2
      <4>2. SubSeq(Script, 1, p + 1) = SubSeq(Script, 1, (p + 1) - 1) \o <<Script[p + 1]>>
        BY <2>1, <4>1, SubSeqRecursiveSecond
      <4>3. (p + 1) - 1 = p
        BY <2>1
      <4>4. QED
        BY <4>2, <4>3
    <3>3. QED
      BY <2>1, <2>2, <3>1, <3>2
  <2>3. CASE ~acia.rdrFull
    <3>1. RdrContent = <<>> /\ read' = read
      BY <1>1, <1>3, <2>3, ConcatEmptySeq DEF RdrContent
    <3>2. QED
      BY <1>2, <2>1, <2>3, <3>1
  <2>4. QED
    BY <2>2, <2>3
<1>11. QED
  BY <1>5, <1>6, <1>7, <1>8, <1>9, <1>10 DEF IInv

LEMMA ControlKeepsIInv ==
  ASSUME IInv, NEW bits, Control(bits)
  PROVE  IInv'
<1>1. /\ taken' = IF acia'.rdrFull THEN taken ELSE taken \o TypedContent
      /\ late' = IF acia'.rtsAsserted THEN 0 ELSE late
      /\ UNCHANGED <<client, user, peer, visits, inflight, sent, txbuf, spoken, kept, screen, read>>
  BY DEF Control, incoming, outgoing
<1>2. /\ acia' \in Acia /\ acia'.rx = acia.rx /\ acia'.rxq = acia.rxq /\ acia'.rxPos = acia.rxPos
      /\ acia'.rdrByte = acia.rdrByte
      /\ acia'.rdrFull \in {acia.rdrFull, FALSE}
  <2>1. acia \in Acia /\ acia' = WriteControl(acia, bits)
    BY DEF Control, IInv, TypeOK
  <2>2. QED
    BY <2>1, ControlKeeps
<1>3. /\ taken \in Seq(Byte) /\ late \in Nat /\ TypedContent \in Seq(Byte)
      /\ Len(RdrContent) = IF acia.rdrFull THEN 1 ELSE 0
  BY ContentTypes DEF IInv, TypeOK
<1>4. acia'.rdrFull => acia.rdrFull
  BY <1>2
<1>5. TypeOK'
  <2>1. taken' \in Seq(Byte)
    BY <1>1, <1>3, ConcatProperties
  <2>2. late' \in Nat
    BY <1>1, <1>3
  <2>3. QED
    BY <1>1, <1>2, <2>1, <2>2 DEF IInv, TypeOK
<1>6. Sources'
  BY <1>1, <1>2, <1>4 DEF IInv, Sources
<1>7. RxInOrder'
  <2>1. taken' \o TypedContent' = taken \o TypedContent
    <3>1. CASE acia'.rdrFull
      BY <1>1, <1>2, <1>4, <3>1 DEF TypedContent
    <3>2. CASE ~acia'.rdrFull
      <4>1. TypedContent' = <<>> /\ taken' = taken \o TypedContent
        BY <1>1, <3>2 DEF TypedContent
      <4>2. taken \o TypedContent \in Seq(Byte)
        BY <1>3, ConcatProperties
      <4>3. QED
        BY <4>1, <4>2, ConcatEmptySeq
    <3>3. QED
      BY <3>1, <3>2
  <2>2. QED
    BY <1>1, <1>2, <2>1 DEF IInv, RxInOrder
<1>8. (TxInOrder /\ HandedOver)'
  BY <1>1 DEF IInv, TxInOrder, HandedOver
<1>9. Paced'
  <2>1. Len(RdrContent') <= 1 /\ Len(RdrContent') <= Len(RdrContent) /\ Len(RdrContent') \in Nat
    BY <1>3, <1>4 DEF RdrContent
  <2>2. Len(RdrContent) \in Nat
    BY <1>3
  <2>3. CASE acia'.rtsAsserted
    BY <1>1, <2>3 DEF Paced
  <2>4. CASE ~acia'.rtsAsserted
    <3>1. late' = late
      BY <1>1, <2>4
    <3>2. late + Len(RdrContent') <= 1
      BY <1>3, <2>1, <2>2 DEF IInv, Paced
    <3>3. QED
      BY <2>4, <3>1, <3>2 DEF Paced
  <2>5. QED
    BY <2>3, <2>4
<1>10. ScriptRead'
  BY <1>1, <1>2, <1>4 DEF IInv, ScriptRead
<1>11. QED
  BY <1>5, <1>6, <1>7, <1>8, <1>9, <1>10 DEF IInv

LEMMA WriteDataKeeps == IInv /\ WriteData => IInv'
<1> SUFFICES ASSUME IInv, WriteData PROVE IInv'
  OBVIOUS
<1> DEFINE Out == Seq(Range(Output))
           byte == Output[spoken']
<1>1. /\ spoken < Len(Output) /\ spoken' = spoken + 1
      /\ WriteKept(byte) \/ WriteSent(byte) \/ WriteDropped \/ WriteFailed
      /\ UNCHANGED <<user, visits, acia, taken, read, late>>
  BY DEF WriteData, received
<1>2. spoken' \in 0 .. Len(Output) /\ byte \in Range(Output)
  <2>1. Output \in Out /\ spoken \in Nat /\ Len(Output) \in Nat
    BY SerialAssumption, LenProperties DEF IInv, TypeOK
  <2>2. spoken' \in 1 .. Len(Output)
    BY <1>1, <2>1
  <2>3. QED
    BY <2>1, <2>2, ElementOfSeq
<1>3. /\ txbuf \in Out /\ screen \in Out /\ kept \in Out /\ Len(txbuf) \in Nat
      /\ screen \o txbuf = kept
  BY LenProperties DEF IInv, TypeOK, TxInOrder
<1> HIDE DEF Out, byte
<1>4. \* What the four outcomes have in common is enough for the rest of the invariant.
      ASSUME inflight' \in Seq(Byte), inflight' \in Seq(Range(user)), sent' \in Seq(Byte),
             taken \o TypedContent \o acia.rxq \o inflight' = sent',
             client' \in BOOLEAN, peer' \in {"away", "here", "left"}, client' => peer' # "away",
             txbuf' \in Out, Len(txbuf') <= TxCap, kept' \in Out, screen' \in Out,
             screen' \o txbuf' = kept', client' => txbuf' = <<>>
      PROVE  IInv'
  <2>1. TypeOK'
    BY <1>1, <1>2, <1>4 DEF IInv, TypeOK, Out
  <2>2. (Sources /\ RxInOrder /\ TxInOrder /\ HandedOver)'
    BY <1>1, <1>4 DEF IInv, Sources, RxInOrder, TypedContent, TxInOrder, HandedOver
  <2>3. (Paced /\ ScriptRead)'
    BY <1>1 DEF IInv, Paced, ScriptRead, RdrContent
  <2>4. QED
    BY <2>1, <2>2, <2>3 DEF IInv
<1>5. /\ inflight \in Seq(Byte) /\ inflight \in Seq(Range(user)) /\ sent \in Seq(Byte)
      /\ taken \o TypedContent \o acia.rxq \o inflight = sent
      /\ client \in BOOLEAN /\ peer \in {"away", "here", "left"} /\ (client => peer # "away")
      /\ Len(txbuf) <= TxCap /\ (client => txbuf = <<>>) /\ TxCap \in Nat
  BY SerialAssumption DEF IInv, TypeOK, Sources, RxInOrder, HandedOver
<1>6. CASE WriteKept(byte)
  <2>1. /\ ~client
        /\ UNCHANGED <<client, peer, inflight, sent, screen>>
    BY <1>6 DEF WriteKept, incoming
  <2>2. CASE Room
    <3>1. txbuf' = Append(txbuf, byte) /\ kept' = Append(kept, byte) /\ Len(txbuf) < TxCap
      BY <1>6, <2>2 DEF WriteKept, Room
    <3>2. /\ txbuf' \in Out /\ kept' \in Out /\ Len(txbuf') = Len(txbuf) + 1
      BY <1>2, <1>3, <3>1, AppendProperties DEF Out
    <3>3. screen \o txbuf' = kept'
      BY <1>2, <1>3, <3>1, AppendLast DEF Out
    <3>4. Len(txbuf') <= TxCap
      BY <1>3, <1>5, <3>1, <3>2
    <3>5. QED
      BY <1>3, <1>4, <1>5, <2>1, <3>2, <3>3, <3>4
  <2>3. CASE ~Room
    <3>1. txbuf' = txbuf /\ kept' = kept
      BY <1>6, <2>3 DEF WriteKept
    <3>2. QED
      BY <1>3, <1>4, <1>5, <2>1, <3>1
  <2>4. QED
    BY <2>2, <2>3
<1>7. CASE WriteSent(byte)
  <2>1. /\ client /\ screen' = Append(screen, byte) /\ kept' = Append(kept, byte)
        /\ UNCHANGED <<client, peer, inflight, sent, txbuf>>
    BY <1>7 DEF WriteSent, incoming
  <2>2. txbuf = <<>> /\ screen' \in Out /\ kept' \in Out
    BY <1>2, <1>3, <1>5, <2>1, AppendProperties DEF Out
  <2>3. kept = screen
    BY <1>3, <2>2, ConcatEmptySeq DEF Out
  <2>4. screen' \o <<>> = kept'
    BY <2>1, <2>2, <2>3, ConcatEmptySeq DEF Out
  <2>5. QED
    BY <1>3, <1>4, <1>5, <2>1, <2>2, <2>4
<1>8. CASE WriteDropped
  <2>1. UNCHANGED <<client, peer, inflight, sent, txbuf, screen, kept>>
    BY <1>8 DEF WriteDropped, incoming
  <2>2. QED
    BY <1>3, <1>4, <1>5, <2>1
<1>9. CASE WriteFailed
  <2>1. /\ client' = FALSE /\ peer' = "away" /\ inflight' = <<>> /\ sent' = WithoutInflight(sent)
        /\ UNCHANGED <<txbuf, screen, kept>>
    BY <1>9 DEF WriteFailed
  <2>2. sent' \in Seq(Byte) /\ taken \o TypedContent \o acia.rxq \o inflight' = sent'
    BY <2>1, LoseInflight
  <2>3. QED
    BY <1>3, <1>4, <1>5, <2>1, <2>2, EmptySeq
<1>10. QED
  BY <1>1, <1>6, <1>7, <1>8, <1>9

----------------------------------------------------------------------------

LEMMA NextIInv == IInv /\ [Next]_vars => IInv'
<1> SUFFICES ASSUME IInv, [Next]_vars PROVE IInv'
  OBVIOUS
<1>1. CASE Step
  BY <1>1, StepKeeps
<1>2. CASE Program
  <2>1. CASE ReadData
    BY <2>1, ReadDataKeeps
  <2>2. CASE WriteData
    BY <2>2, WriteDataKeeps
  <2>3. ASSUME NEW bits \in ControlWords, Control(bits) PROVE IInv'
    BY <2>3, ControlKeepsIInv
  <2>4. QED
    BY <1>2, <2>1, <2>2, <2>3 DEF Program
<1>3. CASE Terminal
  <2>1. ASSUME NEW broken \in BOOLEAN, Leave(broken) PROVE IInv'
    BY <2>1, LeaveKeeps
  <2>2. QED
    BY <1>3, <2>1, ConnectKeeps, TypeKeeps DEF Terminal
<1>4. CASE UNCHANGED vars
  BY <1>4
     DEF vars, incoming, outgoing, received, IInv, TypeOK, Sources, RxInOrder, TxInOrder,
         HandedOver, Paced, ScriptRead, RdrContent, TypedContent
<1>5. QED
  BY <1>1, <1>2, <1>3, <1>4 DEF Next

\* The chip, the channel and the terminals stay in their states: no buffer grows
\* beyond its limit.
THEOREM TypeCorrect == Spec => []TypeOK
<1>1. IInv => TypeOK
  BY DEF IInv
<1>2. QED
  BY <1>1, InitIInv, NextIInv, PTL DEF Spec

\* Nothing that was typed is lost, doubled or reordered (RxInOrder).
THEOREM RxInOrderHolds == Spec => []RxInOrder
<1>1. IInv => RxInOrder
  BY DEF IInv
<1>2. QED
  BY <1>1, InitIInv, NextIInv, PTL DEF Spec

\* Nothing that was written is doubled or reordered (TxInOrder).
THEOREM TxInOrderHolds == Spec => []TxInOrder
<1>1. IInv => TxInOrder
  BY DEF IInv
<1>2. QED
  BY <1>1, InitIInv, NextIInv, PTL DEF Spec

\* At most one byte is read after /RTS was taken away (StopHolds).
THEOREM StopHoldsAlways == Spec => []StopHolds
<1>1. IInv => StopHolds
  <2>1. IInv => Len(RdrContent) \in Nat /\ late \in Nat
    BY ContentTypes DEF IInv, TypeOK
  <2>2. QED
    BY <2>1 DEF IInv, Paced, StopHolds
<1>2. QED
  BY <1>1, InitIInv, NextIInv, PTL DEF Spec

\* The script is read in order and without gaps (ScriptKept).
THEOREM ScriptKeptHolds == Spec => []ScriptKept
<1>1. IInv => ScriptKept
  BY DEF IInv, ScriptRead, ScriptKept
<1>2. QED
  BY <1>1, InitIInv, NextIInv, PTL DEF Spec
==============================================================================
