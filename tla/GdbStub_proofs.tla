---------------------------- MODULE GdbStub_proofs ----------------------------
(***************************************************************************)
(* Proofs about GdbStub: requests and answers stay in step, stop replies   *)
(* are true, and the target runs as it would in the run loop, for every    *)
(* program, every set of timers and driven pins, every set of requests and *)
(* every distance between two polls.                                       *)
(***************************************************************************)
EXTENDS GdbStub, FiniteSetTheorems, SequenceTheorems, WellFoundedInduction, TLAPS

(***************************************************************************)
(* Short queues, at both ends.                                             *)
(***************************************************************************)

\* A queue with one element more is the queue that has all of them.
LEMMA Longer ==
  ASSUME NEW S, NEW s \in Seq(S), NEW e \in S, NEW t \in Seq(S),
         Len(t) = Len(s) + 1, \A i \in 1 .. Len(s) : t[i] = s[i], t[Len(s) + 1] = e
  PROVE  Append(s, e) = t
<1>1. /\ Append(s, e) \in Seq(S) /\ Len(Append(s, e)) = Len(s) + 1 /\ Len(s) \in Nat
      /\ \A i \in 1 .. Len(s) : Append(s, e)[i] = s[i]
      /\ Append(s, e)[Len(s) + 1] = e
  BY AppendProperties, LenProperties
<1>2. \A i \in 1 .. Len(s) + 1 : Append(s, e)[i] = t[i]
  BY <1>1
<1>3. QED
  BY <1>1, <1>2, SeqEqual

LEMMA Appends ==
  ASSUME NEW a, NEW b, NEW c
  PROVE  /\ Append(<<>>, a) = <<a>> /\ Append(<<a>>, b) = <<a, b>>
         /\ Append(<<a, b>>, c) = <<a, b, c>>
<1> DEFINE S == {a, b, c}
<1>1. Append(<<>>, a) = <<a>>
  OBVIOUS
<1>2. Append(<<a>>, b) = <<a, b>>
  <2> DEFINE s == <<a>>
             t == <<a, b>>
  <2>1. /\ s \in Seq(S) /\ t \in Seq(S) /\ Len(s) = 1 /\ Len(t) = 2 /\ b \in S
        /\ s[1] = a /\ t[1] = a /\ t[2] = b
    OBVIOUS
  <2> HIDE DEF S, s, t
  <2>2. /\ Len(t) = Len(s) + 1 /\ t[Len(s) + 1] = b
        /\ \A i \in 1 .. Len(s) : t[i] = s[i]
    <3>1. \A i \in 1 .. 1 : i = 1
      OBVIOUS
    <3>2. QED
      BY <2>1, <3>1
  <2>3. Append(s, b) = t
    BY <2>1, <2>2, Longer
  <2>4. QED
    BY <2>3 DEF s, t
<1>3. Append(<<a, b>>, c) = <<a, b, c>>
  <2> DEFINE s == <<a, b>>
             t == <<a, b, c>>
  <2>1. /\ s \in Seq(S) /\ t \in Seq(S) /\ Len(s) = 2 /\ Len(t) = 3 /\ c \in S
        /\ s[1] = a /\ s[2] = b /\ t[1] = a /\ t[2] = b /\ t[3] = c
    OBVIOUS
  <2> HIDE DEF S, s, t
  <2>2. /\ Len(t) = Len(s) + 1 /\ t[Len(s) + 1] = c
        /\ \A i \in 1 .. Len(s) : t[i] = s[i]
    <3>1. \A i \in 1 .. 2 : i = 1 \/ i = 2
      OBVIOUS
    <3>2. QED
      BY <2>1, <3>1
  <2>3. Append(s, c) = t
    BY <2>1, <2>2, Longer
  <2>4. QED
    BY <2>3 DEF s, t
<1>4. QED
  BY <1>1, <1>2, <1>3

LEMMA AppendsFourth ==
  ASSUME NEW a, NEW b, NEW c, NEW d
  PROVE  Append(<<a, b, c>>, d) = <<a, b, c, d>>
<1> DEFINE S == {a, b, c, d}
<1> DEFINE s == <<a, b, c>>
           t == <<a, b, c, d>>
<1>1. /\ s \in Seq(S) /\ t \in Seq(S) /\ Len(s) = 3 /\ Len(t) = 4 /\ d \in S
      /\ s[1] = a /\ s[2] = b /\ s[3] = c /\ t[1] = a /\ t[2] = b /\ t[3] = c /\ t[4] = d
  OBVIOUS
<1> HIDE DEF S, s, t
<1>2. /\ Len(t) = Len(s) + 1 /\ t[Len(s) + 1] = d
      /\ \A i \in 1 .. Len(s) : t[i] = s[i]
  <2>1. \A i \in 1 .. 3 : i = 1 \/ i = 2 \/ i = 3
    OBVIOUS
  <2>2. QED
    BY <1>1, <2>1
<1>3. Append(s, d) = t
  BY <1>1, <1>2, Longer
<1>4. QED
  BY <1>3 DEF s, t

LEMMA Fronts ==
  ASSUME NEW a, NEW b, NEW c, NEW d
  PROVE  /\ Head(<<a>>) = a /\ Head(<<a, b>>) = a /\ Head(<<a, b, c>>) = a
         /\ Head(<<a, b, c, d>>) = a
         /\ Tail(<<a>>) = <<>> /\ Tail(<<a, b>>) = <<b>> /\ Tail(<<a, b, c>>) = <<b, c>>
         /\ Tail(<<a, b, c, d>>) = <<b, c, d>>
<1>1. /\ Head(<<a>>) = a /\ Head(<<a, b>>) = a /\ Head(<<a, b, c>>) = a
      /\ Head(<<a, b, c, d>>) = a
  OBVIOUS
<1>2. Tail(<<a>>) = <<>> /\ Tail(<<a, b>>) = <<b>> /\ Tail(<<a, b, c>>) = <<b, c>>
  OBVIOUS
<1>3. Tail(<<a, b, c, d>>) = <<b, c, d>>
  OBVIOUS
<1>4. QED
  BY <1>1, <1>2, <1>3

LEMMA Joins ==
  ASSUME NEW a, NEW b
  PROVE  <<>> \o <<a>> = <<a>> /\ <<a>> \o <<b>> = <<a, b>> /\ <<>> \o <<a, b>> = <<a, b>>
<1>1. <<>> \o <<a>> = <<a>> /\ <<>> \o <<a, b>> = <<a, b>>
  OBVIOUS
<1>2. <<a>> \o <<b>> = <<a, b>>
  <2>1. Append(<<a>>, b) = <<a>> \o <<b>>
    <3>1. <<a>> \in Seq({a, b}) /\ b \in {a, b}
      OBVIOUS
    <3>2. QED
      BY <3>1, AppendIsConcat
  <2>2. QED
    BY <2>1, Appends
<1>3. QED
  BY <1>1, <1>2

----------------------------------------------------------------------------
(***************************************************************************)
(* The inductive invariant: the four stages of a request, with everything  *)
(* that can be on its way in each.  A break is sent in the last three, and *)
(* the one byte that the stub waits for after an answer is what keeps it   *)
(* from being taken for a request.                                         *)
(***************************************************************************)

\* The debugger has its answer, whose acknowledgement may be on its way.
Idle ==
  /\ asked = None /\ ~broke /\ toClient = <<>>
  /\ \/ phase = "receive" /\ toStub \in {<<>>, <<Plus>>}
     \/ phase \in {"ack", "bye"} /\ toStub \in {<<Plus>>, <<Break, Plus>>}

\* Its request is on its way.
Asking ==
  /\ asked \in Requests /\ toClient = <<>>
  /\ \/ phase = "receive" /\ ~broke /\ toStub \in {<<asked>>, <<Plus, asked>>}
     \/ phase = "receive" /\ broke /\ toStub \in {<<asked, Break>>, <<Plus, asked, Break>>}
     \/ phase \in {"ack", "bye"} /\ ~broke /\ toStub \in {<<Plus, asked>>, <<Break, Plus, asked>>}
     \/ /\ phase \in {"ack", "bye"} /\ broke
        /\ toStub \in {<<Plus, asked, Break>>, <<Break, Plus, asked, Break>>}

\* The target is running.
Running ==
  /\ phase \in {"past", "continue"} /\ asked \in Requests /\ asked.op = "c"
  /\ toClient \in {<<>>, <<Plus>>}
  /\ (toStub = <<>> /\ ~broke) \/ (toStub = <<Break>> /\ broke)

\* What a stop reply claims.
Truthful(to, stop) ==
  /\ to = "c" /\ stop = "S05" => AtBreakpoint(m) \/ Sleeps(m)
  /\ stop = "S02" => broke

\* The answer is on its way; a break that crossed it may have been taken for its
\* acknowledgement.
Answering ==
  /\ asked \in Requests
  /\ \E stop \in {"none", "S02", "S05"} :
       /\ toClient \in {<<Reply(asked.op, stop)>>, <<Plus, Reply(asked.op, stop)>>}
       /\ Truthful(asked.op, stop)
  /\ \/ phase \in {"ack", "bye"} /\ toStub = <<>>
     \/ phase \in {"ack", "bye"} /\ toStub = <<Break>> /\ broke
     \/ phase = "receive" /\ toStub = <<>> /\ broke
  /\ phase = "bye" => asked.op = "D"

Talking == open /\ phase # "ended"

GInv ==
  /\ open \in BOOLEAN /\ broke \in BOOLEAN
  /\ Talking => (Idle \/ Asking \/ Running \/ Answering) /\ (broke => Resumes(asked))
  /\ ~Talking => toClient \in {<<>>, <<Plus>>}

\* Requests, acknowledgements, breaks and answers are told apart by their names.
LEMMA Names ==
  /\ \A r \in Requests : r.op \in {"data", "k", "D", "s", "c", "Z0", "z0"}
  /\ Plus.op = "+" /\ Break.op = "break" /\ None.op = "none"
  /\ \A to, stop : Reply(to, stop).op = "reply" /\ Reply(to, stop).to = to
                   /\ Reply(to, stop).stop = stop
<1>1. \A r \in Requests : r.op \in {"data", "k", "D", "s", "c", "Z0", "z0"}
  BY SessionAssumption DEF IsRequest
<1>2. Plus.op = "+" /\ Break.op = "break" /\ None.op = "none"
  BY DEF Plus, Break, None
<1>3. \A to, stop : Reply(to, stop).op = "reply" /\ Reply(to, stop).to = to
                    /\ Reply(to, stop).stop = stop
  BY DEF Reply
<1>4. QED
  BY <1>1, <1>2, <1>3

\* What the stub reads next, in every stage.
LEMMA Reads ==
  ASSUME GInv, Talking, toStub # <<>>
  PROVE  /\ Idle /\ phase = "receive" => Head(toStub) = Plus /\ Tail(toStub) = <<>>
         /\ Idle /\ phase # "receive" => Tail(toStub) \in {<<>>, <<Plus>>}
         /\ Asking /\ phase = "receive" /\ ~broke =>
              \/ Head(toStub) = asked /\ Tail(toStub) = <<>>
              \/ Head(toStub) = Plus /\ Tail(toStub) = <<asked>>
         /\ Asking /\ phase = "receive" /\ broke =>
              \/ Head(toStub) = asked /\ Tail(toStub) = <<Break>>
              \/ Head(toStub) = Plus /\ Tail(toStub) = <<asked, Break>>
         /\ Asking /\ phase # "receive" /\ ~broke => Tail(toStub) \in {<<asked>>, <<Plus, asked>>}
         /\ Asking /\ phase # "receive" /\ broke =>
              Tail(toStub) \in {<<asked, Break>>, <<Plus, asked, Break>>}
         /\ Running \/ Answering => /\ toStub = <<Break>> /\ broke
                                    /\ Head(toStub) = Break /\ Tail(toStub) = <<>>
                                    /\ phase # "receive"
<1>0. /\ Head(<<Plus>>) = Plus /\ Tail(<<Plus>>) = <<>>
      /\ Head(<<Break>>) = Break /\ Tail(<<Break>>) = <<>>
      /\ Head(<<asked>>) = asked /\ Tail(<<asked>>) = <<>>
      /\ Tail(<<Break, Plus>>) = <<Plus>>
      /\ Head(<<Plus, asked>>) = Plus /\ Tail(<<Plus, asked>>) = <<asked>>
      /\ Head(<<asked, Break>>) = asked /\ Tail(<<asked, Break>>) = <<Break>>
      /\ Head(<<Plus, asked, Break>>) = Plus /\ Tail(<<Plus, asked, Break>>) = <<asked, Break>>
      /\ Tail(<<Break, Plus, asked>>) = <<Plus, asked>>
      /\ Tail(<<Break, Plus, asked, Break>>) = <<Plus, asked, Break>>
  BY Fronts
<1>1. Idle => /\ phase = "receive" => Head(toStub) = Plus /\ Tail(toStub) = <<>>
              /\ phase # "receive" => Tail(toStub) \in {<<>>, <<Plus>>}
  BY <1>0, Zenon DEF Idle
<1>2. Asking /\ phase = "receive" /\ ~broke =>
        \/ Head(toStub) = asked /\ Tail(toStub) = <<>>
        \/ Head(toStub) = Plus /\ Tail(toStub) = <<asked>>
  BY <1>0, Zenon DEF Asking
<1>3. Asking /\ phase = "receive" /\ broke =>
        \/ Head(toStub) = asked /\ Tail(toStub) = <<Break>>
        \/ Head(toStub) = Plus /\ Tail(toStub) = <<asked, Break>>
  BY <1>0, Zenon DEF Asking
<1>4. Asking /\ phase # "receive" /\ ~broke => Tail(toStub) \in {<<asked>>, <<Plus, asked>>}
  BY <1>0, Zenon DEF Asking
<1>5. Asking /\ phase # "receive" /\ broke =>
        Tail(toStub) \in {<<asked, Break>>, <<Plus, asked, Break>>}
  BY <1>0, Zenon DEF Asking
<1>6. Running \/ Answering => /\ toStub = <<Break>> /\ broke
                              /\ Head(toStub) = Break /\ Tail(toStub) = <<>>
                              /\ phase # "receive"
  BY <1>0, Zenon DEF Running, Answering
<1>7. QED
  BY <1>1, <1>2, <1>3, <1>4, <1>5, <1>6

\* A request that is received is the debugger's, and only a break may follow it.
LEMMA Received ==
  ASSUME GInv, Talking, NEW op \in {"data", "k", "D", "s", "c", "Z0", "z0"}, Receives(op)
  PROVE  /\ Asking /\ asked.op = op /\ toClient = <<>> /\ Head(toStub) = asked
         /\ (toStub' = <<>> /\ ~broke) \/ (toStub' = <<Break>> /\ broke /\ Resumes(asked))
<1>1. phase = "receive" /\ toStub # <<>> /\ Head(toStub).op = op /\ toStub' = Tail(toStub)
  BY DEF Receives
<1>2. Head(toStub) # Plus /\ Head(toStub) # Break
  BY <1>1, Names
<1>3. Asking
  <2>1. Idle \/ Asking \/ Running \/ Answering
    BY DEF GInv
  <2>2. QED
    BY <1>1, <1>2, <2>1, Reads
<1>4. Head(toStub) = asked /\ Tail(toStub) = IF broke THEN <<Break>> ELSE <<>>
  BY <1>1, <1>2, <1>3, Reads
<1>5. QED
  BY <1>1, <1>3, <1>4 DEF GInv, Asking

\* Nothing is said to a debugger that has left.
LEMMA Silent ==
  ASSUME GInv, ~open, NEW messages, Say(messages), open' = open, broke' = broke
  PROVE  GInv'
BY DEF GInv, Talking, Say

\* An answer to the request that was received.
LEMMA AnswerKeeps ==
  ASSUME GInv, NEW op \in {"data", "D", "s", "Z0", "z0"}, Receives(op),
         NEW stop \in {"none", "S05"}, Say(<<Plus, Reply(op, stop)>>),
         AwaitAck(op = "D"), UNCHANGED client
  PROVE  GInv'
<1>1. open' = open /\ broke' = broke /\ asked' = asked
  BY DEF client
<1>2. CASE ~open
  BY <1>1, <1>2, Silent
<1>3. CASE open
  <2>1. Talking /\ phase' = IF op = "D" THEN "bye" ELSE "ack"
    BY <1>3 DEF Talking, Receives, AwaitAck
  <2>2. /\ asked \in Requests /\ asked.op = op
        /\ (toStub' = <<>> /\ ~broke) \/ (toStub' = <<Break>> /\ broke /\ Resumes(asked))
        /\ toClient = <<>>
    BY <2>1, Received DEF Asking
  <2>3. toClient' = <<Plus, Reply(op, stop)>>
    BY <1>3, <2>2, Joins DEF Say
  <2>4. Truthful(op, stop)'
    BY DEF Truthful
  <2>5. Answering'
    BY <1>1, <2>1, <2>2, <2>3, <2>4 DEF Answering
  <2>6. QED
    BY <1>1, <1>3, <2>1, <2>2, <2>5 DEF GInv, Talking, Resumes
<1>4. QED
  BY <1>2, <1>3 DEF GInv

----------------------------------------------------------------------------
(* The stub's steps *)

LEMMA Skips ==
  ASSUME GInv, Skip
  PROVE  GInv'
<1>1. /\ Receives("+") /\ phase' = phase /\ toClient' = toClient /\ asked' = asked
      /\ broke' = broke /\ open' = open
  BY DEF Skip, stub, client
<1>2. CASE ~Talking
  BY <1>1, <1>2 DEF GInv, Talking
<1>3. CASE Talking
  <2>1. phase = "receive" /\ toStub # <<>> /\ Head(toStub).op = "+" /\ toStub' = Tail(toStub)
    BY <1>1 DEF Receives
  <2>2. CASE Idle
    <3>1. toStub' = <<>>
      BY <1>3, <2>1, <2>2, Reads
    <3>2. Idle'
      BY <1>1, <2>1, <2>2, <3>1 DEF Idle
    <3>3. QED
      BY <1>1, <1>3, <3>2 DEF GInv, Talking, Resumes
  <2>3. CASE Asking
    <3>1. Head(toStub) # asked
      BY <2>1, <2>3, Names DEF Asking
    <3>2. toStub' = IF broke THEN <<asked, Break>> ELSE <<asked>>
      BY <1>3, <2>1, <2>3, <3>1, Reads
    <3>3. Asking'
      BY <1>1, <2>1, <2>3, <3>2 DEF Asking
    <3>4. QED
      BY <1>1, <1>3, <3>3 DEF GInv, Talking, Resumes
  <2>4. CASE Running \/ Answering
    BY <1>3, <2>1, <2>4, Reads
  <2>5. QED
    BY <1>3, <2>2, <2>3, <2>4 DEF GInv
<1>4. QED
  BY <1>2, <1>3

\* A break never waits where a request is expected.
LEMMA BreakIsNoRequest ==
  ASSUME GInv, Talking
  PROVE  ~Receives("break")
<1> SUFFICES ASSUME Receives("break")
             PROVE  FALSE
  OBVIOUS
<1>1. phase = "receive" /\ toStub # <<>> /\ Head(toStub).op = "break"
  BY DEF Receives
<1>2. CASE Idle
  BY <1>1, <1>2, Reads, Names
<1>3. CASE Asking
  <2>1. Head(toStub) = asked \/ Head(toStub) = Plus
    BY <1>1, <1>3, Reads
  <2>2. QED
    BY <1>1, <1>3, <2>1, Names DEF Asking
<1>4. CASE Running \/ Answering
  BY <1>1, <1>4, Reads
<1>5. QED
  BY <1>2, <1>3, <1>4 DEF GInv

LEMMA Interrupts ==
  ASSUME GInv, Interrupted
  PROVE  GInv'
<1>1. /\ Receives("break") /\ Say(<<Reply("break", "S05")>>)
      /\ open' = open /\ broke' = broke
  BY DEF Interrupted, client
<1>2. CASE ~open
  BY <1>1, <1>2, Silent
<1>3. CASE open
  BY <1>1, <1>3, BreakIsNoRequest DEF Receives, Talking
<1>4. QED
  BY <1>2, <1>3 DEF GInv

LEMMA Continues ==
  ASSUME GInv, Continue
  PROVE  GInv'
<1>1. /\ Receives("c") /\ phase' \in {"past", "continue"} /\ Say(<<Plus>>)
      /\ asked' = asked /\ broke' = broke /\ open' = open
  BY DEF Continue, client
<1>2. CASE ~open
  BY <1>1, <1>2, Silent
<1>3. CASE open
  <2>1. Talking
    BY <1>1, <1>3 DEF Talking, Receives
  <2>2. /\ asked \in Requests /\ asked.op = "c" /\ toClient = <<>>
        /\ (toStub' = <<>> /\ ~broke) \/ (toStub' = <<Break>> /\ broke)
    BY <1>1, <2>1, Received DEF Asking
  <2>3. toClient' = <<Plus>>
    BY <1>1, <1>3, <2>2, Joins DEF Say
  <2>4. Running'
    BY <1>1, <2>2, <2>3 DEF Running
  <2>5. QED
    BY <1>1, <2>1, <2>2, <2>4 DEF GInv, Talking, Resumes
<1>4. QED
  BY <1>2, <1>3 DEF GInv

LEMMA Kills ==
  ASSUME GInv, Kill
  PROVE  GInv'
<1>1. /\ Receives("k") /\ phase' = "ended" /\ Say(<<Plus>>)
      /\ broke' = broke /\ open' = open
  BY DEF Kill, client
<1>2. CASE ~open
  BY <1>1, <1>2, Silent
<1>3. CASE open
  <2>1. Talking
    BY <1>1, <1>3 DEF Talking, Receives
  <2>2. toClient = <<>>
    BY <1>1, <2>1, Received
  <2>3. toClient' = <<Plus>>
    BY <1>1, <1>3, <2>2, Joins DEF Say
  <2>4. QED
    BY <1>1, <2>3 DEF GInv, Talking
<1>4. QED
  BY <1>2, <1>3 DEF GInv

LEMMA AnswersRequest ==
  ASSUME GInv, Answer \/ SetBreakpoint \/ StepOne \/ Detach
  PROVE  GInv'
<1>1. CASE Answer
  BY <1>1, AnswerKeeps DEF Answer
<1>2. CASE SetBreakpoint
  <2>1. PICK op \in {"Z0", "z0"} : Receives(op) /\ Say(<<Plus, Reply(op, "none")>>)
    BY <1>2 DEF SetBreakpoint
  <2>2. AwaitAck(op = "D") /\ UNCHANGED client
    BY <1>2 DEF SetBreakpoint, AwaitAck
  <2>3. QED
    BY <2>1, <2>2, AnswerKeeps
<1>3. CASE StepOne
  <2>1. /\ Receives("s") /\ Say(<<Plus, Reply("s", "S05")>>) /\ AwaitAck("s" = "D")
        /\ UNCHANGED client
    BY <1>3 DEF StepOne, AwaitAck
  <2>2. QED
    BY <2>1, AnswerKeeps
<1>4. CASE Detach
  <2>1. /\ Receives("D") /\ Say(<<Plus, Reply("D", "none")>>) /\ AwaitAck("D" = "D")
        /\ UNCHANGED client
    BY <1>4 DEF Detach, AwaitAck
  <2>2. QED
    BY <2>1, AnswerKeeps
<1>5. QED
  BY <1>1, <1>2, <1>3, <1>4

\* The byte that is taken for the acknowledgement is the acknowledgement, or a
\* break that crossed the stop reply.
LEMMA Acknowledges ==
  ASSUME GInv, Acknowledged
  PROVE  GInv'
<1>1. /\ phase \in {"ack", "bye"} /\ toClient' = toClient /\ asked' = asked /\ m' = m
      /\ cfg' = cfg /\ breakpoints' = breakpoints /\ broke' = broke /\ open' = open
      /\ phase' = IF phase = "ack" THEN "receive" ELSE "ended"
  BY DEF Acknowledged, client
<1>2. CASE ~open
  BY <1>1, <1>2 DEF GInv, Talking
<1>3. CASE open
  <2>1. Talking /\ toStub # <<>> /\ toStub' = Tail(toStub)
    BY <1>1, <1>3 DEF Acknowledged, Talking
  <2>2. CASE Idle
    <3>1. toStub' \in {<<>>, <<Plus>>}
      BY <1>1, <2>1, <2>2, Reads
    <3>2. phase = "ack" => Idle'
      BY <1>1, <2>2, <3>1 DEF Idle
    <3>3. QED
      BY <1>1, <2>1, <2>2, <3>2 DEF GInv, Talking, Resumes, Idle
  <2>3. CASE Asking
    <3>1. toStub' \in IF broke THEN {<<asked, Break>>, <<Plus, asked, Break>>}
                      ELSE {<<asked>>, <<Plus, asked>>}
      BY <1>1, <2>1, <2>3, Reads
    <3>2. phase = "ack" => Asking'
      BY <1>1, <2>3, <3>1 DEF Asking
    <3>3. QED
      BY <1>1, <2>1, <2>3, <3>2 DEF GInv, Talking, Resumes, Asking
  <2>4. CASE Running
    BY <1>1, <2>4 DEF Running
  <2>5. CASE Answering
    <3>1. broke /\ toStub' = <<>>
      BY <2>1, <2>5, Reads
    <3>2. Resumes(asked)
      BY <2>1, <3>1 DEF GInv
    <3>3. phase = "ack"
      BY <1>1, <2>5, <3>2 DEF Answering, Resumes
    <3>4. \A to, stop : Truthful(to, stop) => Truthful(to, stop)'
      BY <1>1 DEF Truthful, AtBreakpoint, Sleeps
    <3>5. Answering'
      BY <1>1, <2>5, <3>1, <3>3, <3>4 DEF Answering
    <3>6. QED
      BY <1>1, <2>1, <3>2, <3>3, <3>5 DEF GInv, Talking, Resumes
  <2>6. QED
    BY <2>1, <2>2, <2>3, <2>4, <2>5 DEF GInv
<1>4. QED
  BY <1>2, <1>3 DEF GInv

LEMMA Disconnects ==
  ASSUME GInv, Disconnected
  PROVE  GInv'
BY DEF GInv, Disconnected, Talking, client

\* Whoever executes instructions has a debugger that waits, or none at all.
LEMMA WhoRuns ==
  ASSUME GInv, Talking, phase \in {"past", "continue"}
  PROVE  Running
BY DEF GInv, Idle, Asking, Answering

LEMMA StepsPast ==
  ASSUME GInv, StepPast
  PROVE  GInv'
<1>1. /\ phase = "past" /\ phase' = "continue" /\ toStub' = toStub /\ toClient' = toClient
      /\ asked' = asked /\ broke' = broke /\ open' = open
  BY DEF StepPast, client
<1>2. CASE ~Talking
  BY <1>1, <1>2 DEF GInv, Talking
<1>3. CASE Talking
  <2>1. Running
    BY <1>1, <1>3, WhoRuns
  <2>2. Running'
    BY <1>1, <2>1 DEF Running
  <2>3. QED
    BY <1>1, <1>3, <2>2 DEF GInv, Talking, Resumes
<1>4. QED
  BY <1>2, <1>3

\* A continue goes on with the debugger's break still on its way, or tells the
\* truth about the break it has just taken or the place it has reached.
LEMMA Runs ==
  ASSUME GInv, Run
  PROVE  GInv'
<1>1. PICK why \in {StopReason(m')} :
        /\ toStub' = IF why = "S05" THEN toStub ELSE Polled
        /\ IF why = "none" THEN UNCHANGED <<phase, toClient>>
           ELSE Say(<<Reply("c", why)>>) /\ AwaitAck(FALSE)
  BY DEF Run
<1>2. /\ phase = "continue" /\ breakpoints' = breakpoints /\ cfg' = cfg
      /\ asked' = asked /\ broke' = broke /\ open' = open
  BY DEF Run, client
<1>3. CASE ~open
  <2>1. toClient' = toClient
    BY <1>1, <1>3 DEF Say
  <2>2. QED
    BY <1>2, <1>3, <2>1 DEF GInv, Talking
<1>4. CASE open
  <2>1. Talking
    BY <1>2, <1>4 DEF Talking
  <2>2. Running
    BY <1>2, <2>1, WhoRuns
  <2>3. toStub # <<>> => Head(toStub) = Break /\ Tail(toStub) = <<>>
    BY <2>1, <2>2, Reads
  <2>4. CASE why = "none"
    <3>1. ~BreakPolled
      BY <2>4 DEF StopReason
    <3>2. toStub' = toStub
      BY <1>1, <2>3, <2>4, <3>1 DEF Polled, BreakPolled
    <3>3. Running'
      BY <1>1, <1>2, <2>2, <2>4, <3>2 DEF Running
    <3>4. QED
      BY <1>1, <1>2, <2>1, <2>4, <3>3 DEF GInv, Talking, Resumes
  <2>5. CASE why # "none"
    <3>1. phase' = "ack"
      BY <1>1, <1>4, <2>5 DEF AwaitAck
    <3>2. why \in {"S05", "S02"}
      BY <2>5 DEF StopReason
    <3>3. toClient' \in {<<Reply("c", why)>>, <<Plus, Reply("c", why)>>}
      <4>1. toClient' = toClient \o <<Reply("c", why)>>
        BY <1>1, <1>4, <2>5 DEF Say
      <4>2. QED
        BY <2>2, <4>1, Joins DEF Running
    <3>4. Truthful("c", why)' /\ ((toStub' = <<>>) \/ (toStub' = <<Break>> /\ broke))
      <4>1. CASE why = "S05"
        <5>1. AtBreakpoint(m') \/ Sleeps(m')
          BY <4>1 DEF StopReason
        <5>2. Truthful("c", why)'
          BY <1>2, <4>1, <5>1 DEF Truthful, AtBreakpoint, Sleeps
        <5>3. QED
          BY <1>1, <2>2, <4>1, <5>2 DEF Running
      <4>2. CASE why = "S02"
        <5>1. BreakPolled
          BY <4>2 DEF StopReason
        <5>2. toStub' = <<>>
          BY <1>1, <2>3, <4>2, <5>1 DEF Polled, BreakPolled
        <5>3. broke
          BY <2>2, <5>1 DEF BreakPolled, Running
        <5>4. QED
          BY <1>2, <4>2, <5>2, <5>3 DEF Truthful
      <4>3. QED
        BY <3>2, <4>1, <4>2
    <3>5. asked \in Requests /\ asked.op = "c"
      BY <2>2 DEF Running
    <3>6. Answering'
      BY <1>2, <3>1, <3>2, <3>3, <3>4, <3>5 DEF Answering
    <3>7. QED
      BY <1>2, <2>1, <3>1, <3>6 DEF GInv, Talking, Resumes
  <2>6. QED
    BY <2>4, <2>5
<1>5. QED
  BY <1>3, <1>4 DEF GInv

----------------------------------------------------------------------------
(* The debugger's steps *)

LEMMA Asks ==
  ASSUME GInv, NEW r \in Requests, Ask(r)
  PROVE  GInv'
<1>1. /\ open /\ asked = None /\ asked' = r /\ broke' = FALSE /\ open' = open
      /\ toStub' = Append(toStub, r) /\ toClient' = toClient /\ phase' = phase
  BY DEF Ask, stub
<1>2. CASE ~Talking
  BY <1>1, <1>2 DEF GInv, Talking
<1>3. CASE Talking
  <2>1. None \notin Requests
    BY Names
  <2>2. Idle
    BY <1>1, <1>3, <2>1, Names DEF GInv, Asking, Running, Answering
  <2>3. \/ toStub = <<>> /\ toStub' = <<r>>
        \/ toStub = <<Plus>> /\ toStub' = <<Plus, r>>
        \/ toStub = <<Break, Plus>> /\ toStub' = <<Break, Plus, r>>
    <3>1. /\ Append(<<>>, r) = <<r>> /\ Append(<<Plus>>, r) = <<Plus, r>>
          /\ Append(<<Break, Plus>>, r) = <<Break, Plus, r>>
      BY Appends
    <3>2. QED
      BY <1>1, <2>2, <3>1, Zenon DEF Idle
  <2>4. <<Plus>> # <<>> /\ <<Break, Plus>> # <<>> /\ <<Break, Plus>> # <<Plus>>
    <3>1. Len(<<Plus>>) = 1 /\ Len(<<Break, Plus>>) = 2 /\ Len(<<>>) = 0
      OBVIOUS
    <3>2. QED
      BY <3>1
  <2>5. \/ phase = "receive" /\ toStub' \in {<<r>>, <<Plus, r>>}
        \/ phase \in {"ack", "bye"} /\ toStub' \in {<<Plus, r>>, <<Break, Plus, r>>}
    BY <2>2, <2>3, <2>4 DEF Idle
  <2>6. Asking'
    BY <1>1, <2>2, <2>5 DEF Asking, Idle
  <2>7. QED
    BY <1>1, <1>3, <2>6 DEF GInv, Talking
<1>4. QED
  BY <1>2, <1>3

LEMMA Hears ==
  ASSUME GInv, Hear
  PROVE  GInv'
<1>1. /\ open /\ toClient # <<>> /\ toClient' = Tail(toClient) /\ open' = open
      /\ phase' = phase /\ cfg' = cfg /\ m' = m /\ breakpoints' = breakpoints
  BY DEF Hear, stub
<1>2. Head(toClient) = Plus => toStub' = toStub /\ asked' = asked /\ broke' = broke
  BY DEF Hear
<1>3. Head(toClient) # Plus =>
        toStub' = Append(toStub, Plus) /\ asked' = None /\ broke' = FALSE
  BY DEF Hear
<1>4. CASE toClient = <<Plus>>
  <2>1. toClient' = <<>> /\ toStub' = toStub /\ asked' = asked /\ broke' = broke
    BY <1>1, <1>2, <1>4, Fronts
  <2>2. CASE ~Talking
    BY <1>1, <2>1, <2>2 DEF GInv, Talking
  <2>3. CASE Talking
    <3>1. Running
      <4>1. ~Idle /\ ~Asking
        BY <1>1 DEF Idle, Asking
      <4>2. ~Answering
        <5> SUFFICES ASSUME Answering
                     PROVE  FALSE
          OBVIOUS
        <5>1. PICK stop \in {"none", "S02", "S05"} :
                toClient \in {<<Reply(asked.op, stop)>>, <<Plus, Reply(asked.op, stop)>>}
          BY DEF Answering
        <5>2. Reply(asked.op, stop) # Plus
          BY Names
        <5>3. Len(<<Plus>>) = 1 /\ Len(<<Plus, Reply(asked.op, stop)>>) = 2
          OBVIOUS
        <5>4. <<Reply(asked.op, stop)>> # <<Plus>>
          BY <5>2, Fronts
        <5>5. QED
          BY <1>4, <5>1, <5>3, <5>4
      <4>3. QED
        BY <2>3, <4>1, <4>2 DEF GInv
    <3>2. Running'
      BY <1>1, <2>1, <3>1 DEF Running
    <3>3. QED
      BY <1>1, <2>1, <2>3, <3>2 DEF GInv, Talking, Resumes
  <2>4. QED
    BY <2>2, <2>3
<1>5. CASE toClient # <<Plus>>
  <2>1. Talking
    BY <1>1, <1>5 DEF GInv
  <2>2. Answering
    BY <1>1, <1>5, <2>1 DEF GInv, Idle, Asking, Running
  <2>3. PICK stop \in {"none", "S02", "S05"} :
          /\ toClient \in {<<Reply(asked.op, stop)>>, <<Plus, Reply(asked.op, stop)>>}
          /\ Truthful(asked.op, stop)
    BY <2>2 DEF Answering
  <2>4. CASE toClient = <<Plus, Reply(asked.op, stop)>>
    <3>1. /\ toClient' = <<Reply(asked.op, stop)>> /\ toStub' = toStub /\ asked' = asked
          /\ broke' = broke
      BY <1>1, <1>2, <2>4, Fronts
    <3>2. Truthful(asked.op, stop)'
      BY <1>1, <2>3, <3>1 DEF Truthful, AtBreakpoint, Sleeps
    <3>3. Reply(asked.op, stop)' = Reply(asked.op, stop)
      BY <3>1
    <3>4. Answering'
      BY <1>1, <2>2, <3>1, <3>2, <3>3 DEF Answering
    <3>5. QED
      BY <1>1, <2>1, <3>1, <3>4 DEF GInv, Talking, Resumes
  <2>5. CASE toClient = <<Reply(asked.op, stop)>>
    <3>1. Head(toClient) # Plus
      BY <2>5, Fronts, Names
    <3>2. toClient' = <<>> /\ toStub' = Append(toStub, Plus) /\ asked' = None /\ broke' = FALSE
      BY <1>1, <1>3, <2>5, <3>1, Fronts
    <3>3. \/ phase \in {"ack", "bye"} /\ toStub' \in {<<Plus>>, <<Break, Plus>>}
          \/ phase = "receive" /\ toStub' = <<Plus>>
      BY <2>2, <3>2, Appends DEF Answering
    <3>4. Idle'
      BY <1>1, <3>2, <3>3 DEF Idle
    <3>5. QED
      BY <1>1, <2>1, <3>2, <3>4 DEF GInv, Talking
  <2>6. QED
    BY <2>3, <2>4, <2>5
<1>6. QED
  BY <1>4, <1>5

LEMMA BreaksIn ==
  ASSUME GInv, BreakIn
  PROVE  GInv'
<1>1. /\ open /\ Resumes(asked) /\ ~broke /\ broke' = TRUE /\ toStub' = Append(toStub, Break)
      /\ phase' = phase /\ toClient' = toClient /\ asked' = asked /\ open' = open
      /\ cfg' = cfg /\ m' = m /\ breakpoints' = breakpoints
  BY DEF BreakIn, stub
<1>2. Resumes(asked)'
  BY <1>1 DEF Resumes
<1>3. CASE ~Talking
  BY <1>1, <1>3 DEF GInv, Talking
<1>4. CASE Talking
  <2>1. ~Idle
    BY <1>1, Names DEF Idle, Resumes
  <2>2. CASE Asking
    <3>1. /\ Append(<<asked>>, Break) = <<asked, Break>>
          /\ Append(<<Plus, asked>>, Break) = <<Plus, asked, Break>>
          /\ Append(<<Break, Plus, asked>>, Break) = <<Break, Plus, asked, Break>>
      <4>1. Append(<<asked>>, Break) = <<asked, Break>>
        BY Appends
      <4>2. Append(<<Plus, asked>>, Break) = <<Plus, asked, Break>>
        BY Appends
      <4>3. Append(<<Break, Plus, asked>>, Break) = <<Break, Plus, asked, Break>>
        BY AppendsFourth
      <4>4. QED
        BY <4>1, <4>2, <4>3
    <3>2. \/ phase = "receive" /\ toStub' \in {<<asked, Break>>, <<Plus, asked, Break>>}
          \/ /\ phase \in {"ack", "bye"}
             /\ toStub' \in {<<Plus, asked, Break>>, <<Break, Plus, asked, Break>>}
      BY <1>1, <2>2, <3>1, Zenon DEF Asking
    <3>3. Asking'
      BY <1>1, <2>2, <3>2 DEF Asking
    <3>4. QED
      BY <1>1, <1>2, <1>4, <3>3 DEF GInv, Talking
  <2>3. CASE Running
    <3>1. toStub' = <<Break>>
      BY <1>1, <2>3, Appends DEF Running
    <3>2. Running'
      BY <1>1, <2>3, <3>1 DEF Running
    <3>3. QED
      BY <1>1, <1>2, <1>4, <3>2 DEF GInv, Talking
  <2>4. CASE Answering
    <3>1. phase \in {"ack", "bye"} /\ toStub' = <<Break>>
      BY <1>1, <2>4, Appends DEF Answering
    <3>2. \A stop : Truthful(asked.op, stop) => Truthful(asked.op, stop)'
      BY <1>1 DEF Truthful, AtBreakpoint, Sleeps
    <3>3. \A stop : Reply(asked.op, stop)' = Reply(asked.op, stop)
      BY <1>1 DEF Reply
    <3>4. Answering'
      BY <1>1, <2>4, <3>1, <3>2, <3>3 DEF Answering
    <3>5. QED
      BY <1>1, <1>2, <1>4, <3>4 DEF GInv, Talking
  <2>5. QED
    BY <1>4, <2>1, <2>2, <2>3, <2>4 DEF GInv
<1>5. QED
  BY <1>3, <1>4

----------------------------------------------------------------------------
(* The invariant *)

\* Nothing is under way at the start.
LEMMA GInvInit == Init => GInv
BY DEF Init, GInv, Idle, Talking

\* The stages follow one another.
LEMMA GInvNext == GInv /\ [Next]_vars => GInv'
<1> SUFFICES ASSUME GInv, [Next]_vars
             PROVE  GInv'
  OBVIOUS
<1>1. CASE Stub
  <2>1. CASE Answer \/ SetBreakpoint \/ StepOne \/ Detach
    BY <2>1, AnswersRequest
  <2>2. CASE StepPast \/ Run
    BY <2>2, StepsPast, Runs
  <2>3. CASE Skip \/ Interrupted \/ Continue \/ Kill \/ Acknowledged \/ Disconnected
    BY <2>3, Skips, Interrupts, Continues, Kills, Acknowledges, Disconnects
  <2>4. QED
    BY <1>1, <2>1, <2>2, <2>3 DEF Stub
<1>2. CASE \E r \in Requests : Ask(r)
  BY <1>2, Asks
<1>3. CASE Hear
  BY <1>3, Hears
<1>4. CASE BreakIn
  BY <1>4, BreaksIn
<1>5. CASE Leave
  BY <1>5 DEF Leave, GInv, Talking
<1>6. CASE UNCHANGED vars
  BY <1>6 DEF vars, stub, client, GInv, Idle, Asking, Running, Answering, Talking, Truthful,
              AtBreakpoint, Sleeps, Resumes, Reply
<1>7. QED
  BY <1>1, <1>2, <1>3, <1>4, <1>5, <1>6 DEF Next, Client

LEMMA Invariant == Spec => []GInv
<1>1. Init => GInv
  BY GInvInit
<1>2. GInv /\ [Next]_vars => GInv'
  BY GInvNext
<1>3. QED
  BY <1>1, <1>2, PTL DEF Spec

----------------------------------------------------------------------------
(* What the stages mean for the two properties *)

LEMMA Apart == Plus \notin Requests /\ Break \notin Requests /\ None \notin Requests
BY Names

\* The acknowledgement and the break are no request, so a queue without the
\* debugger's request has none.
LEMMA NoneWaits ==
  ASSUME toStub \in {<<>>, <<Plus>>, <<Break>>, <<Break, Plus>>}
  PROVE  Waiting = {}
<1>1. \A i \in DOMAIN toStub : toStub[i] = Plus \/ toStub[i] = Break
  <2>1. CASE toStub = <<>>
    BY <2>1
  <2>2. CASE toStub = <<Plus>>
    BY <2>2
  <2>3. CASE toStub = <<Break>>
    BY <2>3
  <2>4. CASE toStub = <<Break, Plus>>
    BY <2>4
  <2>5. QED
    BY <2>1, <2>2, <2>3, <2>4
<1>2. QED
  BY <1>1, Apart, Zenon DEF Waiting

LEMMA OneWaits ==
  ASSUME Asking
  PROVE  \E i : Waiting = {i}
<1>1. asked \in Requests
  BY DEF Asking
<1>2. toStub \in {<<asked>>, <<asked, Break>>, <<Plus, asked>>, <<Plus, asked, Break>>,
                  <<Break, Plus, asked>>, <<Break, Plus, asked, Break>>}
  BY Zenon DEF Asking
<1>3. \E i \in DOMAIN toStub :
        /\ toStub[i] = asked
        /\ \A j \in DOMAIN toStub : j # i => toStub[j] = Plus \/ toStub[j] = Break
  <2>1. CASE toStub = <<asked>>
    BY <2>1
  <2>2. CASE toStub = <<asked, Break>>
    <3>1. DOMAIN toStub = {1, 2} /\ toStub[1] = asked /\ toStub[2] = Break
      BY <2>2
    <3>2. QED
      BY <3>1
  <2>3. CASE toStub = <<Plus, asked>>
    <3>1. DOMAIN toStub = {1, 2} /\ toStub[1] = Plus /\ toStub[2] = asked
      BY <2>3
    <3>2. QED
      BY <3>1
  <2>4. CASE toStub = <<Plus, asked, Break>>
    <3>1. DOMAIN toStub = {1, 2, 3} /\ toStub[1] = Plus /\ toStub[2] = asked /\ toStub[3] = Break
      BY <2>4
    <3>2. QED
      BY <3>1
  <2>5. CASE toStub = <<Break, Plus, asked>>
    <3>1. DOMAIN toStub = {1, 2, 3} /\ toStub[1] = Break /\ toStub[2] = Plus /\ toStub[3] = asked
      BY <2>5
    <3>2. QED
      BY <3>1
  <2>6. CASE toStub = <<Break, Plus, asked, Break>>
    <3>1. /\ DOMAIN toStub = {1, 2, 3, 4} /\ toStub[1] = Break /\ toStub[2] = Plus
          /\ toStub[3] = asked /\ toStub[4] = Break
      BY <2>6
    <3>2. QED
      BY <3>1
  <2>7. QED
    BY <1>2, <2>1, <2>2, <2>3, <2>4, <2>5, <2>6
<1>4. PICK i \in DOMAIN toStub :
        /\ toStub[i] = asked
        /\ \A j \in DOMAIN toStub : j # i => toStub[j] = Plus \/ toStub[j] = Break
  BY <1>3
<1>5. Waiting = {i}
  BY <1>1, <1>4, Apart, Zenon DEF Waiting
<1>6. QED
  BY <1>5

LEMMA NoAnswer ==
  ASSUME toClient \in {<<>>, <<Plus>>}
  PROVE  Answers = {}
<1>1. \A i \in DOMAIN toClient : toClient[i] = Plus
  <2>1. CASE toClient = <<>>
    BY <2>1
  <2>2. CASE toClient = <<Plus>>
    BY <2>2
  <2>3. QED
    BY <2>1, <2>2
<1>2. QED
  BY <1>1 DEF Answers

LEMMA OneAnswer ==
  ASSUME NEW stop,
         toClient \in {<<Reply(asked.op, stop)>>, <<Plus, Reply(asked.op, stop)>>}
  PROVE  \E i : Answers = {i} /\ toClient[i] = Reply(asked.op, stop)
<1> DEFINE reply == Reply(asked.op, stop)
<1>1. reply # Plus
  BY Names
<1> HIDE DEF reply
<1>2. CASE toClient = <<reply>>
  <2>1. DOMAIN toClient = {1} /\ toClient[1] = reply
    BY <1>2
  <2>2. Answers = {1}
    BY <1>1, <2>1 DEF Answers
  <2>3. QED
    BY <2>1, <2>2 DEF reply
<1>3. CASE toClient = <<Plus, reply>>
  <2>1. DOMAIN toClient = {1, 2} /\ toClient[1] = Plus /\ toClient[2] = reply
    BY <1>3
  <2>2. Answers = {2}
    BY <1>1, <2>1 DEF Answers
  <2>3. QED
    BY <2>1, <2>2 DEF reply
<1>4. QED
  BY <1>2, <1>3 DEF reply

LEMMA GInvInSync == GInv => InSync
<1> SUFFICES ASSUME GInv, open, phase # "ended"
             PROVE  /\ \A i \in Answers : toClient[i].to = asked.op
                    /\ Cardinality(Waiting) + Cardinality(Answers)
                         + (IF phase \in {"past", "continue"} THEN 1 ELSE 0)
                       = (IF asked = None THEN 0 ELSE 1)
  BY DEF InSync
<1>1. Cardinality({}) = 0 /\ \A x : Cardinality({x}) = 1
  BY FS_EmptySet, FS_Singleton
<1>2. CASE Idle
  <2>1. Waiting = {} /\ Answers = {} /\ asked = None /\ phase \notin {"past", "continue"}
    BY <1>2, NoneWaits, NoAnswer DEF Idle
  <2>2. QED
    BY <1>1, <2>1
<1>3. CASE Asking
  <2>1. Answers = {} /\ asked # None /\ phase \notin {"past", "continue"}
    BY <1>3, NoAnswer, Apart DEF Asking
  <2>2. PICK i : Waiting = {i}
    BY <1>3, OneWaits
  <2>3. Cardinality(Waiting) = 1 /\ Cardinality(Answers) = 0
    BY <1>1, <2>1, <2>2, Zenon
  <2>4. QED
    BY <2>1, <2>3
<1>4. CASE Running
  <2>1. Waiting = {} /\ Answers = {} /\ asked # None /\ phase \in {"past", "continue"}
    BY <1>4, NoneWaits, NoAnswer, Apart DEF Running
  <2>2. QED
    BY <1>1, <2>1
<1>5. CASE Answering
  <2>1. Waiting = {} /\ asked # None /\ phase \notin {"past", "continue"}
    BY <1>5, NoneWaits, Apart DEF Answering
  <2>2. PICK stop : toClient \in {<<Reply(asked.op, stop)>>, <<Plus, Reply(asked.op, stop)>>}
    BY <1>5 DEF Answering
  <2>3. PICK i : Answers = {i} /\ toClient[i] = Reply(asked.op, stop)
    BY <2>2, OneAnswer
  <2>4. toClient[i].to = asked.op
    BY <2>3, Names
  <2>5. Cardinality(Answers) = 1 /\ Cardinality(Waiting) = 0
    BY <1>1, <2>1, <2>3, Zenon
  <2>6. \A k \in Answers : toClient[k].to = asked.op
    BY <2>3, <2>4
  <2>7. QED
    BY <2>1, <2>5, <2>6
<1>6. QED
  BY <1>2, <1>3, <1>4, <1>5 DEF GInv, Talking

LEMMA GInvStopsTrue == GInv => StopsTrue
<1> SUFFICES ASSUME GInv, NEW j \in Answers
             PROVE  /\ toClient[j].to = "c" /\ toClient[j].stop = "S05"
                         => AtBreakpoint(m) \/ Sleeps(m)
                    /\ toClient[j].stop = "S02" => broke
  BY DEF StopsTrue
<1>1. Talking /\ Answering
  <2>1. toClient \notin {<<>>, <<Plus>>}
    BY NoAnswer
  <2>2. QED
    BY <2>1 DEF GInv, Idle, Asking, Running
<1>2. PICK stop : /\ toClient \in {<<Reply(asked.op, stop)>>, <<Plus, Reply(asked.op, stop)>>}
                  /\ Truthful(asked.op, stop)
  BY <1>1 DEF Answering
<1>3. PICK i : Answers = {i} /\ toClient[i] = Reply(asked.op, stop)
  BY <1>2, OneAnswer
<1>4. toClient[j].to = asked.op /\ toClient[j].stop = stop
  BY <1>3, Names
<1>5. QED
  BY <1>2, <1>4 DEF Truthful

\* The debugger's request is in exactly one place and every answer is one to it,
\* whatever breaks cross whatever stop replies (gdb_stub.cpp:150-209, 721-737).
THEOREM InSyncHolds == Spec => []InSync
BY Invariant, GInvInSync, PTL

\* A stop reply tells the truth for as long as it is under way (gdb_stub.cpp:712-737).
THEOREM StopsTrueHolds == Spec => []StopsTrue
BY Invariant, GInvStopsTrue, PTL


----------------------------------------------------------------------------
(***************************************************************************)
(* The target.  Its timers and pins raise requests by folds, whose result  *)
(* is a processor because every request leaves one: that needs that the    *)
(* function a fold is defined with exists, and an induction over sets.     *)
(***************************************************************************)

\* What the proofs about the interrupts know of the processor's operators.  The
\* boards and variables of InterruptCore play no part in it.
Irq == INSTANCE InterruptCore_proofs WITH
  Boards <- {}, DisciplinedBoards <- {}, board <- cfg, cpu <- m.cpu, lastFlip <- phase, shadow <- open

\* Induction over the subsets of a finite set, as a statement about sets.  A smallest
\* set missing in A could not be missing.
Inductive(A, D) ==
  /\ IsFiniteSet(D) /\ {} \in A
  /\ \A s \in SUBSET D : s # {} => \E t \in s : s \ {t} \in A => s \in A

LEMMA SubsetInduction ==
  ASSUME NEW D, NEW A, Inductive(A, D)
  PROVE  SUBSET D \subseteq A
<1> USE DEF Inductive
<1> SUFFICES ASSUME (SUBSET D) \ A # {} PROVE FALSE
  OBVIOUS
<1> DEFINE missing == (SUBSET D) \ A
<1>1. missing \subseteq FiniteSubsetsOf(D)
  BY FS_Subset DEF FiniteSubsetsOf
<1>2. PICK s \in missing : \A u \in missing : <<u, s>> \notin StrictSubsetOrdering(D)
  BY <1>1, FS_StrictSubsetOrderingWellFounded, WFMin
<1>3. PICK t \in s : s \ {t} \in A => s \in A
  OBVIOUS
<1>4. s \ {t} \in missing
  BY <1>3
<1>5. <<s \ {t}, s>> \in StrictSubsetOrdering(D)
  BY DEF StrictSubsetOrdering
<1> QED
  BY <1>2, <1>4, <1>5

LEMMA HasMax ==
  ASSUME NEW D \in SUBSET Int, IsFiniteSet(D), NEW s \in SUBSET D, s # {}
  PROVE  Max(s) \in s
<1> DEFINE Top(u) == \E x \in u : \A y \in u : x >= y
           A == {u \in SUBSET D : u = {} \/ Top(u)}
<1>1. ASSUME NEW u \in SUBSET D, u # {}, NEW t \in u, u \ {t} \in A
      PROVE  u \in A
  <2>1. CASE u \ {t} = {}
    <3>1. \A y \in u : y = t
      BY <2>1
    <3> QED
      BY <3>1
  <2>2. CASE Top(u \ {t})
    <3>1. PICK x \in u \ {t} : \A y \in u \ {t} : x >= y
      BY <2>2
    <3>2. CASE x >= t
      BY <3>1, <3>2
    <3>3. CASE t >= x
      BY <3>1, <3>3
    <3> QED
      BY <3>2, <3>3
  <2> QED
    BY <1>1, <2>1, <2>2
<1>2. Inductive(A, D)
  BY <1>1 DEF Inductive
<1> HIDE DEF A
<1>3. SUBSET D \subseteq A
  BY <1>2, SubsetInduction
<1> QED
  BY <1>3 DEF A, Max

\* A function that is defined by a fold over a finite set exists: it is built up for
\* larger and larger subsets.
Folds(g, D, base, F, pick) ==
  \A s \in SUBSET D : g[s] = IF s = {} THEN base ELSE F[pick[s]][g[s \ {pick[s]}]]

FoldParts(D, C, base, F, pick) ==
  /\ IsFiniteSet(D) /\ base \in C /\ F \in [D -> [C -> C]]
  /\ \A s \in SUBSET D : s # {} => pick[s] \in s

LEMMA FoldExists ==
  ASSUME NEW D, NEW C, NEW base, NEW F, NEW pick, FoldParts(D, C, base, F, pick)
  PROVE  \E g \in [SUBSET D -> C] : Folds(g, D, base, F, pick)
<1> USE DEF FoldParts
<1> DEFINE Upto(n) == {s \in SUBSET D : Cardinality(s) <= n}
           Next1(g, s) == IF s = {} THEN base ELSE F[pick[s]][g[s \ {pick[s]}]]
           Good(g, n) == g \in [Upto(n) -> C] /\ \A s \in Upto(n) : g[s] = Next1(g, s)
           A == {u \in SUBSET D : \E g : Good(g, Cardinality(u))}
<1>1. ASSUME NEW s \in SUBSET D
      PROVE  /\ IsFiniteSet(s) /\ Cardinality(s) \in Nat /\ Cardinality(s) <= Cardinality(D)
             /\ Cardinality(s) = 0 <=> s = {}
             /\ \A t \in s : Cardinality(s \ {t}) = Cardinality(s) - 1
  BY FS_Subset, FS_CardinalityType, FS_EmptySet, FS_RemoveElement
<1>2. {} \in A
  <2>1. Upto(0) = {{}} /\ Cardinality({}) = 0
    BY <1>1
  <2>2. Good([s \in Upto(0) |-> base], 0)
    BY <2>1
  <2> QED
    BY <2>1, <2>2
<1>3. ASSUME NEW s \in SUBSET D, s # {}, NEW t \in s, s \ {t} \in A
      PROVE  s \in A
  <2> DEFINE n == Cardinality(s \ {t})
  <2>1. n \in Nat /\ Cardinality(s) = n + 1
    BY <1>1
  <2>2. PICK g : Good(g, n)
    BY <1>3
  <2> HIDE DEF n
  <2> DEFINE h == [v \in Upto(n + 1) |-> Next1(g, v)]
  <2>3. ASSUME NEW v \in Upto(n + 1), v # {}
        PROVE  /\ pick[v] \in D /\ v \ {pick[v]} \in Upto(n)
               /\ g[v \ {pick[v]}] \in C
               /\ h[v] \in C
               /\ h[v \ {pick[v]}] = g[v \ {pick[v]}]
    <3> DEFINE w == v \ {pick[v]}
    <3>1. pick[v] \in v /\ pick[v] \in D /\ w \in SUBSET D
      BY <2>3
    <3>2. w \in Upto(n) /\ w \in Upto(n + 1)
      BY <1>1, <2>1, <3>1
    <3>3. g[w] \in C /\ g[w] = Next1(g, w)
      BY <2>2, <3>2
    <3>4. h[v] = F[pick[v]][g[w]] /\ h[w] = Next1(g, w)
      BY <2>3, <3>2
    <3>5. h[v] \in C
      <4> HIDE DEF h, w
      <4>1. F[pick[v]] \in [C -> C]
        BY <3>1
      <4> QED
        BY <3>3, <3>4, <4>1
    <3> QED
      BY <3>1, <3>2, <3>3, <3>4, <3>5
  <2>4. h \in [Upto(n + 1) -> C]
    <3>1. \A v \in Upto(n + 1) : Next1(g, v) \in C
      BY <2>3
    <3> QED
      BY <3>1
  <2>5. ASSUME NEW v \in Upto(n + 1) PROVE h[v] = Next1(h, v)
    <3>1. h[v] = Next1(g, v)
      OBVIOUS
    <3>2. v # {} => g[v \ {pick[v]}] = h[v \ {pick[v]}]
      BY <2>3
    <3> HIDE DEF h
    <3> QED
      BY <3>1, <3>2
  <2>6. Good(h, Cardinality(s))
    <3>1. Good(h, n + 1)
      <4> HIDE DEF h
      <4> QED
        BY <2>4, <2>5
    <3> HIDE DEF Good
    <3> QED
      BY <2>1, <3>1
  <2> QED
    BY <2>6
<1>4. D \in A
  <2>1. Inductive(A, D)
    BY <1>2, <1>3 DEF Inductive
  <2> HIDE DEF A
  <2> QED
    BY <2>1, SubsetInduction
<1>5. Upto(Cardinality(D)) = SUBSET D
  BY <1>1
<1> QED
  BY <1>4, <1>5 DEF Folds


\* The requests of a timer and of a pin leave a processor, and so does an instruction.
LEMMA IrqAssumptions ==
  /\ Irq!AddrSizeAssumption /\ Irq!StackSizeAssumption
  /\ Irq!BoardsAssumption /\ Irq!DisciplineAssumption
BY AddrSizeAssumption, StackSizeAssumption, SessionAssumption
   DEF Irq!AddrSizeAssumption, Irq!StackSizeAssumption, Irq!BoardsAssumption,
       Irq!DisciplineAssumption, Irq!Addr, Irq!Slot, Addr, Slot

LEMMA SameTypes == /\ Irq!Cpu = Cpu /\ Irq!InterruptCode = InterruptCode
                   /\ Irq!Bit = Bit /\ Irq!Instruction = Instruction
BY DEF Irq!Cpu, Cpu, Irq!InterruptCode, InterruptCode, Irq!Bit, Bit, Irq!Instruction, Instruction,
       Irq!Addr, Addr, Irq!Slot, Slot

LEMMA TriggerType ==
  ASSUME NEW c \in Cpu, NEW code \in InterruptCode, NEW active \in Bit
  PROVE  triggerInterrupt(c, code, active) \in Cpu
<1>1. Irq!triggerInterrupt(c, code, active) = triggerInterrupt(c, code, active)
  BY DEF Irq!triggerInterrupt, triggerInterrupt
<1>2. c \in Irq!Cpu /\ code \in Irq!InterruptCode /\ active \in Irq!Bit
  BY SameTypes
<1> QED
  BY <1>1, <1>2, SameTypes, IrqAssumptions, Irq!TriggerLemma

\* The target as the stub meets it: every timer is due within its period.
Machines ==
  {x \in [cpu : Cpu, left : [DOMAIN cfg.timers -> Int]] :
     \A t \in DOMAIN cfg.timers : x.left[t] \in 1 .. cfg.timers[t].periodCycles}

LEMMA TimersFinite ==
  ASSUME cfg \in Scenarios
  PROVE  /\ DOMAIN cfg.timers \in SUBSET Int /\ IsFiniteSet(DOMAIN cfg.timers)
         /\ \A t \in DOMAIN cfg.timers : /\ cfg.timers[t].code \in InterruptCode
                                         /\ cfg.timers[t].periodCycles \in Nat \ {0}
<1>1. cfg.timers \in Seq([code : InterruptCode, periodCycles : Nat \ {0}])
  BY ScenariosAssumption DEF IsScenario
<1>2. DOMAIN cfg.timers = 1 .. Len(cfg.timers) /\ Len(cfg.timers) \in Nat
  BY <1>1, LenProperties
<1>3. \A t \in 1 .. Len(cfg.timers) :
        cfg.timers[t] \in [code : InterruptCode, periodCycles : Nat \ {0}]
  BY <1>1, ElementOfSeq
<1>4. IsFiniteSet(1 .. Len(cfg.timers)) /\ 1 .. Len(cfg.timers) \in SUBSET Int
  <2> DEFINE one == 1
             n == Len(cfg.timers)
  <2>1. one \in Int /\ n \in Int
    BY <1>2
  <2> HIDE DEF one, n
  <2>2. IsFiniteSet(one .. n) /\ one .. n \in SUBSET Int
    BY <2>1, FS_Interval
  <2> QED
    BY <2>2 DEF one, n
<1> QED
  BY <1>2, <1>3, <1>4

LEMMA RequestedType ==
  ASSUME cfg \in Scenarios, NEW x, x.cpu \in Cpu
  PROVE  /\ Requested(x) \in Cpu
         /\ (\A t \in DOMAIN cfg.timers : ~(x.left[t] <= 0)) => Requested(x) = x.cpu
<1> DEFINE D == DOMAIN cfg.timers
           idx == [t \in D |-> t]
           op(t, c) == IF x.left[t] <= 0 THEN triggerInterrupt(c, cfg.timers[t].code, 1) ELSE c
           IsFold(g) == g = [s \in SUBSET D |->
                               IF s = {} THEN x.cpu ELSE op(idx[Max(s)], g[s \ {Max(s)}])]
           fold == CHOOSE g : IsFold(g)
           F == [t \in D |-> [c \in Cpu |-> op(t, c)]]
           pick == [s \in SUBSET D |-> Max(s)]
<1>1. D \in SUBSET Int /\ IsFiniteSet(D)
  BY TimersFinite
<1>2. Requested(x) = fold[D]
  BY DEF Requested, FoldLeft, MapThenFoldSet
<1>3. ASSUME NEW t \in D, NEW c \in Cpu PROVE op(t, c) \in Cpu
  BY TimersFinite, TriggerType DEF Bit
<1>4. ASSUME NEW t \in D, ~(x.left[t] <= 0), NEW c PROVE op(t, c) = c
  BY <1>4
<1> HIDE DEF op
<1>5. F \in [D -> [Cpu -> Cpu]]
  BY <1>3
<1>6. \A s \in SUBSET D : s # {} => /\ pick[s] \in s /\ pick[s] = Max(s)
                                    /\ Max(s) \in D /\ idx[Max(s)] = Max(s)
  BY <1>1, HasMax
<1>7. PICK g \in [SUBSET D -> Cpu] : Folds(g, D, x.cpu, F, pick)
  <2>1. FoldParts(D, Cpu, x.cpu, F, pick)
    BY <1>1, <1>5, <1>6 DEF FoldParts
  <2> HIDE DEF F, pick, D
  <2> QED
    BY <2>1, FoldExists
<1>8. IsFold(g)
  <2>1. ASSUME NEW s \in SUBSET D, s # {}
        PROVE  F[pick[s]][g[s \ {pick[s]}]] = op(idx[Max(s)], g[s \ {Max(s)}])
    <3>1. Max(s) \in D /\ s \ {Max(s)} \in SUBSET D
      BY <2>1, <1>6
    <3>2. g[s \ {Max(s)}] \in Cpu
      BY <3>1
    <3> QED
      BY <2>1, <1>6, <3>1, <3>2
  <2>2. g = [s \in SUBSET D |-> g[s]]
    OBVIOUS
  <2>3. \A s \in SUBSET D : g[s] = IF s = {} THEN x.cpu ELSE op(idx[Max(s)], g[s \ {Max(s)}])
    <3> HIDE DEF F, pick, idx, D
    <3> QED
      BY <1>7, <2>1 DEF Folds
  <2> HIDE DEF F, pick, idx, D
  <2> QED
    BY <2>2, <2>3
<1>9. IsFold(fold)
  <2> HIDE DEF IsFold
  <2> QED
    BY <1>8
<1> HIDE DEF fold
<1>10. fold[{}] = x.cpu /\ \A s \in SUBSET D : s # {} => fold[s] = op(Max(s), fold[s \ {Max(s)}])
  BY <1>6, <1>9
<1>11. fold[D] \in Cpu
  <2> DEFINE A == {s \in SUBSET D : fold[s] \in Cpu}
  <2>1. ASSUME NEW s \in SUBSET D, s # {}, s \ {Max(s)} \in A PROVE s \in A
    <3>1. Max(s) \in D /\ fold[s] = op(Max(s), fold[s \ {Max(s)}])
      BY <2>1, <1>6, <1>10
    <3>2. op(Max(s), fold[s \ {Max(s)}]) \in Cpu
      BY <1>3, <2>1, <3>1
    <3> QED
      BY <3>1, <3>2
  <2>2. \A s \in SUBSET D : s # {} => \E t \in s : s \ {t} \in A => s \in A
    BY <1>6, <2>1
  <2>3. Inductive(A, D)
    BY <1>1, <1>10, <2>2 DEF Inductive
  <2>4. SUBSET D \subseteq A
    <3> HIDE DEF A, D
    <3> QED
      BY <2>3, SubsetInduction
  <2> QED
    BY <2>4
<1>12. ASSUME \A t \in D : ~(x.left[t] <= 0) PROVE fold[D] = x.cpu
  <2> DEFINE A == {s \in SUBSET D : fold[s] = x.cpu}
  <2>1. ASSUME NEW s \in SUBSET D, s # {}, s \ {Max(s)} \in A PROVE s \in A
    <3>1. Max(s) \in D /\ fold[s] = op(Max(s), fold[s \ {Max(s)}])
      BY <2>1, <1>6, <1>10
    <3>2. op(Max(s), fold[s \ {Max(s)}]) = x.cpu
      BY <1>4, <1>12, <2>1, <3>1
    <3> QED
      BY <3>1, <3>2
  <2>2. \A s \in SUBSET D : s # {} => \E t \in s : s \ {t} \in A => s \in A
    BY <1>6, <2>1
  <2>3. Inductive(A, D)
    BY <1>1, <1>10, <2>2 DEF Inductive
  <2>4. SUBSET D \subseteq A
    <3> HIDE DEF A, D
    <3> QED
      BY <2>3, SubsetInduction
  <2> QED
    BY <2>4
<1> QED
  BY <1>2, <1>11, <1>12


\* The processor once the pins have driven their lines.
Pinned(c, level) == FoldSet(LAMBDA code, d : triggerInterrupt(d, code, level[code]), c, DOMAIN level)

LEMMA PinnedType ==
  ASSUME cfg \in Scenarios, NEW level \in [cfg.pins -> Bit], NEW c0 \in Cpu
  PROVE  Pinned(c0, level) \in Cpu
<1> DEFINE D == DOMAIN level
           any(s) == CHOOSE x \in s : TRUE
           op(code, c) == triggerInterrupt(c, code, level[code])
           IsFold(g) == g = [s \in SUBSET D |->
                               IF s = {} THEN c0 ELSE op(any(s), g[s \ {any(s)}])]
           fold == CHOOSE g : IsFold(g)
           F == [code \in D |-> [c \in Cpu |-> op(code, c)]]
           pick == [s \in SUBSET D |-> any(s)]
<1>1. D \subseteq {45, 55, 65, 75} /\ IsFiniteSet(D) /\ \A code \in D : level[code] \in Bit
  <2>1. D = cfg.pins /\ cfg.pins \subseteq {45, 55, 65, 75}
    BY ScenariosAssumption DEF IsScenario
  <2>2. IsFiniteSet({45, 55, 65, 75})
    <3>1. IsFiniteSet({}) /\ \A S, x : IsFiniteSet(S) => IsFiniteSet(S \cup {x})
      BY FS_EmptySet, FS_AddElement
    <3>2. IsFiniteSet({45})
      BY <3>1, FS_Singleton
    <3>3. IsFiniteSet({45} \cup {55})
      BY <3>1, <3>2
    <3>4. IsFiniteSet(({45} \cup {55}) \cup {65})
      BY <3>1, <3>3
    <3>5. IsFiniteSet((({45} \cup {55}) \cup {65}) \cup {75})
      BY <3>1, <3>4
    <3>6. {45, 55, 65, 75} = (({45} \cup {55}) \cup {65}) \cup {75}
      OBVIOUS
    <3> QED
      BY <3>5, <3>6
  <2> QED
    BY <2>1, <2>2, FS_Subset
<1>2. Pinned(c0, level) = fold[D]
  BY DEF Pinned, FoldSet, MapThenFoldSet
<1>3. ASSUME NEW code \in D, NEW c \in Cpu PROVE op(code, c) \in Cpu
  <2>1. code \in InterruptCode /\ level[code] \in Bit
    BY <1>1 DEF InterruptCode
  <2> QED
    BY <2>1, TriggerType
<1> HIDE DEF op
<1>4. F \in [D -> [Cpu -> Cpu]]
  BY <1>3
<1>5. \A s \in SUBSET D : s # {} => any(s) \in s /\ any(s) \in D
  OBVIOUS
<1> HIDE DEF any
<1>6. PICK g \in [SUBSET D -> Cpu] : Folds(g, D, c0, F, pick)
  <2>1. FoldParts(D, Cpu, c0, F, pick)
    BY <1>1, <1>4, <1>5 DEF FoldParts
  <2> HIDE DEF F, pick, D
  <2> QED
    BY <2>1, FoldExists
<1>7. IsFold(g)
  <2>1. ASSUME NEW s \in SUBSET D, s # {}
        PROVE  F[pick[s]][g[s \ {pick[s]}]] = op(any(s), g[s \ {any(s)}])
    <3>1. any(s) \in D /\ s \ {any(s)} \in SUBSET D /\ pick[s] = any(s)
      BY <2>1, <1>5
    <3>2. g[s \ {any(s)}] \in Cpu
      BY <3>1
    <3> QED
      BY <3>1, <3>2
  <2>2. g = [s \in SUBSET D |-> g[s]]
    OBVIOUS
  <2>3. \A s \in SUBSET D : g[s] = IF s = {} THEN c0 ELSE op(any(s), g[s \ {any(s)}])
    <3> HIDE DEF F, pick, D
    <3> QED
      BY <1>6, <2>1 DEF Folds
  <2> HIDE DEF F, pick, D
  <2> QED
    BY <2>2, <2>3
<1>8. IsFold(fold)
  <2> HIDE DEF IsFold
  <2> QED
    BY <1>7
<1> HIDE DEF fold
<1>9. fold[{}] = c0 /\ \A s \in SUBSET D : s # {} => fold[s] = op(any(s), fold[s \ {any(s)}])
  BY <1>8
<1>10. fold[D] \in Cpu
  <2> DEFINE A == {s \in SUBSET D : fold[s] \in Cpu}
  <2>1. ASSUME NEW s \in SUBSET D, s # {}, s \ {any(s)} \in A PROVE s \in A
    <3>1. any(s) \in D /\ fold[s] = op(any(s), fold[s \ {any(s)}])
      BY <2>1, <1>5, <1>9
    <3>2. op(any(s), fold[s \ {any(s)}]) \in Cpu
      BY <1>3, <2>1, <3>1
    <3> QED
      BY <3>1, <3>2
  <2>2. \A s \in SUBSET D : s # {} => \E t \in s : s \ {t} \in A => s \in A
    BY <1>5, <2>1
  <2>3. Inductive(A, D)
    BY <1>1, <1>9, <2>2 DEF Inductive
  <2>4. SUBSET D \subseteq A
    <3> HIDE DEF A, D
    <3> QED
      BY <2>3, SubsetInduction
  <2> QED
    BY <2>4
<1> QED
  BY <1>2, <1>10

LEMMA SameInstruction ==
  ASSUME NEW image, NEW c, NEW taken
  PROVE  Irq!Emulate8085Op(image, c, taken) = Emulate8085Op(image, c, taken)
<1>1. \A d : Irq!Winner(d) = Winner(d)
  BY DEF Irq!Winner, Winner
<1>2. \A d, word : Irq!Push(d, word) = Push(d, word)
  BY DEF Irq!Push, Push
<1>3. \A d, vector : Irq!rst(d, vector) = rst(d, vector)
  BY <1>2 DEF Irq!rst, rst
<1>4. \A d : Irq!checkInterrupts(d) = checkInterrupts(d)
  BY <1>1, <1>3 DEF Irq!checkInterrupts, checkInterrupts
<1>5. Irq!Entered(c) = Entered(c)
  BY <1>4 DEF Irq!Entered, Entered
<1>6. Irq!Current(image, c) = Current(image, c)
  BY <1>5 DEF Irq!Current, Current, Irq!Fetch, Fetch, Irq!Nop, Nop
<1>7. \A d, n : Irq!Advance(d, n) = Advance(d, n)
  BY DEF Irq!Advance, Advance
<1>8. \A d : Irq!RimBits(d) = RimBits(d) /\ Irq!Sim(d) = Sim(d)
  BY DEF Irq!RimBits, RimBits, Irq!Sim, Sim, Irq!BitOf, BitOf
<1>9. \A d : /\ Irq!DisableInterrupts(d) = DisableInterrupts(d)
             /\ Irq!EnableInterrupts(d) = EnableInterrupts(d)
             /\ Irq!EndDelay(d) = EndDelay(d)
  BY DEF Irq!DisableInterrupts, DisableInterrupts, Irq!EnableInterrupts, EnableInterrupts,
         Irq!EndDelay, EndDelay
<1>10. \A d, i : Irq!Execute(d, i, taken) = Execute(d, i, taken)
  BY <1>2, <1>3, <1>7, <1>8, <1>9 DEF Irq!Execute, Execute
<1>11. Irq!StaysHalted(c) = StaysHalted(c)
  BY <1>1 DEF Irq!StaysHalted, StaysHalted
<1> QED
  BY <1>5, <1>6, <1>9, <1>10, <1>11 DEF Irq!Emulate8085Op, Emulate8085Op

LEMMA EmulateType ==
  ASSUME cfg \in Scenarios, NEW c \in Cpu, NEW taken \in BOOLEAN
  PROVE  /\ Emulate8085Op(cfg.image, c, taken) \in Cpu
         /\ TStates(cfg.image, c, taken) \in Nat
<1>1. TStates(cfg.image, c, taken) \in Nat
  BY DEF TStates, States
<1>2. CASE StaysHalted(c)
  BY <1>1, <1>2 DEF Emulate8085Op
<1>3. CASE ~StaysHalted(c)
  <2>1. \A x \in DOMAIN cfg.image : cfg.image[x] \in Irq!Instruction
    BY ScenariosAssumption, SameTypes DEF IsScenario
  <2>2. ~Irq!StaysHalted(c) /\ c \in Irq!Cpu
    BY <1>3, SameTypes DEF Irq!StaysHalted, Irq!Winner, StaysHalted, Winner
  <2>3. Irq!Emulate8085Op(cfg.image, c, taken) \in Irq!Cpu
    BY <2>1, <2>2, IrqAssumptions, Irq!EmulateLemma
  <2>4. Irq!Emulate8085Op(cfg.image, c, taken) = Emulate8085Op(cfg.image, c, taken)
    BY SameInstruction
  <2> QED
    BY <1>1, <2>3, <2>4, SameTypes
<1> QED
  BY <1>2, <1>3


----------------------------------------------------------------------------
(***************************************************************************)
(* One instruction of the target, and the same instruction in the run loop.*)
(***************************************************************************)

\* The next trigger of a timer that is d T-states late, with period p.
LEMMA NextTrigger ==
  ASSUME NEW left \in Int, NEW now \in Nat, NEW p \in Nat \ {0}, left >= 1, left <= p
  PROVE  LET rest == left - now
             next == IF rest <= 0 THEN p - ((-rest) % p) ELSE rest
             k == IF now >= left THEN (now - left) \div p + 1 ELSE 0
         IN  /\ next \in 1 .. p
             /\ next = left + k * p - now
             /\ rest <= 0 <=> k > 0
<1>1. CASE now >= left
  <2> DEFINE d == now - left
             q == d \div p
             r == d % p
  <2>1. d \in Nat /\ -(left - now) = d /\ left - now <= 0
    BY <1>1
  <2> HIDE DEF d
  <2>2. q \in Nat /\ r \in 0 .. p - 1 /\ d = p * q + r
    BY <2>1
  <2>3. (q + 1) * p = p * q + p
    BY <2>2
  <2>4. d = now - left
    BY DEF d
  <2> DEFINE x == p * q
             y == (q + 1) * p
  <2>5. x \in Int /\ y = x + p /\ d = x + r
    BY <2>2, <2>3
  <2> HIDE DEF q, r, x, y
  <2>6. p - r \in 1 .. p /\ p - r = left + y - now /\ q + 1 > 0
    BY <2>2, <2>4, <2>5
  <2> QED
    BY <1>1, <2>1, <2>6 DEF d, q, r, y
<1>2. CASE now < left
  BY <1>2
<1> QED
  BY <1>1, <1>2

\* What the instruction leaves: the pins are driven, the instruction executes, and the
\* timers it made late raise their requests.
LEMMA Executes ==
  ASSUME cfg \in Scenarios, NEW x \in Machines, NEW z \in Executed(x)
  PROVE  \E level \in [cfg.pins -> Bit], taken \in BOOLEAN :
           LET c == Pinned(x.cpu, level)
               y == [cpu |-> Emulate8085Op(cfg.image, c, taken),
                     left |-> [t \in DOMAIN cfg.timers |-> x.left[t] - TStates(cfg.image, c, taken)]]
           IN  z = fire_timers(y)
<1>1. /\ x = [cpu |-> x.cpu, left |-> x.left] /\ x.cpu \in Cpu
      /\ x.left \in [DOMAIN cfg.timers -> Int]
      /\ \A t \in DOMAIN cfg.timers : x.left[t] \in 1 .. cfg.timers[t].periodCycles
  BY DEF Machines
<1>2. fire_timers(x) = x
  <2>1. \A t \in DOMAIN cfg.timers : ~(x.left[t] <= 0)
    BY <1>1, TimersFinite
  <2>2. Requested(x) = x.cpu
    BY <1>1, <2>1, RequestedType
  <2>3. DOMAIN x.left = DOMAIN cfg.timers
    BY <1>1
  <2>4. fire_timers(x).left = x.left
    BY <1>1, <2>1, <2>3 DEF fire_timers
  <2>5. fire_timers(x) = [cpu |-> Requested(x), left |-> fire_timers(x).left]
    BY DEF fire_timers
  <2> QED
    BY <1>1, <2>2, <2>4, <2>5
<1>3. PICK level \in [cfg.pins -> Bit], taken \in BOOLEAN :
        z = fire_timers(Emulated(Driven(x, level), taken))
  BY <1>2 DEF Executed
<1> DEFINE c == Pinned(x.cpu, level)
<1>4. Driven(x, level) = [cpu |-> c, left |-> x.left]
  <2>1. Driven(x, level) = [x EXCEPT !.cpu = c]
    BY <1>1 DEF Driven, Pinned
  <2> HIDE DEF c
  <2> QED
    BY <1>1, <2>1
<1>5. Emulated(Driven(x, level), taken) =
        [cpu |-> Emulate8085Op(cfg.image, c, taken),
         left |-> [t \in DOMAIN cfg.timers |-> x.left[t] - TStates(cfg.image, c, taken)]]
  <2> HIDE DEF c
  <2>1. DOMAIN x.left = DOMAIN cfg.timers
    BY <1>1
  <2> QED
    BY <1>4, <2>1 DEF Emulated
<1> QED
  BY <1>3, <1>5


LEMMA SamePins ==
  ASSUME NEW c, NEW level
  PROVE  Loop!Driven(c, level) = Pinned(c, level)
<1>1. \A d, code, active : Loop!triggerInterrupt(d, code, active) = triggerInterrupt(d, code, active)
  BY DEF Loop!triggerInterrupt, triggerInterrupt
<1> QED
  BY DEF Loop!Driven, Pinned, Loop!FoldSet, Loop!MapThenFoldSet, FoldSet, MapThenFoldSet,
         Loop!triggerInterrupt, triggerInterrupt

\* The two loops fire the same timers in the same order.
LEMMA SameRequests ==
  ASSUME cfg \in Scenarios, m \in Machines, NEW now \in Nat, NEW y,
         \A t \in DOMAIN cfg.timers : y.left[t] = m.left[t] - now
  PROVE  Requested(y) = Loop!Fired(y.cpu, now)
<1> DEFINE D == DOMAIN cfg.timers
           idx == [t \in D |-> t]
           op(t, c) == IF y.left[t] <= 0 THEN triggerInterrupt(c, cfg.timers[t].code, 1) ELSE c
           lop(t, c) == IF Loop!Periods(t, now) > 0
                        THEN Loop!triggerInterrupt(c, cfg.timers[t].code, 1) ELSE c
           top(s) == CHOOSE x \in s : \A z \in s : x >= z
           IsFold(g) == g = [s \in SUBSET D |->
                               IF s = {} THEN y.cpu ELSE op(idx[top(s)], g[s \ {top(s)}])]
           IsLoop(g) == g = [s \in SUBSET D |->
                               IF s = {} THEN y.cpu ELSE lop(idx[top(s)], g[s \ {top(s)}])]
<1>1. Requested(y) = (CHOOSE g : IsFold(g))[D]
  BY DEF Requested, FoldLeft, MapThenFoldSet, Max
<1>2. Loop!Fired(y.cpu, now) = (CHOOSE g : IsLoop(g))[D]
  BY DEF Loop!Fired, Loop!FoldLeft, Loop!MapThenFoldSet, Loop!Max
<1>3. ASSUME NEW t \in D, NEW c PROVE op(t, c) = lop(t, c)
  <2>1. Loop!triggerInterrupt(c, cfg.timers[t].code, 1) = triggerInterrupt(c, cfg.timers[t].code, 1)
    BY DEF Loop!triggerInterrupt, triggerInterrupt
  <2>2. y.left[t] <= 0 <=> Loop!Periods(t, now) > 0
    <3> DEFINE left == m.left[t]
               p == cfg.timers[t].periodCycles
               rest == left - now
               k == IF now >= left THEN (now - left) \div p + 1 ELSE 0
    <3>1. left \in Int /\ p \in Nat \ {0} /\ left >= 1 /\ left <= p
      BY TimersFinite DEF Machines
    <3>2. Loop!Periods(t, now) = k
      BY DEF Loop!Periods
    <3>3. y.left[t] = rest
      OBVIOUS
    <3> HIDE DEF left, p
    <3>4. rest <= 0 <=> k > 0
      BY <3>1, NextTrigger
    <3> HIDE DEF rest, k
    <3> QED
      BY <3>2, <3>3, <3>4
  <2> QED
    BY <2>1, <2>2
<1>4. \A s \in SUBSET D : s # {} => top(s) \in D /\ idx[top(s)] = top(s)
  BY TimersFinite, HasMax DEF Max
<1> HIDE DEF op, lop, top
<1>5. ASSUME NEW g PROVE IsFold(g) <=> IsLoop(g)
  <2>1. \A s \in SUBSET D : s # {} => op(idx[top(s)], g[s \ {top(s)}]) = lop(idx[top(s)], g[s \ {top(s)}])
    BY <1>3, <1>4
  <2> HIDE DEF idx
  <2>2. [s \in SUBSET D |-> IF s = {} THEN y.cpu ELSE op(idx[top(s)], g[s \ {top(s)}])]
          = [s \in SUBSET D |-> IF s = {} THEN y.cpu ELSE lop(idx[top(s)], g[s \ {top(s)}])]
    BY <2>1
  <2> QED
    BY <2>2
<1> HIDE DEF IsFold, IsLoop
<1>6. (CHOOSE g : IsFold(g)) = (CHOOSE g : IsLoop(g))
  BY <1>5, Zenon
<1> QED
  BY <1>1, <1>2, <1>6

\* An instruction leaves the target within its timers' periods, and as the run loop would.
LEMMA ExecutionFollows ==
  ASSUME cfg \in Scenarios, m \in Machines, NEW pc \in Addr, m' \in Executed([m EXCEPT !.cpu.pc = pc])
  PROVE  m' \in Machines /\ FollowsRunLoop(pc)
<1> DEFINE x == [m EXCEPT !.cpu.pc = pc]
<1>1. x \in Machines /\ x.left = m.left /\ x.cpu = [m.cpu EXCEPT !.pc = pc]
  <2>1. /\ m = [cpu |-> m.cpu, left |-> m.left] /\ m.cpu \in Cpu
        /\ m.left \in [DOMAIN cfg.timers -> Int]
        /\ \A t \in DOMAIN cfg.timers : m.left[t] \in 1 .. cfg.timers[t].periodCycles
    BY DEF Machines
  <2>2. [m.cpu EXCEPT !.pc = pc] \in Cpu
    BY <2>1 DEF Cpu
  <2>3. x = [cpu |-> [m.cpu EXCEPT !.pc = pc], left |-> m.left]
    BY <2>1
  <2> HIDE DEF x
  <2> QED
    BY <2>1, <2>2, <2>3 DEF Machines
<1> HIDE DEF x
<1>2. m' \in Executed(x)
  BY DEF x
<1>3. PICK level \in [cfg.pins -> Bit], taken \in BOOLEAN :
        LET c == Pinned(x.cpu, level)
            y == [cpu |-> Emulate8085Op(cfg.image, c, taken),
                  left |-> [t \in DOMAIN cfg.timers |-> x.left[t] - TStates(cfg.image, c, taken)]]
        IN  m' = fire_timers(y)
  BY <1>1, <1>2, Executes
<1> DEFINE c == Pinned(x.cpu, level)
           e == Emulate8085Op(cfg.image, c, taken)
           now == TStates(cfg.image, c, taken)
           y == [cpu |-> e, left |-> [t \in DOMAIN cfg.timers |-> x.left[t] - now]]
<1>4. c \in Cpu /\ e \in Cpu /\ now \in Nat
  <2>1. x.cpu \in Cpu
    BY <1>1 DEF Machines
  <2>2. c \in Cpu
    BY <2>1, PinnedType
  <2> HIDE DEF c
  <2> QED
    BY <2>2, EmulateType
<1>5. m' = fire_timers(y)
  BY <1>3
<1>6. c = Loop!Driven([m.cpu EXCEPT !.pc = pc], level)
  BY <1>1, SamePins
<1> HIDE DEF c, e, now
<1>7. /\ y.cpu = e /\ DOMAIN y.left = DOMAIN cfg.timers
      /\ \A t \in DOMAIN cfg.timers : y.left[t] = m.left[t] - now
  BY <1>1
<1> HIDE DEF y
<1>8. Requested(y) \in Cpu /\ Requested(y) = Loop!Fired(e, now)
  BY <1>4, <1>7, RequestedType, SameRequests
<1> DEFINE next(t) == IF y.left[t] <= 0
                      THEN cfg.timers[t].periodCycles - ((-y.left[t]) % cfg.timers[t].periodCycles)
                      ELSE y.left[t]
<1>9. m' = [cpu |-> Requested(y), left |-> [t \in DOMAIN cfg.timers |-> next(t)]]
  BY <1>5, <1>7 DEF fire_timers
<1>10. ASSUME NEW t \in DOMAIN cfg.timers
       PROVE  /\ next(t) \in 1 .. cfg.timers[t].periodCycles
              /\ next(t) = m.left[t] + Loop!Periods(t, now) * cfg.timers[t].periodCycles - now
  <2> DEFINE left == m.left[t]
             p == cfg.timers[t].periodCycles
             k == IF now >= left THEN (now - left) \div p + 1 ELSE 0
             rest == left - now
  <2>1. left \in Int /\ p \in Nat \ {0} /\ left >= 1 /\ left <= p
    BY TimersFinite DEF Machines
  <2>2. Loop!Periods(t, now) = k
    BY DEF Loop!Periods
  <2>3. next(t) = IF rest <= 0 THEN p - ((-rest) % p) ELSE rest
    BY <1>7
  <2> HIDE DEF left, p, next
  <2>4. next(t) \in 1 .. p /\ next(t) = left + k * p - now
    BY <1>4, <2>1, <2>3, NextTrigger
  <2> HIDE DEF k, rest
  <2> QED
    BY <2>2, <2>4 DEF left, p
<1> HIDE DEF next
<1>11. m' \in Machines
  <2>1. \A t \in DOMAIN cfg.timers : next(t) \in Int /\ next(t) \in 1 .. cfg.timers[t].periodCycles
    BY <1>10, TimersFinite
  <2> QED
    BY <1>8, <1>9, <2>1 DEF Machines
<1>12. FollowsRunLoop(pc)
  <2>1. DOMAIN m.left = DOMAIN cfg.timers
    BY DEF Machines
  <2>2. m'.left = [t \in DOMAIN m.left |->
                     m.left[t] + Loop!Periods(t, now) * cfg.timers[t].periodCycles - now]
    BY <1>9, <1>10, <2>1
  <2>3. m'.cpu = Loop!Fired(e, now)
    BY <1>8, <1>9
  <2> QED
    BY <1>6, <2>2, <2>3 DEF FollowsRunLoop, e, now
<1> QED
  BY <1>11, <1>12


----------------------------------------------------------------------------
(***************************************************************************)
(* Types, and who moves the target.  What the stub may read that resumes   *)
(* the target is the debugger's request, also when the debugger has left,  *)
(* and a target that is running was resumed by a continue.                 *)
(***************************************************************************)
Readable == {q \in Requests \cup {Plus, Break} : Resumes(q) => q = asked}

Owned ==
  /\ toStub \in Seq(Readable)
  /\ phase \in {"past", "continue"} => asked.op = "c"

TInv == TypeOK /\ m \in Machines /\ Owned /\ GInv

\* What a step may do to the target.
Moved ==
  m' # m =>
    /\ Resumes(asked)
    /\ \E pc \in {m.cpu.pc} \cup UNION {r.at : r \in {q \in Requests : Resumes(q)}} :
         FollowsRunLoop(pc) \/ m' = [m EXCEPT !.cpu.pc = pc]

\* The address of s and c is where the target goes on.
LEMMA Sends ==
  ASSUME TInv, NEW at \in SUBSET Addr
  PROVE  \E pc \in {m.cpu.pc} \cup at : pc \in Addr /\ Sent(m, at) = [m EXCEPT !.cpu.pc = pc]
<1>1. m = [cpu |-> m.cpu, left |-> m.left] /\ m.cpu \in Cpu
  BY DEF TInv, Machines
<1>2. m.cpu.pc \in Addr
  BY <1>1 DEF Cpu
<1>3. CASE at = {}
  <2>1. m.cpu = [m.cpu EXCEPT !.pc = m.cpu.pc]
    BY <1>1 DEF Cpu
  <2>2. m = [m EXCEPT !.cpu.pc = m.cpu.pc]
    BY <1>1, <2>1
  <2> QED
    BY <1>2, <1>3, <2>2 DEF Sent
<1>4. CASE at # {}
  <2>1. (CHOOSE a \in at : TRUE) \in at
    BY <1>4
  <2> QED
    BY <1>4, <2>1 DEF Sent
<1> QED
  BY <1>3, <1>4

\* The request to resume that the stub receives.
LEMMA ReceivesResume ==
  ASSUME TInv, NEW op \in {"s", "c"}, Receives(op)
  PROVE  /\ Head(toStub) \in Requests /\ Head(toStub) = asked /\ asked.op = op
         /\ Resumes(asked) /\ asked.at \in SUBSET Addr
<1>1. Head(toStub) \in Readable /\ Head(toStub).op = op
  BY HeadTailProperties DEF TInv, Owned, Receives
<1>2. Head(toStub) # Plus /\ Head(toStub) # Break
  BY <1>1, Names
<1>3. Head(toStub) \in Requests /\ Head(toStub) = asked
  BY <1>1, <1>2 DEF Readable, Resumes
<1>4. asked.op = op /\ IsRequest(asked)
  BY <1>1, <1>3, SessionAssumption
<1>5. asked.at \in SUBSET Addr
  BY <1>4 DEF IsRequest
<1> QED
  BY <1>3, <1>4, <1>5 DEF Resumes

LEMMA ExecutionMoves ==
  ASSUME TInv, NEW at \in SUBSET Addr, m' \in Executed(Sent(m, at)), Resumes(asked),
         at = {} \/ \E r \in Requests : Resumes(r) /\ at = r.at
  PROVE  m' \in Machines /\ Moved
<1>1. PICK pc \in {m.cpu.pc} \cup at : pc \in Addr /\ Sent(m, at) = [m EXCEPT !.cpu.pc = pc]
  BY Sends
<1>2. m' \in Machines /\ FollowsRunLoop(pc)
  BY <1>1, ExecutionFollows DEF TInv, TypeOK
<1>3. pc \in {m.cpu.pc} \cup UNION {r.at : r \in {q \in Requests : Resumes(q)}}
  BY <1>1
<1> QED
  BY <1>2, <1>3 DEF Moved

LEMMA TargetMoves ==
  ASSUME TInv, [Next]_vars
  PROVE  cfg' = cfg /\ m' \in Machines /\ Moved
<1>1. CASE StepOne
  <2>1. Receives("s") /\ m' \in Executed(Sent(m, Head(toStub).at)) /\ cfg' = cfg
    BY <1>1 DEF StepOne
  <2>2. /\ asked \in Requests /\ Head(toStub) = asked /\ Resumes(asked)
        /\ asked.at \in SUBSET Addr
    BY <2>1, ReceivesResume
  <2> QED
    BY <2>1, <2>2, ExecutionMoves
<1>2. CASE Continue
  <2>1. Receives("c") /\ m' = Sent(m, Head(toStub).at) /\ cfg' = cfg
    BY <1>2 DEF Continue
  <2>2. /\ asked \in Requests /\ Head(toStub) = asked /\ Resumes(asked)
        /\ asked.at \in SUBSET Addr
    BY <2>1, ReceivesResume
  <2>3. PICK pc \in {m.cpu.pc} \cup asked.at :
          pc \in Addr /\ Sent(m, asked.at) = [m EXCEPT !.cpu.pc = pc]
    BY <2>2, Sends
  <2>4. [m EXCEPT !.cpu.pc = pc] \in Machines
    <3>1. m = [cpu |-> m.cpu, left |-> m.left] /\ m.cpu \in Cpu
      BY DEF TInv, Machines
    <3>2. [m.cpu EXCEPT !.pc = pc] \in Cpu
      BY <2>3, <3>1 DEF Cpu
    <3>3. [m EXCEPT !.cpu.pc = pc] = [cpu |-> [m.cpu EXCEPT !.pc = pc], left |-> m.left]
      BY <3>1
    <3> QED
      BY <3>2, <3>3 DEF TInv, Machines
  <2>5. pc \in {m.cpu.pc} \cup UNION {r.at : r \in {q \in Requests : Resumes(q)}}
    BY <2>2
  <2> QED
    BY <2>1, <2>2, <2>3, <2>4, <2>5 DEF Moved
<1>3. CASE StepPast \/ Run
  <2>1. m' \in Executed(m) /\ cfg' = cfg /\ phase \in {"past", "continue"}
    BY <1>3 DEF StepPast, Run
  <2>2. Resumes(asked)
    BY <2>1 DEF TInv, Owned, Resumes
  <2>3. Sent(m, {}) = m
    BY DEF Sent
  <2> QED
    BY <2>1, <2>2, <2>3, ExecutionMoves
<1>4. CASE UNCHANGED <<cfg, m>>
  BY <1>4 DEF TInv, Moved
<1>5. StepOne \/ Continue \/ StepPast \/ Run \/ UNCHANGED <<cfg, m>>
  BY DEF Next, Stub, Client, Skip, Interrupted, Answer, SetBreakpoint, Kill, Detach, Acknowledged,
         Disconnected, Ask, Hear, BreakIn, Leave, vars
<1> QED
  BY <1>1, <1>2, <1>3, <1>4, <1>5


\* Types of what is said, read and waited for.
Answerable == {"break", "data", "s", "c", "D", "Z0", "z0"}
Said == {Plus} \cup [op : {"reply"}, to : Answerable, stop : {"none", "S02", "S05"}]

Session ==
  /\ breakpoints \subseteq Addr /\ pollCounter \in 0 .. PollEvery - 1 /\ phase \in Phases
  /\ Owned
  /\ toClient \in Seq(Said)
  /\ asked \in Requests \cup {None} /\ broke \in BOOLEAN /\ open \in BOOLEAN

LEMMA SessionTypes ==
  ASSUME cfg \in Scenarios, m \in Machines, Session
  PROVE  TypeOK
<1>1. /\ m.cpu \in Cpu /\ DOMAIN m.left = DOMAIN cfg.timers
      /\ \A t \in DOMAIN m.left : m.left[t] \in 1 .. cfg.timers[t].periodCycles
  BY DEF Machines
<1>2. toStub \in Seq(Requests \cup {Plus, Break})
  BY DEF Session, Owned, Readable
<1> QED
  BY <1>1, <1>2 DEF Session, TypeOK, Said, Answerable

LEMMA Speaks ==
  ASSUME Session, NEW messages \in Seq(Said), Say(messages)
  PROVE  toClient' \in Seq(Said)
BY ConcatProperties DEF Session, Say

LEMMA Replies ==
  /\ <<Plus>> \in Seq(Said)
  /\ \A to \in Answerable, stop \in {"none", "S02", "S05"} :
       <<Reply(to, stop)>> \in Seq(Said) /\ <<Plus, Reply(to, stop)>> \in Seq(Said)
<1>1. Plus \in Said
  BY DEF Said
<1>2. \A to \in Answerable, stop \in {"none", "S02", "S05"} : Reply(to, stop) \in Said
  BY DEF Said, Reply
<1>3. \A x, y \in Said : <<x>> \in Seq(Said) /\ <<x, y>> \in Seq(Said)
  OBVIOUS
<1> QED
  BY <1>1, <1>2, <1>3

\* A step of the stub that has read one message, and one that has read none.
LEMMA Reader ==
  ASSUME Session, NEW op, Receives(op) \/ toStub' = Polled \/ toStub' = toStub \/ toStub' = <<>>
                          \/ toStub' = (IF toStub = <<>> THEN <<>> ELSE Tail(toStub)),
         asked' = asked
  PROVE  toStub' \in Seq(Readable')
<1>1. Readable' = Readable
  BY DEF Readable, Resumes, Plus, Break
<1>2. toStub \in Seq(Readable)
  BY DEF Session, Owned
<1>3. toStub # <<>> => Tail(toStub) \in Seq(Readable)
  BY <1>2, HeadTailProperties
<1>4. <<>> \in Seq(Readable)
  OBVIOUS
<1>5. toStub' \in {<<>>, toStub} \/ (toStub # <<>> /\ toStub' = Tail(toStub))
  BY DEF Receives, Polled
<1> QED
  BY <1>1, <1>2, <1>3, <1>4, <1>5

LEMMA StubTypes ==
  ASSUME TInv, Session, Stub
  PROVE  Session'
<1> DEFINE Later == phase' \in {"receive", "ack", "bye", "ended"}
<1>1. /\ breakpoints \subseteq Addr /\ pollCounter \in 0 .. PollEvery - 1 /\ phase \in Phases
      /\ toClient \in Seq(Said) /\ asked \in Requests \cup {None}
      /\ broke \in BOOLEAN /\ open \in BOOLEAN /\ PollEvery \in Nat \ {0}
  BY SessionAssumption DEF Session
<1>2. \A last : AwaitAck(last) => Later
  BY DEF AwaitAck
<1>3. ASSUME UNCHANGED client, toStub' \in Seq(Readable'), toClient' \in Seq(Said),
             breakpoints' \subseteq Addr, pollCounter' \in 0 .. PollEvery - 1,
             Later \/ (phase' \in {"past", "continue"} /\ asked.op = "c")
      PROVE  Session'
  <2>1. Said' = Said /\ asked' = asked /\ broke' = broke /\ open' = open
    BY <1>3 DEF Said, Answerable, Plus, client
  <2>2. phase' \in Phases /\ Owned'
    BY <1>3, <2>1 DEF Phases, Owned
  <2> QED
    BY <1>1, <1>3, <2>1, <2>2 DEF Session
<1>4. CASE Skip
  <2>1. Receives("+") /\ UNCHANGED <<phase, toClient, breakpoints, pollCounter, client>> /\ phase = "receive"
    BY <1>4 DEF Skip, stub, Receives
  <2> QED
    BY <1>1, <1>3, <2>1, Reader DEF client
<1>5. CASE Interrupted \/ Answer \/ StepOne \/ Detach
  <2>1. \E op, last : /\ Receives(op) /\ AwaitAck(last)
                      /\ UNCHANGED <<breakpoints, pollCounter, client>>
    BY <1>5 DEF Interrupted, Answer, StepOne, Detach
  <2>2. \E messages \in Seq(Said) : Say(messages)
    <3>1. \A to \in {"break", "data", "s", "D"}, stop \in {"none", "S05"} :
            <<Reply(to, stop)>> \in Seq(Said) /\ <<Plus, Reply(to, stop)>> \in Seq(Said)
      BY Replies DEF Answerable
    <3> QED
      BY <1>5, <3>1 DEF Interrupted, Answer, StepOne, Detach
  <2> QED
    BY <1>1, <1>2, <1>3, <2>1, <2>2, Reader, Speaks DEF client
<1>6. CASE SetBreakpoint
  <2>1. PICK op \in {"Z0", "z0"} :
          /\ Receives(op) /\ Say(<<Plus, Reply(op, "none")>>) /\ AwaitAck(FALSE)
          /\ breakpoints' = IF op = "Z0" THEN breakpoints \cup {Head(toStub).at}
                            ELSE breakpoints \ {Head(toStub).at}
          /\ UNCHANGED <<pollCounter, client>>
    BY <1>6 DEF SetBreakpoint
  <2>2. Head(toStub) \in Requests \cup {Plus, Break} /\ Head(toStub).op = op
    BY <2>1, HeadTailProperties DEF Session, Owned, Readable, Receives
  <2>3. Head(toStub).at \in Addr
    BY <2>2, Names, SessionAssumption DEF IsRequest
  <2>4. <<Plus, Reply(op, "none")>> \in Seq(Said)
    BY Replies DEF Answerable
  <2> QED
    BY <1>1, <1>2, <1>3, <2>1, <2>3, <2>4, Reader, Speaks DEF client
<1>7. CASE Continue
  <2>1. /\ Receives("c") /\ phase' \in {"past", "continue"} /\ pollCounter' = 0 /\ Say(<<Plus>>)
        /\ UNCHANGED <<breakpoints, client>>
    BY <1>7 DEF Continue
  <2>2. asked.op = "c"
    BY <2>1, ReceivesResume
  <2>3. toClient' \in Seq(Said)
    BY <2>1, Replies, Speaks
  <2>4. toStub' \in Seq(Readable') /\ pollCounter' \in 0 .. PollEvery - 1
    BY <1>1, <2>1, Reader DEF client
  <2> QED
    BY <1>1, <1>3, <2>1, <2>2, <2>3, <2>4
<1>8. CASE Kill
  <2>1. <<Plus>> \in Seq(Said)
    BY Replies
  <2> QED
    BY <1>1, <1>3, <1>8, <2>1, Reader, Speaks DEF Kill, client
<1>9. CASE Acknowledged \/ Disconnected
  BY <1>1, <1>3, <1>9, Reader DEF Acknowledged, Disconnected, client
<1>10. CASE StepPast
  <2>1. asked.op = "c"
    BY <1>10 DEF StepPast, Session, Owned
  <2> QED
    BY <1>1, <1>3, <1>10, <2>1, Reader DEF StepPast, client
<1>11. CASE Run
  <2>1. asked.op = "c" /\ phase = "continue" /\ UNCHANGED <<breakpoints, client>>
    BY <1>11 DEF Run, Session, Owned
  <2>2. PICK why \in {StopReason(m')} :
          /\ pollCounter' = IF PollDue \/ why = "S05" THEN 0 ELSE pollCounter + 1
          /\ toStub' = IF why = "S05" THEN toStub ELSE Polled
          /\ IF why = "none" THEN UNCHANGED <<phase, toClient>>
             ELSE Say(<<Reply("c", why)>>) /\ AwaitAck(FALSE)
    BY <1>11 DEF Run
  <2>3. why \in {"none", "S02", "S05"}
    BY DEF StopReason
  <2>4. pollCounter' \in 0 .. PollEvery - 1
    BY <1>1, <2>2 DEF PollDue
  <2>5. toClient' \in Seq(Said) /\ (Later \/ phase' \in {"past", "continue"})
    <3>1. <<Reply("c", why)>> \in Seq(Said)
      BY <2>3, Replies DEF Answerable
    <3> QED
      BY <1>1, <1>2, <2>1, <2>2, <3>1, Speaks
  <2> QED
    BY <1>1, <1>3, <2>1, <2>2, <2>4, <2>5, Reader DEF client
<1> QED
  BY <1>4, <1>5, <1>6, <1>7, <1>8, <1>9, <1>10, <1>11 DEF Stub


LEMMA ClientTypes ==
  ASSUME TInv, Session, Client
  PROVE  Session'
<1>1. /\ Said' = Said /\ toStub \in Seq(Readable) /\ toClient \in Seq(Said)
      /\ asked \in Requests \cup {None} /\ broke \in BOOLEAN /\ open \in BOOLEAN
  BY DEF Said, Answerable, Plus, Session, Owned
<1>2. Plus \in Readable' /\ Break \in Readable'
  BY Names DEF Readable, Resumes, Plus, Break
<1>3. \A x, s : s \in Seq(Readable') /\ x \in Readable' => Append(s, x) \in Seq(Readable')
  BY AppendProperties
<1>4. ASSUME UNCHANGED <<breakpoints, pollCounter, phase>>, toStub' \in Seq(Readable'),
             phase \in {"past", "continue"} => asked'.op = "c",
             toClient' \in Seq(Said), asked' \in Requests \cup {None},
             broke' \in BOOLEAN, open' \in BOOLEAN
      PROVE  Session'
  BY <1>1, <1>4 DEF Session, Owned
<1>5. ASSUME asked' = asked PROVE Readable' = Readable
  BY <1>5 DEF Readable, Resumes, Plus, Break
<1>6. CASE \E r \in Requests : Ask(r)
  <2>1. PICK r \in Requests : Ask(r)
    BY <1>6
  <2>2. /\ asked = None /\ asked' = r /\ broke' = FALSE /\ toStub' = Append(toStub, r)
        /\ UNCHANGED <<breakpoints, pollCounter, phase, toClient, open>>
    BY <2>1 DEF Ask, stub
  <2>3. \A q \in Readable : q \in Readable'
    <3>1. \A q \in Readable : ~Resumes(q)
      BY <2>2, Names DEF Readable, Resumes
    <3> QED
      BY <3>1 DEF Readable, Resumes, Plus, Break
  <2>4. toStub \in Seq(Readable') /\ r \in Readable'
    BY <1>1, <2>2, <2>3 DEF Readable
  <2>5. phase \notin {"past", "continue"}
    BY <2>2, Names DEF Session, Owned
  <2> QED
    BY <1>1, <1>3, <1>4, <2>2, <2>4, <2>5
<1>7. CASE Hear
  <2>1. /\ open /\ toClient # <<>> /\ toClient' = Tail(toClient)
        /\ UNCHANGED <<breakpoints, pollCounter, phase, open>>
    BY <1>7 DEF Hear, stub
  <2>2. toClient' \in Seq(Said)
    BY <1>1, <2>1, HeadTailProperties
  <2>3. CASE Head(toClient) = Plus
    <3>1. toStub' = toStub /\ asked' = asked /\ broke' = broke
      BY <1>7, <2>3 DEF Hear
    <3> QED
      BY <1>1, <1>4, <1>5, <2>1, <2>2, <3>1 DEF Session, Owned
  <2>4. CASE Head(toClient) # Plus
    <3>1. toStub' = Append(toStub, Plus) /\ asked' = None /\ broke' = FALSE
      BY <1>7, <2>4 DEF Hear
    <3>2. Head(<<Plus>>) = Plus
      BY Fronts
    <3>3. Answering
      BY <2>1, <2>4, <3>2 DEF TInv, GInv, Talking, Idle, Asking, Running
    <3>4. toStub \in {<<>>, <<Break>>} /\ phase \notin {"past", "continue"}
      BY <3>3 DEF Answering
    <3>5. toStub \in Seq(Readable')
      <4>1. \A x, S : x \in S => <<>> \in Seq(S) /\ <<x>> \in Seq(S)
        OBVIOUS
      <4> QED
        BY <1>2, <3>4, <4>1
    <3> QED
      BY <1>1, <1>2, <1>3, <1>4, <2>1, <2>2, <3>1, <3>4, <3>5
  <2> QED
    BY <2>3, <2>4
<1>8. CASE BreakIn
  <2>1. /\ broke' = TRUE /\ toStub' = Append(toStub, Break)
        /\ UNCHANGED <<breakpoints, pollCounter, phase, toClient, asked, open>>
    BY <1>8 DEF BreakIn, stub
  <2> QED
    BY <1>1, <1>2, <1>3, <1>4, <1>5, <2>1 DEF Session, Owned
<1>9. CASE Leave
  <2>1. /\ open' = FALSE /\ toClient' = <<>>
        /\ UNCHANGED <<breakpoints, pollCounter, phase, toStub, asked, broke>>
    BY <1>9 DEF Leave, stub
  <2>2. toClient' \in Seq(Said)
    BY <2>1
  <2>3. phase \in {"past", "continue"} => asked'.op = "c"
    BY <2>1 DEF Session, Owned
  <2>4. toStub' \in Seq(Readable')
    BY <1>1, <1>5, <2>1
  <2> QED
    BY <1>1, <1>4, <2>1, <2>2, <2>3, <2>4
<1> QED
  BY <1>6, <1>7, <1>8, <1>9 DEF Client

LEMMA TInvInit == Init => TInv
<1> SUFFICES ASSUME Init PROVE TInv
  OBVIOUS
<1>1. GInv
  BY GInvInit
<1>2. /\ cfg \in Scenarios /\ phase = "receive" /\ toStub = <<>> /\ toClient = <<>>
      /\ breakpoints = {} /\ pollCounter = 0 /\ asked = None /\ broke = FALSE /\ open = TRUE
      /\ m = [cpu |-> Reset8085(EntryPc, EntrySp),
              left |-> [t \in DOMAIN cfg.timers |-> cfg.timers[t].periodCycles]]
  BY DEF Init
<1>3. Reset8085(EntryPc, EntrySp) \in Cpu
  BY AddrSizeAssumption, SessionAssumption DEF Reset8085, Cpu, Addr, Slot, Bit
<1>4. m \in Machines
  BY <1>2, <1>3, TimersFinite DEF Machines
<1>5. Session
  <2>1. pollCounter \in 0 .. PollEvery - 1
    BY <1>2, SessionAssumption
  <2>2. toStub \in Seq(Readable) /\ toClient \in Seq(Said)
    BY <1>2
  <2> QED
    BY <1>2, <2>1, <2>2 DEF Session, Owned, Phases
<1>6. TypeOK
  BY <1>2, <1>4, <1>5, SessionTypes
<1> QED
  BY <1>1, <1>4, <1>5, <1>6 DEF TInv, Session

LEMMA TInvNext == TInv /\ [Next]_vars => TInv'
<1> SUFFICES ASSUME TInv, [Next]_vars PROVE TInv'
  OBVIOUS
<1>1. Session
  BY DEF TInv, TypeOK, Session, Said, Answerable
<1>2. cfg' = cfg /\ m' \in Machines
  BY TargetMoves
<1>3. cfg' \in Scenarios /\ m' \in Machines'
  BY <1>2 DEF TInv, TypeOK, Machines
<1>4. Session'
  <2>1. CASE UNCHANGED vars
    BY <1>1, <2>1 DEF vars, stub, client, Session, Owned, Readable, Resumes, Plus, Break, Said,
                      Answerable
  <2> QED
    BY <1>1, <2>1, StubTypes, ClientTypes DEF Next
<1>5. GInv'
  BY GInvNext DEF TInv
<1>6. TypeOK'
  <2>1. /\ m'.cpu \in Cpu /\ DOMAIN m'.left = DOMAIN cfg'.timers
        /\ \A t \in DOMAIN m'.left : m'.left[t] \in 1 .. cfg'.timers[t].periodCycles
    BY <1>3 DEF Machines
  <2>2. toStub' \in Seq((Requests \cup {Plus, Break})')
    BY <1>4 DEF Session, Owned, Readable
  <2> QED
    BY <1>3, <1>4, <2>1, <2>2 DEF Session, TypeOK, Said, Answerable
<1> QED
  BY <1>3, <1>4, <1>5, <1>6 DEF TInv, Session

\* Packets, breakpoints, processor and timers keep their types; a timer is always due
\* within its period, however late an instruction makes it (gdb_stub.cpp:215-222).
THEOREM TypeCorrect == Spec => []TypeOK
<1>1. TInv => TypeOK
  BY DEF TInv
<1> QED
  BY <1>1, TInvInit, TInvNext, PTL DEF Spec

\* The target moves only while the debugger waits for it, and every instruction leaves
\* it as an iteration of the run loop would (gdb_stub.cpp:213-220, 690-711).
THEOREM UndisturbedHolds == Spec => Undisturbed
<1>1. TInv /\ [Next]_vars =>
        [m' # m =>
           /\ Resumes(asked)
           /\ \E pc \in {m.cpu.pc} \cup UNION {r.at : r \in {q \in Requests : Resumes(q)}} :
                FollowsRunLoop(pc) \/ m' = [m EXCEPT !.cpu.pc = pc]]_vars
  BY TargetMoves DEF Moved
<1> QED
  BY <1>1, TInvInit, TInvNext, PTL DEF Spec, Undisturbed
=============================================================================
