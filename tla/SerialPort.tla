----------------------------- MODULE SerialPort -----------------------------
(***************************************************************************)
(* The serial chip on a TCP channel (plugins/mc6850.cpp over TcpChannel of *)
(* src/io_channel.cpp), between a program that uses the chip in any order  *)
(* and terminals that connect, type and leave at any time.                 *)
(*                                                                         *)
(* Everything the simulator does happens in its one thread: a step ticks   *)
(* the channel and then steps the chip, and an access of the program comes *)
(* between two steps.  Only the terminals run beside it.  Bytes pass       *)
(*   typed -> inflight -> acia.rxq -> receive register,                    *)
(* and the other way from the program to the terminal, or to txbuf while   *)
(* no terminal is connected.  The channel's own receive queue is empty     *)
(* between two steps: on_step drains as many bytes as a tick receives.     *)
(***************************************************************************)
EXTENDS Mc6850, Functions

CONSTANTS
  Script,      \* rx=: the scripted bytes
  Users,       \* what the terminals may type: sequences of other bytes
  Output,      \* the bytes the program writes, in this order
  TxCap,       \* bytes kept while no terminal is connected, 8192 in the code
  Chunk,       \* bytes one tick receives, 64 in the code
  MaxVisits    \* bound: connections

ASSUME SerialAssumption ==
  /\ Script \in Seq(Byte) /\ Users \subseteq Seq(Byte) /\ Output \in Seq(Range(Output))
  /\ \A u \in Users : Range(u) \cap Range(Script) = {}
  /\ TxCap \in Nat /\ Chunk \in Nat \ {0} /\ MaxVisits \in Nat

VARIABLES
  acia,      \* Ctx of the chip
  client,    \* clientSock is open
  txbuf,     \* output kept for the next terminal
  user,      \* what the terminals of this behaviour type
  peer,      \* the terminal: "away", "here" or "left" with its end closed
  visits,    \* connections made so far
  inflight,  \* typed and not yet received
  sent,      \* history: bytes typed and not lost with a connection
  taken,     \* history: typed bytes that left the receive register, read or reset away
  read,      \* history: bytes the program read
  late,      \* history: bytes read since /RTS last was taken away
  spoken,    \* how much of Output the program has written
  kept,      \* history: bytes of it that no full buffer or lost connection dropped
  screen     \* history: what the terminals received

incoming == <<inflight, sent>>
outgoing == <<txbuf, spoken, kept, screen>>
received == <<acia, taken, read, late>>
vars == <<client, user, peer, visits, incoming, outgoing, received>>

TypeOK ==
  /\ acia \in Acia
  /\ client \in BOOLEAN
  /\ txbuf \in Seq(Range(Output)) /\ Len(txbuf) <= TxCap
  /\ user \in Users
  /\ peer \in {"away", "here", "left"} /\ (client => peer # "away")
  /\ visits \in 0 .. MaxVisits
  /\ {inflight, sent, taken, read} \subseteq Seq(Byte)
  /\ late \in Nat
  /\ spoken \in 0 .. Len(Output)
  /\ {kept, screen} \subseteq Seq(Range(Output))

Init ==
  /\ acia = on_reset(Created(Script))
  /\ client = FALSE /\ txbuf = <<>>
  /\ user \in Users
  /\ peer = "away" /\ visits = 0 /\ inflight = <<>> /\ sent = <<>>
  /\ taken = <<>> /\ read = <<>> /\ late = 0
  /\ spoken = 0 /\ kept = <<>> /\ screen = <<>>

Scripted(q) == SelectSeq(q, LAMBDA b : b \in Range(Script))

RdrContent == IF acia.rdrFull THEN <<acia.rdrByte>> ELSE <<>>

\* What of it a terminal typed.
TypedContent == IF acia.rdrFull /\ acia.rdrByte \in Range(user) THEN <<acia.rdrByte>> ELSE <<>>

\* Bytes of q that are lost when what is in flight is lost.
WithoutInflight(q) == SubSeq(q, 1, Len(q) - Len(inflight))

----------------------------------------------------------------------------
(* The terminal *)

Connect ==
  /\ peer = "away" /\ visits < MaxVisits
  /\ peer' = "here" /\ visits' = visits + 1
  /\ UNCHANGED <<client, user, incoming, outgoing, received>>

Type ==
  /\ peer = "here" /\ Len(sent) < Len(user)
  /\ LET byte == user[Len(sent) + 1]
     IN  inflight' = Append(inflight, byte) /\ sent' = Append(sent, byte)
  /\ UNCHANGED <<client, user, peer, visits, outgoing, received>>

\* The terminal closes its end, or the connection breaks with what is in flight.
Leave(broken) ==
  /\ peer = "here"
  /\ peer' = "left"
  /\ inflight' = IF broken THEN <<>> ELSE inflight
  /\ sent' = IF broken THEN WithoutInflight(sent) ELSE sent
  /\ UNCHANGED <<client, user, visits, outgoing, received>>

----------------------------------------------------------------------------
(* The simulator's step: io_channels_tick, and on_step of the chip *)

\* A waiting terminal is accepted, and given the output kept for it.
Accepts == ~client /\ peer # "away"

\* Fault: the output given to a new terminal stays in the buffer.
StillBuffered_All == txbuf

StillBuffered == IF Accepts THEN <<>> ELSE txbuf

\* Fault: bytes are received only when a whole chunk of them is there.
Arrived_Whole == IF Chunk <= Len(inflight) THEN SubSeq(inflight, 1, Chunk) ELSE <<>>

Arrived == SubSeq(inflight, 1, IF Chunk < Len(inflight) THEN Chunk ELSE Len(inflight))

\* Fault: the end of a connection is never seen.
Closes_Never == FALSE

\* The end of the connection is seen only when its last byte was received.
Closes == peer = "left" /\ inflight = <<>>

Step ==
  /\ client' = (peer # "away" /\ ~Closes)
  /\ peer' = IF Closes THEN "away" ELSE peer
  /\ txbuf' = StillBuffered
  /\ screen' = IF Accepts /\ peer = "here" THEN screen \o txbuf ELSE screen
  /\ kept' = IF Accepts /\ peer = "left" THEN SubSeq(kept, 1, Len(kept) - Len(txbuf)) ELSE kept
  /\ acia' = on_step(acia, Arrived)
  /\ inflight' = SubSeq(inflight, Len(Arrived) + 1, Len(inflight))
  /\ UNCHANGED <<user, visits, sent, taken, read, late, spoken>>

----------------------------------------------------------------------------
(* The program: IN and OUT on the chip's two ports *)

ReadData ==
  /\ acia' = on_io_post_read(acia)
  /\ taken' = taken \o TypedContent
  /\ read' = read \o RdrContent
  /\ late' = IF ~acia.rtsAsserted THEN late + Len(RdrContent) ELSE 0
  /\ UNCHANGED <<client, user, peer, visits, incoming, outgoing>>

Control(bits) ==
  /\ acia' = WriteControl(acia, bits)
  /\ taken' = IF acia'.rdrFull THEN taken ELSE taken \o TypedContent
  /\ late' = IF acia'.rtsAsserted THEN 0 ELSE late
  /\ UNCHANGED <<client, user, peer, visits, incoming, outgoing, read>>

\* Fault: the buffer has no limit.
Room_Always == TRUE

Room == Len(txbuf) < TxCap

\* Without a terminal the byte is kept while there is room.
WriteKept(byte) ==
  /\ ~client
  /\ txbuf' = IF Room THEN Append(txbuf, byte) ELSE txbuf
  /\ kept' = IF Room THEN Append(kept, byte) ELSE kept
  /\ UNCHANGED <<client, peer, incoming, screen>>

WriteSent(byte) ==
  /\ client /\ peer = "here"
  /\ screen' = Append(screen, byte) /\ kept' = Append(kept, byte)
  /\ UNCHANGED <<client, peer, incoming, txbuf>>

\* The socket has no room, or accepts the byte for a terminal that has left.
WriteDropped ==
  /\ client
  /\ UNCHANGED <<client, peer, incoming, txbuf, screen, kept>>

\* Sending fails: the connection is closed, with what it had still to be read.
WriteFailed ==
  /\ client /\ peer = "left"
  /\ client' = FALSE /\ peer' = "away"
  /\ inflight' = <<>> /\ sent' = WithoutInflight(sent)
  /\ UNCHANGED <<txbuf, screen, kept>>

WriteData ==
  /\ spoken < Len(Output)
  /\ spoken' = spoken + 1
  /\ WriteKept(Output[spoken']) \/ WriteSent(Output[spoken']) \/ WriteDropped \/ WriteFailed
  /\ UNCHANGED <<user, visits, received>>

\* Master reset; receive with the interrupt enabled; the same with /RTS away.
ControlWords == {{0, 1}, {0, 2, 4, 7}, {0, 2, 4, 6, 7}}

Program == ReadData \/ WriteData \/ \E bits \in ControlWords : Control(bits)

Terminal == Connect \/ Type \/ \E broken \in BOOLEAN : Leave(broken)

Next == Step \/ Program \/ Terminal

\* The run loop steps for ever, whatever the program and the terminals do.
Spec == Init /\ [][Next]_vars /\ WF_vars(Step)

----------------------------------------------------------------------------
(* Properties *)

\* Every typed byte is in exactly one place, in the order it was typed: nothing is
\* lost, doubled or reordered on the way to the program, across connections, flow
\* control and buffers; only a master reset drops one (io_channel.cpp 166-200,
\* mc6850.cpp 150-180).
RxInOrder == taken \o TypedContent \o acia.rxq \o inflight = sent

\* Without live input, the program has read the script in order and completely, also
\* across a master reset, which returns an unread byte to the queue (mc6850.cpp 166-172).
ScriptKept == user = <<>> => read = SubSeq(Script, 1, acia.rxPos)

\* A program that takes /RTS away reads at most one byte more until it gives it
\* back: the one that was already in the register (mc6850.cpp 169, 176, 229-243).
StopHolds == ~acia.rtsAsserted => late <= 1

\* Terminals receive what the program wrote in the order it was written, the output
\* kept from before their connection first (io_channel.cpp 172-176, 202-214).
TxInOrder == screen \o txbuf = kept

\* A terminal that closed its connection is noticed, so that the next one can
\* connect (io_channel.cpp 185-188).
LeftIsNoticed == peer = "left" ~> peer = "away"

\* If /RTS stays asserted and the program keeps emptying the register, everything
\* typed reaches the register.
AllTypedArrives ==
  <>[]acia.rtsAsserted /\ []<>~acia.rdrFull => []<>(inflight = <<>> /\ acia.rxq = <<>>)

\* "rxPos is only advanced when the byte is actually consumed" (mc6850.cpp 166-167):
\* the position in the script says how many scripted bytes were read.
ScriptPositionExact == Len(Scripted(read)) = acia.rxPos
=============================================================================
