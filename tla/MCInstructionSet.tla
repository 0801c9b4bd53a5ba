-------------------------- MODULE MCInstructionSet --------------------------
(***************************************************************************)
(* Programs for InstructionSet, with the numbers they have to compute.     *)
(*                                                                         *)
(* A program is a sequence of instructions; an instruction is its bytes;   *)
(* a negative number stands for the address of that line of the program.   *)
(* Registers are the numbers they have in an opcode, a pair the number of  *)
(* its first one.                                                          *)
(***************************************************************************)
EXTENDS GdbRegisters, CarefulJobs, SequencesExt, TLC

B == 0
C == 1
D == 2
E == 3
H == 4
L == 5
M == 6
SP == 6
PSW == 6
ACC == 7

MOV(to, from) == <<64 + 8 * to + from>>
MVI(to, byte) == <<6 + 8 * to, byte>>
LXI(pair, word) == <<1 + 8 * pair, Low(word), High(word)>>
INR(x) == <<4 + 8 * x>>
DCR(x) == <<5 + 8 * x>>
INX(pair) == <<3 + 8 * pair>>
DCX(pair) == <<11 + 8 * pair>>
DAD(pair) == <<9 + 8 * pair>>
LDAX(pair) == <<10 + 8 * pair>>
STAX(pair) == <<2 + 8 * pair>>
ADD(x) == <<128 + x>>
ADC(x) == <<136 + x>>
SUB(x) == <<144 + x>>
SBB(x) == <<152 + x>>
XRA(x) == <<168 + x>>
ORA(x) == <<176 + x>>
CMP(x) == <<184 + x>>
ADI(byte) == <<198, byte>>
ACI(byte) == <<206, byte>>
SUI(byte) == <<214, byte>>
SBI(byte) == <<222, byte>>
ANI(byte) == <<230, byte>>
XRI(byte) == <<238, byte>>
ORI(byte) == <<246, byte>>
CPI(byte) == <<254, byte>>
SHLD(addr) == <<34, Low(addr), High(addr)>>
LHLD(addr) == <<42, Low(addr), High(addr)>>
STA(addr) == <<50, Low(addr), High(addr)>>
LDA(addr) == <<58, Low(addr), High(addr)>>
PUSH(pair) == <<197 + 8 * pair>>
POP(pair) == <<193 + 8 * pair>>

RLC == <<7>>
RRC == <<15>>
RAL == <<23>>
RAR == <<31>>
DAA == <<39>>
CMA == <<47>>
STC == <<55>>
CMC == <<63>>
DSUB == <<8>>
ARHL == <<16>>
RDEL == <<24>>
LDHI(byte) == <<40, byte>>
LDSI(byte) == <<56, byte>>
SHLX == <<217>>
LHLX == <<237>>
RSTV == <<203>>
RZ == <<200>>
RP == <<240>>
RET == <<201>>
XTHL == <<227>>
XCHG == <<235>>
PCHL == <<233>>
RST1 == <<207>>
SPHL == <<249>>
DI == <<243>>
EI == <<251>>
HLT == <<118>>

To(opcode, line) == <<opcode, -line, 0>>
JNZ(line) == To(194, line)
JNC(line) == To(210, line)
JNX5(line) == To(221, line)
CALL(line) == To(205, line)
JMP(line) == To(195, line)
JC(line) == To(218, line)
JPE(line) == To(234, line)
JX5(line) == To(253, line)
CM(line) == To(252, line)
CNZ(line) == To(196, line)
LXIH(line) == To(33, line)

Refers(i) == Len(i) = 3 /\ i[2] < 0

\* The bytes of a program that starts at base.
Code(base, program) ==
  LET start == [n \in 1 .. Len(program) |-> base + MapThenSumSet(LAMBDA k : Len(program[k]), 1 .. n - 1)]
      bytes(i) == IF Refers(i) THEN <<i[1], Low(start[-i[2]]), High(start[-i[2]])>> ELSE i
      all == FlattenSeq([n \in 1 .. Len(program) |-> bytes(program[n])])
  IN  [x \in base .. base + Len(all) - 1 |-> all[x - base + 1]]

----------------------------------------------------------------------------
(* The board: 4K of ROM above the first RST vectors, an EEPROM that is      *)
(* locked and one that is not.  Programs start at 256.                      *)

MCPlugins ==
  {[base |-> 32, end |-> 4096, eeprom |-> FALSE, wren |-> FALSE],
   [base |-> 12288, end |-> 12292, eeprom |-> TRUE, wren |-> FALSE],
   [base |-> 12292, end |-> 12296, eeprom |-> TRUE, wren |-> TRUE]}

X == 8192
Y == 8194
Out == 8448
Count == 8960
Top == 8704      \* of the stack

\* The handler of RST 7.5 counts, and spoils whatever it has saved.
Handler ==
  Code(60, << <<195, 0, 12>> >>) @@
  Code(3072, <<PUSH(PSW), PUSH(B), PUSH(D), PUSH(H), LHLD(Count), INX(H), SHLD(Count), DCX(H),
               DSUB, RDEL, XTHL, XTHL, ARHL, DAA, STC,
               POP(H), POP(D), POP(B), POP(PSW), EI, RET>>)

\* What RSTV calls: it notes an overflow.
OverflowRoutine == Code(64, <<PUSH(H), LXI(H, Out + 8), MVI(M, 1), POP(H), RET>>)

Job(program, data, want) ==
  [image |-> data @@ program @@ Handler @@ OverflowRoutine, pc |-> 256,
   want |-> want, private |-> {Count, Count + 1}]

Bytes(base, seq) == [x \in base .. base + Len(seq) - 1 |-> seq[x - base + 1]]
WordsOf(base, seq) == Bytes(base, FlattenSeq([n \in 1 .. Len(seq) |-> <<Low(seq[n]), High(seq[n])>>]))

----------------------------------------------------------------------------
(* Words *)

WordProgram == Code(256, <<
  LXI(SP, Top), EI, LHLD(Y), MOV(B, H), MOV(C, L), LHLD(X),
  MOV(ACC, L), ADD(C), STA(Out), MOV(ACC, H), ADC(B), STA(Out + 1),
  MVI(ACC, 0), RAL, STA(Out + 2),
  MOV(ACC, L), SUB(C), STA(Out + 3), MOV(ACC, H), SBB(B), STA(Out + 4), SBB(ACC), STA(Out + 5),
  DSUB, SHLD(Out + 6), RSTV, PUSH(PSW), POP(D), MOV(ACC, E), ANI(195), STA(Out + 9),
  DAD(B), SHLD(Out + 10), ARHL, SHLD(Out + 12),
  LHLD(X), XCHG, ORA(ACC), RDEL, XCHG, SHLD(Out + 14), PUSH(PSW), POP(B), MOV(ACC, C), ANI(3),
  STA(Out + 16), HLT>>)

Signed(word) == IF word > 32767 THEN word - 65536 ELSE word

\* Flags: 128 negative, 64 zero, 2 signed overflow, 1 unsigned borrow.
WordJob(x, y) ==
  LET difference == Signed(x) - Signed(y)
      overflow == difference \notin -32768 .. 32767
  IN  Job(WordProgram, WordsOf(X, <<x, y>>),
          Bytes(Out, <<(x + y) % 256, ((x + y) \div 256) % 256, (x + y) \div 65536,
                       (x - y) % 256, ((x - y) \div 256) % 256, IF x < y THEN 255 ELSE 0,
                       (x - y) % 256, ((x - y) \div 256) % 256, IF overflow THEN 1 ELSE 0,
                       (IF (difference < 0) # overflow THEN 128 ELSE 0) + (IF x = y THEN 64 ELSE 0)
                         + (IF overflow THEN 2 ELSE 0) + (IF x < y THEN 1 ELSE 0)>>)
          @@ WordsOf(Out + 10, <<x, (Signed(x) \div 2) % 65536, (2 * x) % 65536>>)
          @@ Bytes(Out + 16, <<(2 * x) \div 65536
                               + (IF 2 * Signed(x) \notin -32768 .. 32767 THEN 2 ELSE 0)>>))

WordInputs == {0, 1, 255, 32768, 65535}

----------------------------------------------------------------------------
(* Decimal numbers of four digits, digits *)

DecimalProgram == Code(256, <<
  LXI(SP, Top), EI, LXI(H, Y), LXI(D, X), MVI(C, 2), XRA(ACC),
  LDAX(D), ADC(M), DAA, STAX(D), INX(H), INX(D), DCR(C), JNZ(7),
  MVI(ACC, 0), RAL, STA(Out), LHLD(X), SHLD(Out + 1), HLT>>)

Decimal(n) ==
  (n % 10) + 16 * ((n \div 10) % 10) + 256 * ((n \div 100) % 10) + 4096 * ((n \div 1000) % 10)

DecimalJob(x, y) ==
  Job(DecimalProgram, WordsOf(X, <<Decimal(x), Decimal(y)>>),
      Bytes(Out, <<(x + y) \div 10000>>) @@ WordsOf(Out + 1, <<Decimal(x + y)>>))

\* A hexadecimal digit in ASCII, and some arithmetic with its nibbles exchanged.
DigitProgram == Code(256, <<
  LXI(SP, Top), EI, LDA(X), ADI(144), DAA, ACI(64), DAA, STA(Out),
  LDA(X), RRC, RRC, RRC, RRC, XRI(240), ORI(1), CPI(129), JC(19), SUI(100), STA(Out + 1),
  LXI(H, Out), LDHI(2), STC, CMC, STC, SBI(0), STAX(D), HLT>>)

DigitJob(n) ==
  LET swapped == 241 - 16 * n
      reduced == IF swapped < 129 THEN swapped ELSE swapped - 100
  IN  Job(DigitProgram, Bytes(X, <<n>>),
          Bytes(Out, <<IF n < 10 THEN 48 + n ELSE 55 + n, reduced, reduced - 1>>))

DecimalInputs == {0, 95, 5678, 9999}

----------------------------------------------------------------------------
(* Loops *)

\* The product, half of it, and the parity of a factor.
ProductProgram == Code(256, <<
  LXI(SP, Top), EI, LXI(H, Y), MOV(E, M), MVI(D, 0), LXI(H, 0), MVI(C, 8), LDA(X),
  DAD(H), RAL, JNC(13), DAD(D), DCR(C), JNZ(9),
  SHLD(Out), SHLD(Out + 2), LXI(H, Out + 3), MVI(C, 2), ORA(ACC),
  MOV(ACC, M), RAR, MOV(M, ACC), DCX(H), DCR(C), JNZ(20),
  LDA(X), ORA(ACC), PUSH(PSW), POP(B), MOV(ACC, C), ANI(4), STA(Out + 4), HLT>>)

Ones(n) == Cardinality({i \in 0 .. 7 : (n \div 2^i) % 2 = 1})

ProductJob(x, y) ==
  Job(ProductProgram, WordsOf(X, <<x, y>>),
      WordsOf(Out, <<x * y, (x * y) \div 2>>) @@ Bytes(Out + 4, <<IF Ones(x) % 2 = 0 THEN 4 ELSE 0>>))

\* The greatest of four bytes, its complement and rotation, how many of them are
\* negative and how many have an odd number of 1 bits; then a count that wraps.
ScanProgram == Code(256, <<
  LXI(SP, Top), EI, LXI(H, X), LXI(B, 4), LXI(D, 0),
  MOV(ACC, M), CMP(B), JC(10), MOV(B, ACC),
  ORA(ACC), JPE(13), INR(E), ORA(ACC), CM(30), INX(H), DCR(C), JNZ(6),
  MOV(ACC, B), CMA, INR(ACC), STA(Out), MOV(ACC, B), RLC, LXI(H, Out + 1), MOV(M, ACC),
  INX(H), MOV(M, D), INX(H), JMP(33),
  INR(D), RP, HLT,
  MOV(M, E), LXI(B, 65535), INX(B), JX5(38), HLT, INR(M), HLT>>)

ScanJob(bytes) ==
  LET greatest == CHOOSE n \in ToSet(bytes) : \A k \in ToSet(bytes) : k <= n
      number(P(_)) == Cardinality({i \in DOMAIN bytes : P(bytes[i])})
  IN  Job(ScanProgram, Bytes(X, bytes),
          Bytes(Out, <<256 - greatest, ((2 * greatest) % 256) + greatest \div 128,
                       number(LAMBDA n : n > 127), number(LAMBDA n : Ones(n) % 2 = 1) + 1>>))

\* Eight bytes from X to 12286, where four of them meet the locked EEPROM; then
\* words stored across the end of the ROM and across the end of memory, and one
\* read there.
CopyProgram == Code(256, <<
  LXI(SP, Top), EI, LXI(D, X), LXI(H, 12286), LXI(B, 7),
  LDAX(D), MOV(M, ACC), INX(D), INX(H), DCX(B), JNX5(6),
  LXI(H, 4660), SHLD(4095), LXI(D, 65535), SHLX, LHLX,
  DI, LXI(SP, 4097), LXI(H, 22136), PUSH(H), HLT>>)

\* It leaves the stack at Top behind, where a handler may have run.
CopyJob ==
  [Job(CopyProgram,
       Bytes(X, <<1, 2, 3, 4, 5, 6, 7, 8>>) @@ Bytes(12288, <<91, 92, 93, 94>>),
       Bytes(12286, <<1, 2, 91, 92, 93, 94, 7, 8>>) @@ Bytes(4095, <<0, 86>>)
         @@ (65535 :> 52) @@ (0 :> 18))
   EXCEPT !.private = @ \cup Top - 10 .. Top - 1]

----------------------------------------------------------------------------
(* Subroutines: a recursive sum, a parameter behind the call, a local on the *)
(* stack, RST and a computed jump.                                           *)

SubroutineProgram == Code(256, <<
  LHLD(Y), SPHL, EI, LDA(X), CALL(25), STA(Out), CALL(33), <<52, 18>>, XCHG, SHLD(Out + 1),
  LXI(H, 1000), PUSH(H), LDSI(0), LHLX, INX(H), SHLX, POP(H), SHLD(Out + 3),
  RST1, LXIH(23), PCHL, MVI(ACC, 0), STA(Out + 5), HLT,
  ORA(ACC), RZ, PUSH(PSW), DCR(ACC), CNZ(25), POP(B), ADD(B), RET,
  XTHL, MOV(E, M), INX(H), MOV(D, M), INX(H), XTHL, RET>>)

Restart == Code(8, <<MVI(ACC, 77), RET>>)

SubroutineJob(n, stack) ==
  Job(SubroutineProgram @@ Restart, WordsOf(X, <<n, stack>>),
      Bytes(Out, <<(n * (n + 1)) \div 2>>) @@ WordsOf(Out + 1, <<4660, 1001>>)
        @@ Bytes(Out + 5, <<77>>))

----------------------------------------------------------------------------

MCJobs ==
  {WordJob(x, y) : x \in WordInputs, y \in WordInputs}
    \cup {DecimalJob(x, y) : x \in DecimalInputs, y \in DecimalInputs}
    \cup {DigitJob(n) : n \in {0, 9, 10, 15}}
    \cup {ProductJob(x, y) : x \in {128, 255}, y \in {1, 171}}
    \cup {ScanJob(<<127, 1, 128, 3>>), ScanJob(<<255, 254, 2, 129>>), CopyJob}
    \cup {SubroutineJob(n, stack) : n \in {0, 5}, stack \in {8, Top}}

\* What the host's memory behind the last byte may hold.
MCBeyond == {<<0, 0>>, <<85, 170>>}

----------------------------------------------------------------------------
(* The discipline of CarefulJobs, shown for every job                       *)

Known(size, stack, regs) == [size |-> size, stack |-> stack, regs |-> regs]

\* The frames of the handler in the image from p on, where f is known.
RECURSIVE FramesFrom(_, _, _)
FramesFrom(image, p, f) ==
  LET opcode == image[p]
      pair == (opcode \div 16) % 4
      here == p :> f
  IN  CASE opcode = 201 -> here
        [] opcode = 195 -> here @@ FramesFrom(image, 256 * image[p + 2] + image[p + 1], f)
        [] opcode = 34 -> here @@ FramesFrom(image, p + 3, f)
        [] opcode = 251 -> here @@ FramesFrom(image, p + 1, f)
        [] opcode \in {197, 213, 229, 245} ->
             here @@ FramesFrom(image, p + 1,
               Known(f.size + 1, [k \in 1 .. f.size + 1 |-> IF k > f.size THEN f.regs[pair] ELSE f.stack[k]], f.regs))
        [] opcode \in {193, 209, 225, 241} ->
             here @@ FramesFrom(image, p + 1,
               Known(f.size - 1, [k \in 1 .. f.size - 1 |-> f.stack[k]],
                     [f.regs EXCEPT ![pair] = Popped(pair, f.stack[f.size])]))
        [] opcode = 227 ->
             here @@ FramesFrom(image, p + 1,
               Known(f.size, [f.stack EXCEPT ![f.size] = f.regs[2]], [f.regs EXCEPT ![2] = f.stack[f.size]]))
        [] OTHER ->
             here @@ FramesFrom(image, p + Length(opcode),
               Known(f.size, f.stack, [n \in Names |-> IF n \in Changes(opcode) THEN Unknown ELSE f.regs[n]]))

\* A point of the undisturbed run, before which the hidden bytes may have been spoiled.
Point(c, s, hidden) ==
  [at |-> s, hidden |-> IF Open(s) THEN hidden \cup Slots(c, s) \cup c.scratch ELSE hidden]

After(c, e) ==
  IF e.at.hlt_enable = 1 THEN {}
  ELSE {Point(c, t, e.hidden \ Pushed(e.at, t)) : t \in {Emulate8085Op(e.at, beyond) : beyond \in MCBeyond}}

\* All points from the last ones on.
RECURSIVE TrailFrom(_, _, _)
TrailFrom(c, points, last) ==
  IF last = {} THEN points
  ELSE TrailFrom(c, points \cup last, UNION {After(c, e) : e \in last} \ points)

Discipline(j) ==
  LET frames == FramesFrom(j.image, 60, Known(0, <<>>, [n \in Names |-> n]))
      c == [job |-> j, frames |-> frames, scratch |-> {Count, Count + 1}, depth |-> 4, trail |-> {}]
  IN  [c EXCEPT !.trail = TrailFrom(c, {}, {Point(c, Reset(j), {})})]

MCCareful == {Discipline(j) : j \in MCJobs}
=============================================================================
