-------------------------------- MODULE Alu --------------------------------
(***************************************************************************)
(* Arithmetic, logic and flags of the processor: the helpers at the top of *)
(* i8085_exec.c and the instructions that are nothing but a computation on *)
(* bytes, words and flags.  Bytes and words are numbers of their width, a  *)
(* flag is 0 or 1.                                                         *)
(***************************************************************************)
EXTENDS Integers, FiniteSets, FiniteSetsExt

Byte == 0 .. 255
WordMax == 65535
Word == 0 .. WordMax
Flag == 0 .. 1

Flags == [cy : Flag, z : Flag, s : Flag, p : Flag, ac : Flag, v : Flag, x5 : Flag]

Set(condition) == IF condition THEN 1 ELSE 0

\* The top bit of a byte and of a word.
Sign(byte) == Set(byte >= 128)
WordSign(word) == Set(word >= 32768)

High(word) == word \div 256
Low(word) == word % 256
Nibble(x) == x % 16

\* The bits of a byte that are 1, and the byte that has these bits.
BitsOf(byte) == {i \in 0 .. 7 : (byte \div 2^i) % 2 = 1}
OfBits(bits) ==
  LET bit(i) == IF i \in bits THEN 2^i ELSE 0
  IN  bit(0) + bit(1) + bit(2) + bit(3) + bit(4) + bit(5) + bit(6) + bit(7)

And(x, y) == OfBits(BitsOf(x) \cap BitsOf(y))
Or(x, y) == OfBits(BitsOf(x) \cup BitsOf(y))
Xor(x, y) == OfBits((BitsOf(x) \cup BitsOf(y)) \ (BitsOf(x) \cap BitsOf(y)))

\* 1 when the number of 1 bits is even.
parity(byte) == Set(Cardinality(BitsOf(byte)) % 2 = 0)

----------------------------------------------------------------------------
(* Additions and subtractions of bytes.  A result is the byte and the flags *)
(* after it; z, s and p always describe the byte.                           *)

\* The 16 bits of res hold the byte and, above it, the carry or the borrow.
ArithFlagsA(cc, res, ac, v) ==
  [cy |-> Set(res > 255), z |-> Set(res % 256 = 0), s |-> Sign(res % 256),
   p |-> parity(res % 256), ac |-> ac, v |-> v, x5 |-> cc.x5]

\* Carry is cleared, ac is the caller's.
LogicFlagsA(cc, byte, ac) ==
  [cy |-> 0, z |-> Set(byte = 0), s |-> Sign(byte),
   p |-> parity(byte), ac |-> ac, v |-> cc.v, x5 |-> cc.x5]

\* Overflow: the result has not the sign that its operands have in common; in a
\* subtraction, the sign of its first operand, where the second has the other.
AddOverflow(lhs, rhs, byte) == Set(Sign(lhs) = Sign(rhs) /\ Sign(byte) # Sign(lhs))
SubOverflow(lhs, rhs, byte) == Set(Sign(lhs) # Sign(rhs) /\ Sign(byte) # Sign(lhs))

AddWith(cc, lhs, rhs, carry) ==
  LET res == lhs + rhs + carry
  IN  [byte |-> res % 256,
       cc |-> ArithFlagsA(cc, res, Set(Nibble(lhs) + Nibble(rhs) + carry > 15),
                          AddOverflow(lhs, rhs, res % 256))]

SubtractWith(cc, lhs, rhs, carry) ==
  LET res == (lhs - rhs - carry) % 65536
  IN  [byte |-> res % 256,
       cc |-> ArithFlagsA(cc, res, Set(Nibble(lhs) < Nibble(rhs) + carry),
                          SubOverflow(lhs, rhs, res % 256))]

addByte(cc, lhs, rhs) == AddWith(cc, lhs, rhs, 0)
addByteWithCarry(cc, lhs, rhs) == AddWith(cc, lhs, rhs, cc.cy)
subtractByte(cc, lhs, rhs) == SubtractWith(cc, lhs, rhs, 0)

subtractByteWithBorrow(cc, lhs, rhs) == SubtractWith(cc, lhs, rhs, cc.cy)

\* Fault: INR and DCR change the carry.
PreserveCarry_Updates(cc, result) == result

\* PRESERVE_CARRY: the result of INR and DCR.
PreserveCarry(cc, result) == [result EXCEPT !.cc.cy = cc.cy]

\* ADI and CPI compute their flags in place and leave v as it was.
Adi(cc, lhs, rhs) ==
  [byte |-> (lhs + rhs) % 256,
   cc |-> ArithFlagsA(cc, lhs + rhs, Set(Nibble(lhs) + Nibble(rhs) > 15), cc.v)]

Cpi(cc, lhs, rhs) ==
  ArithFlagsA(cc, (lhs - rhs) % 65536, Set(Nibble(lhs) < Nibble(rhs)), cc.v)

----------------------------------------------------------------------------
(* DAA, rotations and the undocumented word instructions *)

\* DAA adds 6 to a digit that is above 9 or has carried.
LowFix(cc, a) == IF Nibble(a) > 9 \/ cc.ac = 1 THEN 6 ELSE 0

HighFix(cc, a) == IF a > 153 \/ cc.cy = 1 THEN 96 ELSE 0

Daa(cc, a) ==
  LET res == (a + LowFix(cc, a) + HighFix(cc, a)) % 256
  IN  [byte |-> res,
       cc |-> [cy |-> Set(HighFix(cc, a) > 0), z |-> Set(res = 0), s |-> Sign(res),
               p |-> parity(res), ac |-> Set(Nibble(a) + LowFix(cc, a) > 15),
               v |-> cc.v, x5 |-> cc.x5]]

\* RLC, RRC, RAL, RAR.
RotateLeft(cc, a, bit) == [byte |-> ((2 * a) % 256) + bit, cc |-> [cc EXCEPT !.cy = Sign(a)]]
RotateRight(cc, a, bit) == [byte |-> (a \div 2) + 128 * bit, cc |-> [cc EXCEPT !.cy = a % 2]]

\* DAD.
AddWords(cc, hl, word) ==
  [word |-> (hl + word) % 65536, cc |-> [cc EXCEPT !.cy = Set(hl + word > 65535)]]

\* DSUB; its z and s describe the word, its p the low byte.
SubtractWords(cc, hl, bc) ==
  LET res == (hl - bc) % 65536
  IN  [word |-> res,
       cc |-> [cy |-> Set(hl < bc), z |-> Set(res = 0), s |-> WordSign(res), p |-> parity(Low(res)),
               ac |-> Set(Nibble(hl) < Nibble(bc)),
               v |-> Set(WordSign(hl) # WordSign(bc) /\ WordSign(res) # WordSign(hl)),
               x5 |-> cc.x5]]

\* ARHL keeps the sign, RDEL rotates through carry.
ShiftWordRight(cc, hl) ==
  [word |-> (hl \div 2) + 32768 * WordSign(hl), cc |-> [cc EXCEPT !.cy = hl % 2]]

RotateWordLeft(cc, de) ==
  LET res == ((2 * de) % 65536) + cc.cy
  IN  [word |-> res,
       cc |-> [cc EXCEPT !.cy = WordSign(de), !.v = Set(WordSign(de) # WordSign(res))]]

----------------------------------------------------------------------------
(* The flags as a byte: s z x5 ac 0 p v cy *)

\* Fault: the overflow flag is left out of the byte.
PswByte_NoV(cc) == 128 * cc.s + 64 * cc.z + 32 * cc.x5 + 16 * cc.ac + 4 * cc.p + cc.cy

PswByte(cc) == 128 * cc.s + 64 * cc.z + 32 * cc.x5 + 16 * cc.ac + 4 * cc.p + 2 * cc.v + cc.cy

FlagsOf(psw) ==
  LET bit(i) == (psw \div 2^i) % 2
  IN  [cy |-> bit(0), v |-> bit(1), p |-> bit(2), ac |-> bit(4), x5 |-> bit(5),
       z |-> bit(6), s |-> bit(7)]

\* The condition of a jump, call or return, by the number in its opcode.
Condition(cc, n) ==
  CASE n = 0 -> cc.z = 0
    [] n = 1 -> cc.z = 1
    [] n = 2 -> cc.cy = 0
    [] n = 3 -> cc.cy = 1
    [] n = 4 -> cc.p = 0
    [] n = 5 -> cc.p = 1
    [] n = 6 -> cc.s = 0
    [] OTHER -> cc.s = 1
============================================================================
