------------------------ MODULE InstructionSet_proofs ------------------------
(***************************************************************************)
(* What the arithmetic of the processor amounts to, for every operand and  *)
(* every state of the flags: the flags hold what a program that compares,  *)
(* or that computes on several bytes or on decimal digits, relies on.      *)
(* Then that protected regions keep their contents, for every program,     *)
(* every board of memory plugins and every number of interrupts: whatever  *)
(* an instruction stores passes the plugins.  That registers, flags,       *)
(* pointers and memory bytes keep their widths; that the debugger's        *)
(* packets show and set the registers as they are; and that the programs   *)
(* of CarefulJobs do not notice their interrupts.                          *)
(***************************************************************************)
EXTENDS GdbRegisters, CarefulJobs, FiniteSetTheorems, WellFoundedInduction, TLAPS

\* A byte read as a two's complement number.
SignedByte(x) == IF x >= 128 THEN x - 256 ELSE x

----------------------------------------------------------------------------
(* One byte *)

\* A difference of bytes as 16 bits: the byte is the difference modulo 256, and
\* the upper bits are set exactly when it is negative.
LEMMA Borrow ==
  ASSUME NEW d \in Int, d >= -256, d <= 255
  PROVE  /\ (d % 65536) % 256 = IF d >= 0 THEN d ELSE d + 256
         /\ d % 65536 > 255 <=> d < 0
<1>1. CASE d >= 0
  BY <1>1
<1>2. CASE d < 0
  <2>1. d % 65536 = d + 65536  BY <1>2
  <2>2. (d + 65536) % 256 = d + 256  BY <1>2
  <2> QED  BY <1>2, <2>1, <2>2
<1> QED  BY <1>1, <1>2

\* The carry after an addition or a subtraction is a flag again.
LEMMA CarryIsFlag ==
  ASSUME NEW cc, NEW lhs, NEW rhs, NEW carry
  PROVE  /\ AddWith(cc, lhs, rhs, carry).cc.cy \in Flag
         /\ SubtractWith(cc, lhs, rhs, carry).cc.cy \in Flag
<1>1. AddWith(cc, lhs, rhs, carry).cc.cy \in Flag
  BY DEF AddWith, ArithFlagsA, Set, Flag
<1>2. SubtractWith(cc, lhs, rhs, carry).cc.cy \in Flag
  BY DEF SubtractWith, ArithFlagsA, Set, Flag
<1> QED  BY <1>1, <1>2

\* An addition with carry loses nothing: the byte and the carry together are
\* the sum of the operands and the carry before (75-91).
THEOREM AdditionExact ==
  ASSUME NEW cc, NEW lhs \in Byte, NEW rhs \in Byte, NEW carry \in Flag
  PROVE  LET r == AddWith(cc, lhs, rhs, carry)
         IN  r.byte \in Byte /\ r.byte + 256 * r.cc.cy = lhs + rhs + carry
<1> DEFINE res == lhs + rhs + carry
           r == AddWith(cc, lhs, rhs, carry)
<1>1. res \in Nat /\ res <= 511  BY DEF Byte, Flag
<1>2. r.byte = res % 256
  BY DEF AddWith
<1>3. r.cc.cy = IF res > 255 THEN 1 ELSE 0
  BY DEF AddWith, ArithFlagsA, Set
<1> HIDE DEF res, r
<1>4. r.byte \in Byte /\ r.byte + 256 * r.cc.cy = res
  BY <1>1, <1>2, <1>3 DEF Byte
<1> QED  BY <1>4 DEF res, r

\* A subtraction with borrow likewise (93-109).
THEOREM SubtractionExact ==
  ASSUME NEW cc, NEW lhs \in Byte, NEW rhs \in Byte, NEW carry \in Flag
  PROVE  LET r == SubtractWith(cc, lhs, rhs, carry)
         IN  r.byte \in Byte /\ r.byte - 256 * r.cc.cy = lhs - rhs - carry
<1> DEFINE d == lhs - rhs - carry
           r == SubtractWith(cc, lhs, rhs, carry)
<1>1. d \in Int /\ d >= -256 /\ d <= 255  BY DEF Flag, Byte
<1>2. r.byte = (d % 65536) % 256
  BY DEF SubtractWith
<1>3. r.cc.cy = IF d % 65536 > 255 THEN 1 ELSE 0
  BY DEF SubtractWith, ArithFlagsA, Set
<1> HIDE DEF d, r
<1>4. r.byte \in Byte /\ r.byte - 256 * r.cc.cy = d
  BY <1>1, <1>2, <1>3, Borrow DEF Byte
<1> QED  BY <1>4 DEF d, r

\* After CMP the sign and the overflow flag tell the order of the operands as
\* signed numbers, which is what the overflow flag is for (subtractByte, 93).
THEOREM SignedOrder ==
  ASSUME NEW cc, NEW lhs \in Byte, NEW rhs \in Byte
  PROVE  LET f == subtractByte(cc, lhs, rhs).cc
         IN  f.s # f.v <=> SignedByte(lhs) < SignedByte(rhs)
<1> DEFINE d == lhs - rhs - 0
           f == subtractByte(cc, lhs, rhs).cc
           byte == (d % 65536) % 256
<1>1. d \in Int /\ d >= -255 /\ d <= 255 /\ d = lhs - rhs  BY DEF Byte
<1>2. f.s = Sign(byte)
  BY DEF subtractByte, SubtractWith, ArithFlagsA
<1>3. f.v = SubOverflow(lhs, rhs, byte)
  BY DEF subtractByte, SubtractWith, ArithFlagsA
<1>4. byte = IF d >= 0 THEN d ELSE d + 256
  BY <1>1, Borrow
<1> HIDE DEF d, f, byte
<1>5. f.s # f.v <=> SignedByte(lhs) < SignedByte(rhs)
  BY <1>1, <1>2, <1>3, <1>4 DEF Sign, SubOverflow, Set, SignedByte, Byte
<1> QED  BY <1>5 DEF f

----------------------------------------------------------------------------
(* Two bytes *)

LEMMA WordRange ==
  ASSUME NEW x \in Word
  PROVE  x \in Int /\ 0 <= x /\ x < 65536
<1>1. WordMax \in Int /\ WordMax < 65536
  BY DEF WordMax
<1> QED
  BY <1>1 DEF Word

\* A word is its two bytes, and only they make it.
LEMMA WordBytes ==
  ASSUME NEW x \in Word
  PROVE  High(x) \in Byte /\ Low(x) \in Byte /\ x = 256 * High(x) + Low(x)
<1>1. x \in Int /\ 0 <= x /\ x < 65536
  BY WordRange
<1>2. /\ x % 256 \in Int /\ 0 <= x % 256 /\ x % 256 <= 255
      /\ x \div 256 \in Int /\ x = 256 * (x \div 256) + (x % 256)
  BY <1>1
<1>3. 0 <= x \div 256 /\ x \div 256 <= 255
  BY <1>1, <1>2
<1>4. QED
  BY <1>1, <1>2, <1>3 DEF Byte, High, Low

\* A sum and a difference of words that are known with their carry, in plain numbers.
LEMMA SumModulo ==
  ASSUME NEW word \in Int, NEW carry \in Int, NEW sum \in Int,
         0 <= word, word < 65536, 0 <= carry, carry <= 1, word + 65536 * carry = sum
  PROVE  word = sum % 65536 /\ (carry = IF sum > 65535 THEN 1 ELSE 0)
<1>1. CASE carry = 0
  BY <1>1
<1>2. CASE carry = 1
  BY <1>2
<1> QED  BY <1>1, <1>2

LEMMA DifferenceModulo ==
  ASSUME NEW word \in Int, NEW borrow \in Int, NEW difference \in Int,
         0 <= word, word < 65536, 0 <= borrow, borrow <= 1, word - 65536 * borrow = difference
  PROVE  word = difference % 65536 /\ (borrow = IF difference < 0 THEN 1 ELSE 0)
<1>1. CASE borrow = 0
  BY <1>1
<1>2. CASE borrow = 1
  BY <1>2
<1> QED  BY <1>1, <1>2

LEMMA SumOfBytes ==
  ASSUME NEW xl \in Int, NEW xh \in Int, NEW yl \in Int, NEW yh \in Int,
         NEW lb \in Int, NEW hb \in Int, NEW lc \in Int, NEW hc \in Int,
         lb + 256 * lc = xl + yl, hb + 256 * hc = xh + yh + lc
  PROVE  256 * hb + lb + 65536 * hc = (256 * xh + xl) + (256 * yh + yl)
  OBVIOUS

LEMMA DifferenceOfBytes ==
  ASSUME NEW xl \in Int, NEW xh \in Int, NEW yl \in Int, NEW yh \in Int,
         NEW lb \in Int, NEW hb \in Int, NEW lc \in Int, NEW hc \in Int,
         lb - 256 * lc = xl - yl, hb - 256 * hc = xh - yh - lc
  PROVE  256 * hb + lb - 65536 * hc = (256 * xh + xl) - (256 * yh + yl)
  OBVIOUS

LEMMA SignOfWord ==
  ASSUME NEW h \in Byte, NEW l \in Byte
  PROVE  WordSign(256 * h + l) = Sign(h)
  BY DEF Byte, WordSign, Sign, Set

\* Bytes and flags as integers.
LEMMA ByteRange == \A x \in Byte : x \in Int /\ 0 <= x /\ x <= 255
  BY DEF Byte

LEMMA FlagRange == \A x \in Flag : x \in Int /\ 0 <= x /\ x <= 1
  BY DEF Flag

\* Adding words byte by byte, ADD on the low and ADC on the high bytes, gives the
\* word and the carry of DAD (75-91, 259).
THEOREM WordAddition ==
  ASSUME NEW cc \in Flags, NEW x \in Word, NEW y \in Word
  PROVE  LET lo == addByte(cc, Low(x), Low(y))
             hi == addByteWithCarry(lo.cc, High(x), High(y))
             dad == AddWords(cc, x, y)
         IN  256 * hi.byte + lo.byte = dad.word /\ hi.cc.cy = dad.cc.cy
<1> DEFINE xl == Low(x)  xh == High(x)  yl == Low(y)  yh == High(y)
<1>1. /\ xl \in Byte /\ xh \in Byte /\ yl \in Byte /\ yh \in Byte
      /\ x = 256 * xh + xl /\ y = 256 * yh + yl
  BY WordBytes
<1>2. 0 \in Flag  BY DEF Flag
<1> HIDE DEF xl, xh, yl, yh
<1> DEFINE lo == AddWith(cc, xl, yl, 0)
           hi == AddWith(lo.cc, xh, yh, lo.cc.cy)
           dad == AddWords(cc, x, y)
<1>3. lo.cc.cy \in Flag /\ hi.cc.cy \in Flag
  BY CarryIsFlag
<1>4. lo.byte \in Byte /\ lo.byte + 256 * lo.cc.cy = xl + yl + 0
  BY <1>1, <1>2, AdditionExact
<1> HIDE DEF lo
<1>5. hi.byte \in Byte /\ hi.byte + 256 * hi.cc.cy = xh + yh + lo.cc.cy
  BY <1>1, <1>3, AdditionExact
<1> HIDE DEF hi
<1>6. dad.word = (x + y) % 65536
  BY DEF AddWords
<1>7. dad.cc.cy = IF x + y > 65535 THEN 1 ELSE 0
  BY DEF AddWords, Flags, Set
<1> HIDE DEF dad
<1>8. lo.byte + 256 * lo.cc.cy = xl + yl
  BY <1>1, <1>4 DEF Byte
<1> DEFINE lb == lo.byte  lc == lo.cc.cy  hb == hi.byte  hc == hi.cc.cy
           word == 256 * hb + lb
<1>9. /\ xl \in Int /\ xh \in Int /\ yl \in Int /\ yh \in Int
      /\ lb \in Int /\ hb \in Int /\ lc \in Int /\ hc \in Int
      /\ 0 <= lb /\ lb <= 255 /\ 0 <= hb /\ hb <= 255 /\ 0 <= hc /\ hc <= 1
  BY <1>1, <1>3, <1>4, <1>5, ByteRange, FlagRange
<1>10. lb + 256 * lc = xl + yl /\ hb + 256 * hc = xh + yh + lc
  BY <1>5, <1>8
<1> HIDE DEF lb, lc, hb, hc
<1>11. word + 65536 * hc = x + y /\ word \in Int /\ 0 <= word /\ word < 65536 /\ x + y \in Int
  <2>1. word + 65536 * hc = (256 * xh + xl) + (256 * yh + yl)
    BY <1>9, <1>10, SumOfBytes
  <2> QED  BY <1>1, <1>9, <2>1
<1> HIDE DEF word
<1>12. word = dad.word /\ hc = dad.cc.cy
  BY <1>6, <1>7, <1>9, <1>11, SumModulo
<1> QED  BY <1>12, Zenon DEF lo, hi, dad, lb, hb, hc, word, xl, xh, yl, yh, addByte, addByteWithCarry

\* Subtracting words byte by byte, SUB and SBB, gives the word of the undocumented
\* DSUB and its carry, sign and overflow (93-109, 238).
THEOREM WordSubtraction ==
  ASSUME NEW cc \in Flags, NEW x \in Word, NEW y \in Word
  PROVE  LET lo == subtractByte(cc, Low(x), Low(y))
             hi == subtractByteWithBorrow(lo.cc, High(x), High(y))
             dsub == SubtractWords(cc, x, y)
         IN  /\ 256 * hi.byte + lo.byte = dsub.word
             /\ hi.cc.cy = dsub.cc.cy /\ hi.cc.s = dsub.cc.s /\ hi.cc.v = dsub.cc.v
<1>0. x - y < 0 <=> x < y
  <2>1. x \in Int /\ y \in Int
    BY WordRange
  <2>2. QED
    BY <2>1
<1> DEFINE xl == Low(x)  xh == High(x)  yl == Low(y)  yh == High(y)
<1>1. /\ xl \in Byte /\ xh \in Byte /\ yl \in Byte /\ yh \in Byte
      /\ x = 256 * xh + xl /\ y = 256 * yh + yl
  BY WordBytes
<1>2. 0 \in Flag  BY DEF Flag
<1> HIDE DEF xl, xh, yl, yh
<1> DEFINE lo == SubtractWith(cc, xl, yl, 0)
           hi == SubtractWith(lo.cc, xh, yh, lo.cc.cy)
           dsub == SubtractWords(cc, x, y)
<1>3. lo.cc.cy \in Flag /\ hi.cc.cy \in Flag
  BY CarryIsFlag
<1>4. lo.byte \in Byte /\ lo.byte - 256 * lo.cc.cy = xl - yl - 0
  BY <1>1, <1>2, SubtractionExact
<1> HIDE DEF lo
<1>5. hi.byte \in Byte /\ hi.byte - 256 * hi.cc.cy = xh - yh - lo.cc.cy
  BY <1>1, <1>3, SubtractionExact
<1>6. hi.cc.s = Sign(hi.byte)
  BY DEF SubtractWith, ArithFlagsA
<1>7. hi.cc.v = SubOverflow(xh, yh, hi.byte)
  BY DEF SubtractWith, ArithFlagsA
<1> HIDE DEF hi
<1>8. dsub.word = (x - y) % 65536
  BY DEF SubtractWords
<1>9. dsub.cc.cy = IF x < y THEN 1 ELSE 0
  BY DEF SubtractWords, Set
<1>10. dsub.cc.s = WordSign(dsub.word)
  BY DEF SubtractWords
<1>11. dsub.cc.v = Set(WordSign(x) # WordSign(y) /\ WordSign(dsub.word) # WordSign(x))
  BY DEF SubtractWords
<1> HIDE DEF dsub
<1>12. lo.byte - 256 * lo.cc.cy = xl - yl
  BY <1>1, <1>4 DEF Byte
<1> DEFINE lb == lo.byte  lc == lo.cc.cy  hb == hi.byte  hc == hi.cc.cy
           word == 256 * hb + lb
<1>13. /\ xl \in Int /\ xh \in Int /\ yl \in Int /\ yh \in Int
       /\ lb \in Int /\ hb \in Int /\ lc \in Int /\ hc \in Int
       /\ 0 <= lb /\ lb <= 255 /\ 0 <= hb /\ hb <= 255 /\ 0 <= hc /\ hc <= 1
  BY <1>1, <1>3, <1>4, <1>5, ByteRange, FlagRange
<1>14. lb - 256 * lc = xl - yl /\ hb - 256 * hc = xh - yh - lc
  BY <1>5, <1>12
<1>15. hb \in Byte /\ lb \in Byte  BY <1>4, <1>5
<1>16. hi.cc.s = Sign(hb) /\ hi.cc.v = SubOverflow(xh, yh, hb)  BY <1>6, <1>7
<1> HIDE DEF lb, lc, hb, hc
<1>17. word - 65536 * hc = x - y /\ word \in Int /\ 0 <= word /\ word < 65536 /\ x - y \in Int
  <2>1. word - 65536 * hc = (256 * xh + xl) - (256 * yh + yl)
    BY <1>13, <1>14, DifferenceOfBytes
  <2> QED  BY <1>1, <1>13, <2>1
<1>18. WordSign(word) = Sign(hb) /\ WordSign(x) = Sign(xh) /\ WordSign(y) = Sign(yh)
  BY <1>1, <1>15, SignOfWord
<1> HIDE DEF word
<1>19. word = (x - y) % 65536 /\ (hc = IF x - y < 0 THEN 1 ELSE 0)
  BY <1>13, <1>17, DifferenceModulo
<1>20. x - y < 0 <=> x < y
  BY <1>0
<1>21. word = dsub.word /\ hc = dsub.cc.cy
  BY <1>8, <1>9, <1>19, <1>20
<1>22. hi.cc.s = dsub.cc.s
  BY <1>10, <1>16, <1>18, <1>21
<1>23. hi.cc.v = dsub.cc.v
  BY <1>11, <1>16, <1>18, <1>21 DEF SubOverflow
<1> QED
  BY <1>21, <1>22, <1>23, Zenon
  DEF lo, hi, dsub, lb, hb, hc, word, xl, xh, yl, yh, subtractByte, subtractByteWithBorrow

----------------------------------------------------------------------------
(* Decimal digits *)

Packed == {x \in Byte : x \div 16 <= 9 /\ Nibble(x) <= 9}
Decimal(x) == 10 * (x \div 16) + Nibble(x)

\* The correction of a sum of digits in plain numbers: b and c are the byte and
\* the carry of the binary sum, h and t the sums of the high and the low digits.
LEMMA Correction ==
  ASSUME NEW h \in Int, NEW t \in Int, NEW b \in Int, NEW c \in Int,
         NEW low \in {0, 6}, NEW high \in {0, 96},
         0 <= h, h <= 18, 0 <= t, t <= 19, 0 <= b, b <= 255, 0 <= c, c <= 1,
         b + 256 * c = 16 * h + t,
         low = 6 <=> (b % 16 > 9 \/ t > 15), high = 96 <=> (b > 153 \/ c = 1)
  PROVE  LET k == IF low = 6 THEN 1 ELSE 0
             q == IF high = 96 THEN 1 ELSE 0
         IN  /\ (b + low + high) % 256 = 16 * (h + k - 10 * q) + (t - 10 * k)
             /\ h + k - 10 * q \in 0 .. 9 /\ t - 10 * k \in 0 .. 9
<1> DEFINE k == IF low = 6 THEN 1 ELSE 0
           q == IF high = 96 THEN 1 ELSE 0
<1>1. low = 6 <=> t >= 10
  <2>1. CASE t <= 15
    <3>1. b % 16 = t  BY <2>1
    <3> QED  BY <2>1, <3>1
  <2>2. CASE t > 15
    BY <2>2
  <2> QED  BY <2>1, <2>2
<1>2. high = 96 <=> h + k >= 10
  BY <1>1
<1>3. /\ h + k - 10 * q \in Int /\ 0 <= h + k - 10 * q /\ h + k - 10 * q <= 9
      /\ t - 10 * k \in Int /\ 0 <= t - 10 * k /\ t - 10 * k <= 9
  BY <1>1, <1>2
<1>4. low = 6 * k /\ high = 96 * q
  OBVIOUS
<1>5. (b + low + high) % 256 = 16 * (h + k - 10 * q) + (t - 10 * k)
  <2> DEFINE res == 16 * (h + k - 10 * q) + (t - 10 * k)
  <2>1. b + low + high = res + 256 * (q - c)
    BY <1>4
  <2>2. res \in Int /\ 0 <= res /\ res <= 255 /\ q - c \in Int
    BY <1>3
  <2>3. q - c \in {-1, 0, 1}
    OBVIOUS
  <2> HIDE DEF res, q
  <2>4. (res + 256 * (q - c)) % 256 = res
    BY <2>2, <2>3
  <2> QED  BY <2>1, <2>4 DEF res
<1> QED  BY <1>3, <1>5

\* Adding packed decimals and correcting with DAA gives the decimal sum, with the
\* hundred in the carry: the auxiliary carry tells DAA what it needs (453).
THEOREM DecimalAddition ==
  ASSUME NEW cc, NEW x \in Packed, NEW y \in Packed, NEW carry \in Flag
  PROVE  LET r == AddWith(cc, x, y, carry)
             d == Daa(r.cc, r.byte)
         IN  /\ d.byte \in Packed
             /\ Decimal(d.byte) + 100 * d.cc.cy = Decimal(x) + Decimal(y) + carry
<1> DEFINE xh == x \div 16  xl == Nibble(x)
           yh == y \div 16  yl == Nibble(y)
           r == AddWith(cc, x, y, carry)
           d == Daa(r.cc, r.byte)
<1>1. /\ xh \in Int /\ 0 <= xh /\ xh <= 9 /\ xl \in Int /\ 0 <= xl /\ xl <= 9
      /\ x = 16 * xh + xl
  BY DEF Packed, Byte, Nibble
<1>2. /\ yh \in Int /\ 0 <= yh /\ yh <= 9 /\ yl \in Int /\ 0 <= yl /\ yl <= 9
      /\ y = 16 * yh + yl
  BY DEF Packed, Byte, Nibble
<1>3. x \in Byte /\ y \in Byte
  BY DEF Packed
<1>4. r.byte \in Byte /\ r.byte + 256 * r.cc.cy = x + y + carry
  BY <1>3, AdditionExact
<1>5. r.cc.cy \in Flag
  BY CarryIsFlag
<1>6. r.cc.ac = IF xl + yl + carry > 15 THEN 1 ELSE 0
  BY DEF AddWith, ArithFlagsA, Set
<1> HIDE DEF r
<1> DEFINE b == r.byte  c == r.cc.cy  low == LowFix(r.cc, b)  high == HighFix(r.cc, b)
           h == xh + yh  t == xl + yl + carry
<1>7. d.byte = (b + low + high) % 256
  BY DEF Daa
<1>8. d.cc.cy = IF high > 0 THEN 1 ELSE 0
  BY DEF Daa, Set
<1> HIDE DEF d
<1>9. /\ low \in {0, 6} /\ (low = 6 <=> (b % 16 > 9 \/ t > 15))
  BY <1>6 DEF LowFix, Nibble
<1>10. high \in {0, 96} /\ (high = 96 <=> (b > 153 \/ c = 1))
  BY DEF HighFix
<1>11. /\ b \in Int /\ 0 <= b /\ b <= 255 /\ c \in Int /\ 0 <= c /\ c <= 1
       /\ carry \in Int /\ 0 <= carry /\ carry <= 1
  BY <1>4, <1>5, ByteRange, FlagRange
<1> HIDE DEF xh, xl, yh, yl, b, c, low, high
<1>12. b + 256 * c = 16 * h + t
  BY <1>1, <1>2, <1>4, <1>11 DEF b, c
<1>13. h \in Int /\ 0 <= h /\ h <= 18 /\ t \in Int /\ 0 <= t /\ t <= 19
  BY <1>1, <1>2, <1>11
<1> HIDE DEF h, t
<1> DEFINE k == IF low = 6 THEN 1 ELSE 0
           q == IF high = 96 THEN 1 ELSE 0
           dh == h + k - 10 * q
           dl == t - 10 * k
<1>14. d.byte = 16 * dh + dl /\ dh \in 0 .. 9 /\ dl \in 0 .. 9
  BY <1>7, <1>9, <1>10, <1>11, <1>12, <1>13, Correction
<1>15. d.cc.cy = q /\ q \in 0 .. 1 /\ k \in 0 .. 1
  BY <1>8, <1>10
<1>16. 10 * dh + dl + 100 * q = 10 * h + t
  BY <1>9, <1>10, <1>13
<1>17. 10 * h + t = (10 * xh + xl) + (10 * yh + yl) + carry
  BY <1>1, <1>2, <1>11 DEF h, t
<1> HIDE DEF dh, dl, q, k
<1>18. d.byte \in Packed /\ Decimal(d.byte) = 10 * dh + dl
  BY <1>14 DEF Packed, Decimal, Byte, Nibble
<1>19. Decimal(x) = 10 * xh + xl /\ Decimal(y) = 10 * yh + yl
  BY DEF Decimal, xh, xl, yh, yl
<1>20. Decimal(d.byte) + 100 * d.cc.cy = Decimal(x) + Decimal(y) + carry
  BY <1>15, <1>16, <1>17, <1>18, <1>19
<1> QED  BY <1>18, <1>20, Zenon DEF r, d

----------------------------------------------------------------------------
(* Protected memory *)

\* The memory of s agrees with an image on every protected byte.
Intact(s, image) ==
  /\ "mem" \in DOMAIN s
  /\ \A x \in DOMAIN s.mem : Protected(x) => x \in DOMAIN image /\ s.mem[x] = image[x]

----------------------------------------------------------------------------
(* Helpers *)

\* The write path: the only operation that changes memory.
LEMMA MemWrIntact ==
  ASSUME NEW s, NEW image, NEW addr, NEW val, Intact(s, image)
  PROVE  Intact(mem_wr(s, addr, val), image)
<1> DEFINE at == addr % 65536
           new == [x \in DOMAIN s.mem \cup {at} |-> IF x = at THEN val ELSE s.mem[x]]
<1>1. CASE Protected(at)
  BY <1>1 DEF mem_wr
<1>2. CASE ~Protected(at)
  <2>1. mem_wr(s, addr, val) = [s EXCEPT !.mem = new]
    BY <1>2 DEF mem_wr, Store
  <2>2. \A x \in DOMAIN new : Protected(x) => x \in DOMAIN image /\ new[x] = image[x]
    BY <1>2 DEF Intact
  <2> HIDE DEF new
  <2>3. Intact([s EXCEPT !.mem = new], image)
    BY <2>2 DEF Intact
  <2> QED  BY <2>1, <2>3
<1> QED  BY <1>1, <1>2

\* Every other field may change.
LEMMA FieldIntact ==
  ASSUME NEW s, NEW image, NEW field, NEW val, field # "mem", Intact(s, image)
  PROVE  Intact([s EXCEPT ![field] = val], image)
BY DEF Intact

LEMMA StoreWordIntact ==
  ASSUME NEW s, NEW image, NEW addr, NEW word, Intact(s, image)
  PROVE  Intact(StoreWord(s, addr, word), image)
BY MemWrIntact DEF StoreWord

LEMMA PushIntact ==
  ASSUME NEW s, NEW image, NEW word, Intact(s, image)
  PROVE  Intact(Push(s, word), image)
<1> DEFINE one == mem_wr(s, s.sp - 1, High(word))
           two == mem_wr(one, s.sp - 2, Low(word))
<1>1. Intact(one, image)  BY MemWrIntact
<1>2. Intact(two, image)  BY <1>1, MemWrIntact
<1>3. Push(s, word) = [two EXCEPT !.sp = (@ - 2) % 65536]  BY DEF Push
<1> HIDE DEF two
<1> QED  BY <1>2, <1>3 DEF Intact

LEMMA SetPairIntact ==
  ASSUME NEW s, NEW image, NEW n, NEW word, Intact(s, image)
  PROVE  Intact(SetPair(s, n, word), image)
BY DEF Intact, SetPair

LEMMA SkipIntact ==
  ASSUME NEW s, NEW image, NEW n, Intact(s, image)
  PROVE  Intact(Skip(s, n), image)
BY DEF Intact, Skip

LEMMA AssignIntact ==
  ASSUME NEW s, NEW image, NEW n, NEW byte, Intact(s, image)
  PROVE  Intact(Assign(s, n, byte), image)
<1>1. CASE n = 6
  BY <1>1, MemWrIntact DEF Assign
<1>2. CASE n # 6
  BY <1>2 DEF Assign, Intact
<1> QED  BY <1>1, <1>2

LEMMA AccumulateIntact ==
  ASSUME NEW s, NEW image, NEW result, Intact(s, image)
  PROVE  Intact(Accumulate(s, result), image)
BY DEF Intact, Accumulate

LEMMA SetWordIntact ==
  ASSUME NEW s, NEW image, NEW n, NEW result, Intact(s, image)
  PROVE  Intact(SetWord(s, n, result), image)
<1>1. Intact(SetPair(s, n, result.word), image)  BY SetPairIntact
<1> QED  BY <1>1 DEF Intact, SetWord

LEMMA LogicIntact ==
  ASSUME NEW s, NEW image, NEW byte, NEW ac, Intact(s, image)
  PROVE  Intact(Logic(s, byte, ac), image)
BY DEF Intact, Logic

----------------------------------------------------------------------------
(* Opcodes 00-3F *)

LEMMA SpecialIntact ==
  ASSUME NEW s, NEW image, NEW y, NEW imm, Intact(s, image)
  PROVE  Intact(Special(s, y, imm), image)
<1> \A n, result : Intact(SetWord(s, n, result), image)  BY SetWordIntact
<1> \A n, word : Intact(SetPair(s, n, word), image)  BY SetPairIntact
<1> \A n, word : Intact(Skip(SetPair(s, n, word), 1), image)  BY SkipIntact
<1> QED  BY DEF Special

LEMMA LoadStoreIntact ==
  ASSUME NEW s, NEW image, NEW y, NEW word, NEW beyond, Intact(s, image)
  PROVE  Intact(LoadStore(s, y, word, beyond), image)
<1> \A addr, val : Intact(mem_wr(s, addr, val), image)  BY MemWrIntact
<1> \A addr, val : Intact(Skip(mem_wr(s, addr, val), 2), image)  BY SkipIntact
<1> \A addr, w : Intact(Skip(StoreWord(s, addr, w), 2), image)  BY StoreWordIntact, SkipIntact
<1> \A n, w : Intact(Skip(SetPair(s, n, w), 2), image)  BY SetPairIntact, SkipIntact
<1>1. \A val : Intact([s EXCEPT !.r["a"] = val], image)  BY DEF Intact
<1>2. Intact(Skip(s, 2), image)  BY SkipIntact
<1>3. \A val : Intact([Skip(s, 2) EXCEPT !.r["a"] = val], image)  BY <1>2 DEF Intact
<1> QED  BY <1>1, <1>3 DEF LoadStore

LEMMA StepPairIntact ==
  ASSUME NEW s, NEW image, NEW n, NEW by, Intact(s, image)
  PROVE  Intact(StepPair(s, n, by), image)
<1> DEFINE word == (Pair(s, n) + by) % 65536
           x5 == Set(word = IF by = 1 THEN 0 ELSE 65535)
<1>1. Intact(SetPair(s, n, word), image)  BY SetPairIntact
<1>2. StepPair(s, n, by) = [SetPair(s, n, word) EXCEPT !.cc.x5 = x5]  BY DEF StepPair
<1> HIDE DEF word, x5
<1> QED  BY <1>1, <1>2 DEF Intact

LEMMA CountIntact ==
  ASSUME NEW s, NEW image, NEW n, Intact(s, image)
  PROVE  Intact(Increment(s, n), image) /\ Intact(Decrement(s, n), image)
<1>1. \A cc : Intact([s EXCEPT !.cc = cc], image)  BY DEF Intact
<1>2. \A cc, byte : Intact(Assign([s EXCEPT !.cc = cc], n, byte), image)  BY <1>1, AssignIntact
<1> QED  BY <1>2 DEF Increment, Decrement

LEMMA AdjustIntact ==
  ASSUME NEW s, NEW image, NEW y, Intact(s, image)
  PROVE  Intact(Adjust(s, y), image)
<1> \A result : Intact(Accumulate(s, result), image)  BY AccumulateIntact
<1>1. \A val : Intact([s EXCEPT !.r["a"] = val], image)  BY DEF Intact
<1>2. \A val : Intact([s EXCEPT !.cc.cy = val], image)  BY DEF Intact
<1> QED  BY <1>1, <1>2 DEF Adjust

LEMMA FirstQuarterIntact ==
  ASSUME NEW s, NEW image, NEW y, NEW z, NEW imm, NEW word, NEW beyond, Intact(s, image)
  PROVE  Intact(FirstQuarter(s, y, z, imm, word, beyond), image)
<1> Intact(Special(s, y, imm), image)  BY SpecialIntact
<1> \A n : Intact(Skip(SetPair(s, n, word), 2), image)  BY SetPairIntact, SkipIntact
<1> \A n : Intact(DoubleAdd(s, n), image)  BY SetWordIntact DEF DoubleAdd
<1> Intact(LoadStore(s, y, word, beyond), image)  BY LoadStoreIntact
<1> \A n, by : Intact(StepPair(s, n, by), image)  BY StepPairIntact
<1> Intact(Increment(s, y), image) /\ Intact(Decrement(s, y), image)  BY CountIntact
<1> Intact(Skip(Assign(s, y, imm), 1), image)  BY AssignIntact, SkipIntact
<1> Intact(Adjust(s, y), image)  BY AdjustIntact
<1> QED  BY DEF FirstQuarter

----------------------------------------------------------------------------
(* Opcodes 40-BF *)

LEMMA MoveIntact ==
  ASSUME NEW s, NEW image, NEW y, NEW z, Intact(s, image)
  PROVE  Intact(Move(s, y, z), image)
<1>1. Intact([s EXCEPT !.hlt_enable = 1], image)  BY DEF Intact
<1>2. \A byte : Intact(Assign(s, y, byte), image)  BY AssignIntact
<1> QED  BY <1>1, <1>2 DEF Move

LEMMA ComputeIntact ==
  ASSUME NEW s, NEW image, NEW y, NEW x, Intact(s, image)
  PROVE  Intact(Compute(s, y, x), image)
<1> \A result : Intact(Accumulate(s, result), image)  BY AccumulateIntact
<1> \A byte, ac : Intact(Logic(s, byte, ac), image)  BY LogicIntact
<1>1. \A cc : Intact([s EXCEPT !.cc = cc], image)  BY DEF Intact
<1> QED  BY <1>1 DEF Compute

----------------------------------------------------------------------------
(* Opcodes C0-FF *)

LEMMA CallIntact ==
  ASSUME NEW s, NEW image, NEW addr, Intact(s, image)
  PROVE  Intact(call(s, addr), image) /\ Intact(rst(s, addr), image)
<1>1. \A word : Intact(Push(s, word), image)  BY PushIntact
<1>2. \A word : Intact([Push(s, word) EXCEPT !.pc = addr], image)  BY <1>1 DEF Intact
<1> QED  BY <1>2 DEF call, rst

LEMMA ReturnToCallerIntact ==
  ASSUME NEW s, NEW image, NEW beyond, Intact(s, image)
  PROVE  Intact(returnToCaller(s, beyond), image)
BY DEF Intact, returnToCaller

LEMMA JumpIntact ==
  ASSUME NEW s, NEW image, NEW taken, NEW word, Intact(s, image)
  PROVE  Intact(Jump(s, taken, word), image)
<1>1. Intact([s EXCEPT !.pc = word], image)  BY DEF Intact
<1>2. Intact(Skip(s, 2), image)  BY SkipIntact
<1> QED  BY <1>1, <1>2 DEF Jump

LEMMA PopIntact ==
  ASSUME NEW s, NEW image, NEW n, NEW beyond, Intact(s, image)
  PROVE  Intact(Pop(s, n, beyond), image)
<1>1. CASE n = 3
  BY <1>1 DEF Intact, Pop
<1>2. CASE n # 3
  <2>1. \A word : Intact(SetPair(s, n, word), image)  BY SetPairIntact
  <2>2. \A word : Intact([SetPair(s, n, word) EXCEPT !.sp = (@ + 2) % 65536], image)
    BY <2>1 DEF Intact
  <2> QED  BY <1>2, <2>2 DEF Pop
<1> QED  BY <1>1, <1>2

LEMMA ReturnIntact ==
  ASSUME NEW s, NEW image, NEW y, NEW beyond, Intact(s, image)
  PROVE  Intact(Return(s, y, beyond), image)
<1> Intact(returnToCaller(s, beyond), image)  BY ReturnToCallerIntact
<1> \A addr, word : Intact(StoreWord(s, addr, word), image)  BY StoreWordIntact
<1>1. \A word : Intact([s EXCEPT !.pc = word], image) /\ Intact([s EXCEPT !.sp = word], image)
  BY DEF Intact
<1> QED  BY <1>1 DEF Return

LEMMA ControlIntact ==
  ASSUME NEW s, NEW image, NEW y, NEW word, NEW beyond, Intact(s, image)
  PROVE  Intact(Control(s, y, word, beyond), image)
<1> Intact(Jump(s, TRUE, word), image)  BY JumpIntact
<1> Intact(RestartOnOverflow(s), image)  BY CallIntact DEF RestartOnOverflow
<1> Intact(ExchangeTop(s, beyond), image)  BY StoreWordIntact, SetPairIntact DEF ExchangeTop
<1> Intact(SetPair(SetPair(s, 1, HL(s)), 2, DE(s)), image)  BY SetPairIntact
<1> Intact(Core!DisableInterrupts(s), image)  BY DEF Intact, Core!DisableInterrupts
<1> Intact(Core!EnableInterrupts(s), image)  BY DEF Intact, Core!EnableInterrupts
<1> QED  BY DEF Control

LEMMA CallOrLoadIntact ==
  ASSUME NEW s, NEW image, NEW y, NEW word, NEW beyond, Intact(s, image)
  PROVE  Intact(CallOrLoad(s, y, word, beyond), image)
<1> Intact(call(s, word), image)  BY CallIntact
<1> \A taken : Intact(Jump(s, taken, word), image)  BY JumpIntact
<1> \A n, w : Intact(SetPair(s, n, w), image)  BY SetPairIntact
<1> QED  BY DEF CallOrLoad

LEMMA ComputeImmediateIntact ==
  ASSUME NEW s, NEW image, NEW y, NEW imm, Intact(s, image)
  PROVE  Intact(ComputeImmediate(s, y, imm), image)
<1> \A result : Intact(Accumulate(s, result), image)  BY AccumulateIntact
<1> Intact(Compute(s, y, imm), image)  BY ComputeIntact
<1>1. \A cc : Intact([s EXCEPT !.cc = cc], image)  BY DEF Intact
<1> QED  BY <1>1 DEF ComputeImmediate

LEMMA LastQuarterIntact ==
  ASSUME NEW s, NEW image, NEW y, NEW z, NEW imm, NEW word, NEW beyond, Intact(s, image)
  PROVE  Intact(LastQuarter(s, y, z, imm, word, beyond), image)
<1> Intact(returnToCaller(s, beyond), image)  BY ReturnToCallerIntact
<1> \A n : Intact(Pop(s, n, beyond), image)  BY PopIntact
<1> Intact(Return(s, y, beyond), image)  BY ReturnIntact
<1> \A taken : Intact(Jump(s, taken, word), image)  BY JumpIntact
<1> Intact(Control(s, y, word, beyond), image)  BY ControlIntact
<1> Intact(call(s, word), image) /\ Intact(Skip(s, 2), image)  BY CallIntact, SkipIntact
<1> \A n : Intact(PushPair(s, n), image)  BY PushIntact DEF PushPair
<1> Intact(CallOrLoad(s, y, word, beyond), image)  BY CallOrLoadIntact
<1> Intact(Skip(ComputeImmediate(s, y, imm), 1), image)  BY ComputeImmediateIntact, SkipIntact
<1> \A vector : Intact(rst(s, vector), image)  BY CallIntact
<1> QED  BY DEF LastQuarter

----------------------------------------------------------------------------
(* A call of Emulate8085Op, and every behaviour *)

LEMMA EmulateIntact ==
  ASSUME NEW s, NEW image, NEW beyond, Intact(s, image)
  PROVE  Intact(Emulate8085Op(s, beyond), image)
<1> DEFINE fetched == Skip(s, 1)
<1>1. Intact(fetched, image)  BY SkipIntact
<1> HIDE DEF fetched
<1>2. \A y, z, imm, word : Intact(FirstQuarter(fetched, y, z, imm, word, beyond), image)
  BY <1>1, FirstQuarterIntact
<1>3. \A y, z : Intact(Move(fetched, y, z), image)  BY <1>1, MoveIntact
<1>4. \A y, x : Intact(Compute(fetched, y, x), image)  BY <1>1, ComputeIntact
<1>5. \A y, z, imm, word : Intact(LastQuarter(fetched, y, z, imm, word, beyond), image)
  BY <1>1, LastQuarterIntact
<1>6. Intact(Execute(s, beyond), image)
  BY <1>2, <1>3, <1>4, <1>5 DEF Execute, fetched
<1> QED  BY <1>6 DEF Intact, Emulate8085Op, Core!EndDelay

LEMMA AcceptIntact ==
  ASSUME NEW s, NEW image, Intact(s, image)
  PROVE  Intact(Accept(s), image)
<1>1. Intact([s EXCEPT !.int_enable = 0], image)  BY DEF Intact
<1> QED  BY <1>1, CallIntact DEF Accept

IInv == Intact(m, job.image)

LEMMA StepIntact ==
  ASSUME IInv, [Next]_vars
  PROVE  IInv'
<1> USE DEF IInv
<1>1. CASE Proceed
  BY <1>1, EmulateIntact DEF Proceed
<1>2. CASE Interrupt
  BY <1>2, AcceptIntact, EmulateIntact DEF Interrupt
<1>3. CASE Handle
  BY <1>3, EmulateIntact DEF Handle
<1>4. CASE UNCHANGED vars
  BY <1>4 DEF vars, Intact, Protected
<1> QED  BY <1>1, <1>2, <1>3, <1>4 DEF Next, Step, Halted

\* Firmware cannot change a protected byte, whatever it executes and however its
\* regions are laid out (mem_wr, io_runtime_mem_write and the memory plugin).
THEOREM RomSafe == Spec => []RomKept
<1>1. Init => IInv
  BY DEF Init, Reset, IInv, Intact
<1>2. IInv /\ [Next]_vars => IInv'
  BY StepIntact
<1>3. IInv => RomKept
  BY DEF IInv, Intact, RomKept
<1> QED  BY <1>1, <1>2, <1>3, PTL DEF Spec


----------------------------------------------------------------------------
(***************************************************************************)
(* Widths: whatever an instruction does, registers stay bytes, flags bits, *)
(* pointers words and memory bytes at words.                               *)
(***************************************************************************)

LEMMA SetType == \A condition : Set(condition) \in Flag
BY DEF Set, Flag

\* The flags come out as flags, whatever went in.
LEMMA FlagsType ==
  ASSUME NEW cc \in Flags, NEW ac \in Flag, NEW v \in Flag, NEW n
  PROVE  ArithFlagsA(cc, n, ac, v) \in Flags /\ LogicFlagsA(cc, n, ac) \in Flags
<1>1. parity(n % 256) \in Flag /\ parity(n) \in Flag /\ Sign(n % 256) \in Flag /\ Sign(n) \in Flag
  BY SetType DEF parity, Sign
<1>2. cc.v \in Flag /\ cc.x5 \in Flag
  BY DEF Flags
<1>3. ArithFlagsA(cc, n, ac, v) \in Flags
  BY <1>1, <1>2, SetType DEF ArithFlagsA, Flags
<1>4. LogicFlagsA(cc, n, ac) \in Flags
  <2>1. 0 \in Flag
    BY DEF Flag
  <2>2. QED
    BY <1>1, <1>2, <2>1, SetType DEF LogicFlagsA, Flags
<1>5. QED
  BY <1>3, <1>4

\* A byte and flags.
Result(x) == x.byte \in Byte /\ x.cc \in Flags

LEMMA LowType == \A n \in Int : n % 256 \in Byte
BY DEF Byte

LEMMA InWord ==
  ASSUME NEW n \in Int, 0 <= n, n <= 65535
  PROVE  n \in Word
<1>1. WordMax \in Int /\ n <= WordMax
  BY DEF WordMax
<1>2. QED
  BY <1>1 DEF Word

LEMMA WordType == \A n \in Int : n % 65536 \in Word
BY InWord

LEMMA AddType ==
  ASSUME NEW cc \in Flags, NEW x \in Byte, NEW y \in Byte, NEW carry \in Flag
  PROVE  Result(AddWith(cc, x, y, carry)) /\ Result(SubtractWith(cc, x, y, carry))
<1> DEFINE sum == x + y + carry
           difference == (x - y - carry) % 65536
<1>1. sum \in Int /\ difference \in Int
  BY DEF Byte, Flag
<1> HIDE DEF sum, difference
<1>2. sum % 256 \in Byte /\ difference % 256 \in Byte
  BY <1>1, LowType
<1>3. \A ac, v \in Flag : ArithFlagsA(cc, sum, ac, v) \in Flags /\ ArithFlagsA(cc, difference, ac, v) \in Flags
  BY FlagsType
<1>4. Result(AddWith(cc, x, y, carry))
  BY <1>2, <1>3, SetType DEF AddWith, Result, sum, AddOverflow
<1>5. Result(SubtractWith(cc, x, y, carry))
  BY <1>2, <1>3, SetType DEF SubtractWith, Result, difference, SubOverflow
<1>6. QED
  BY <1>4, <1>5

LEMMA CarryField ==
  ASSUME NEW cc \in Flags, NEW v \in Flag
  PROVE  [cc EXCEPT !.cy = v] \in Flags /\ [cc EXCEPT !.v = v] \in Flags /\ [cc EXCEPT !.x5 = v] \in Flags
BY DEF Flags

LEMMA CountType ==
  ASSUME NEW cc \in Flags, NEW x \in Byte
  PROVE  /\ Result(PreserveCarry(cc, addByte(cc, x, 1)))
         /\ Result(PreserveCarry(cc, subtractByte(cc, x, 1)))
<1>1. 1 \in Byte /\ 0 \in Flag /\ cc.cy \in Flag
  BY DEF Byte, Flag, Flags
<1>2. Result(addByte(cc, x, 1)) /\ Result(subtractByte(cc, x, 1))
  BY <1>1, AddType DEF addByte, subtractByte
<1>3. ASSUME NEW f \in Flags, NEW b \in Byte
      PROVE  Result(PreserveCarry(cc, [byte |-> b, cc |-> f]))
  BY <1>1, CarryField DEF PreserveCarry, Result
<1>4. /\ addByte(cc, x, 1) = [byte |-> addByte(cc, x, 1).byte, cc |-> addByte(cc, x, 1).cc]
      /\ subtractByte(cc, x, 1) = [byte |-> subtractByte(cc, x, 1).byte, cc |-> subtractByte(cc, x, 1).cc]
  BY DEF addByte, subtractByte, AddWith, SubtractWith
<1>5. QED
  BY <1>2, <1>3, <1>4 DEF Result

LEMMA ImmediateType ==
  ASSUME NEW cc \in Flags, NEW x \in Byte, NEW y \in Byte
  PROVE  Result(Adi(cc, x, y)) /\ Cpi(cc, x, y) \in Flags
<1>1. x + y \in Int /\ cc.v \in Flag
  BY DEF Byte, Flags
<1>2. (x + y) % 256 \in Byte
  BY <1>1, LowType
<1>3. QED
  BY <1>1, <1>2, FlagsType, SetType DEF Adi, Cpi, Result

LEMMA DaaType ==
  ASSUME NEW cc \in Flags, NEW a \in Byte
  PROVE  Result(Daa(cc, a))
<1> DEFINE res == (a + LowFix(cc, a) + HighFix(cc, a)) % 256
<1>1. a + LowFix(cc, a) + HighFix(cc, a) \in Int
  BY DEF LowFix, HighFix, Byte
<1>2. res \in Byte
  BY <1>1, LowType
<1>3. Sign(res) \in Flag /\ parity(res) \in Flag /\ cc.v \in Flag /\ cc.x5 \in Flag
  BY SetType DEF Sign, parity, Flags
<1>4. QED
  BY <1>2, <1>3, SetType DEF Daa, Result, Flags

LEMMA RotateType ==
  ASSUME NEW cc \in Flags, NEW a \in Byte, NEW bit \in Flag
  PROVE  Result(RotateLeft(cc, a, bit)) /\ Result(RotateRight(cc, a, bit))
<1>1. ((2 * a) % 256) + bit \in Byte
  BY DEF Byte, Flag
<1>2. (a \div 2) + 128 * bit \in Byte
  BY DEF Byte, Flag
<1>3. a % 2 \in Flag /\ Sign(a) \in Flag
  BY SetType DEF Sign, Byte, Flag
<1>4. QED
  BY <1>1, <1>2, <1>3, CarryField DEF RotateLeft, RotateRight, Result

\* A word and flags.
WordResult(x) == x.word \in Word /\ x.cc \in Flags

LEMMA WordsType ==
  ASSUME NEW cc \in Flags, NEW x \in Word, NEW y \in Word
  PROVE  /\ WordResult(AddWords(cc, x, y)) /\ WordResult(SubtractWords(cc, x, y))
         /\ WordResult(ShiftWordRight(cc, x)) /\ WordResult(RotateWordLeft(cc, x))
<1>0. /\ x \in Int /\ y \in Int /\ 0 <= x /\ x <= 65535
      /\ cc.cy \in Int /\ 0 <= cc.cy /\ cc.cy <= 1 /\ cc.x5 \in Flag
  <2>1. x \in Int /\ y \in Int /\ 0 <= x /\ x <= 65535
    BY WordRange
  <2>2. cc.cy \in Flag /\ cc.x5 \in Flag
    BY DEF Flags
  <2>3. QED
    BY <2>1, <2>2 DEF Flag
<1>1. WordResult(AddWords(cc, x, y))
  <2>1. (x + y) % 65536 \in Word
    BY <1>0, WordType
  <2>2. [cc EXCEPT !.cy = Set(x + y > 65535)] \in Flags
    <3> DEFINE carry == Set(x + y > 65535)
    <3>1. carry \in Flag
      BY SetType
    <3> HIDE DEF carry
    <3>2. [cc EXCEPT !.cy = carry] \in Flags
      BY <3>1, CarryField
    <3>3. QED
      BY <3>2 DEF carry
  <2>3. QED
    BY <2>1, <2>2 DEF AddWords, WordResult
<1>2. WordResult(SubtractWords(cc, x, y))
  <2> DEFINE res == (x - y) % 65536
  <2>1. res \in Word
    BY <1>0, WordType
  <2>2. WordSign(res) \in Flag /\ parity(Low(res)) \in Flag
    BY SetType DEF WordSign, parity
  <2>3. QED
    BY <1>0, <2>1, <2>2, SetType DEF SubtractWords, WordResult, Flags
<1>3. WordResult(ShiftWordRight(cc, x))
  <2>1. (x \div 2) + 32768 * WordSign(x) \in Word
    <3>1. x \div 2 \in Int /\ 0 <= x \div 2 /\ x \div 2 <= 32767
      BY <1>0
    <3>2. WordSign(x) \in {0, 1}
      BY DEF WordSign, Set
    <3>3. x \div 2 + 32768 * WordSign(x) \in Int /\ x \div 2 + 32768 * WordSign(x) <= 65535
          /\ 0 <= x \div 2 + 32768 * WordSign(x)
      <4> HIDE DEF WordResult
      <4>1. CASE WordSign(x) = 0
        BY <3>1, <4>1
      <4>2. CASE WordSign(x) = 1
        BY <3>1, <4>2
      <4>3. QED
        BY <3>2, <4>1, <4>2
    <3>4. QED
      BY <3>3, InWord
  <2>2. x % 2 \in Flag
    BY <1>0 DEF Flag
  <2>3. QED
    <3>1. [cc EXCEPT !.cy = x % 2] \in Flags
      BY <2>2, CarryField
    <3>2. QED
      BY <2>1, <3>1 DEF ShiftWordRight, WordResult
<1>4. WordResult(RotateWordLeft(cc, x))
  <2> DEFINE res == ((2 * x) % 65536) + cc.cy
             v == Set(WordSign(x) # WordSign(res))
             first == [cc EXCEPT !.cy = WordSign(x)]
  <2>1. res \in Word
    <3>1. \E h \in Int : (2 * x) % 65536 = 2 * h /\ 0 <= h /\ h <= 32767
      <4>1. CASE x < 32768
        <5>1. (2 * x) % 65536 = 2 * x
          BY <1>0, <4>1
        <5>2. QED
          BY <1>0, <4>1, <5>1
      <4>2. CASE x >= 32768
        <5>1. (2 * x) % 65536 = 2 * (x - 32768)
          BY <1>0, <4>2
        <5>2. QED
          BY <1>0, <4>2, <5>1
      <4>3. QED
        BY <1>0, <4>1, <4>2
    <3>2. res \in Int /\ 0 <= res /\ res <= 65535
      BY <1>0, <3>1
    <3>3. QED
      BY <3>2, InWord
  <2>2. WordSign(x) \in Flag /\ v \in Flag
    BY SetType DEF WordSign
  <2>3. RotateWordLeft(cc, x) = [word |-> res, cc |-> [cc EXCEPT !.cy = WordSign(x), !.v = v]]
    BY DEF RotateWordLeft
  <2> HIDE DEF res, v
  <2>4. first \in Flags /\ [first EXCEPT !.v = v] \in Flags
    BY <2>2, CarryField
  <2>5. [cc EXCEPT !.cy = WordSign(x), !.v = v] = [first EXCEPT !.v = v]
    BY DEF Flags
  <2>6. QED
    BY <2>1, <2>3, <2>4, <2>5 DEF WordResult
<1>5. QED
  BY <1>1, <1>2, <1>3, <1>4

LEMMA LogicType == \A x, y : {And(x, y), Or(x, y), Xor(x, y)} \subseteq Byte
<1>1. \A bits : OfBits(bits) \in Byte
  BY DEF OfBits, Byte
<1>2. QED
  BY <1>1 DEF And, Or, Xor

LEMMA FlagsOfType == \A psw \in Byte : FlagsOf(psw) \in Flags
BY DEF FlagsOf, Flags, Flag, Byte

LEMMA PswType == \A cc \in Flags : PswByte(cc) \in Byte
BY DEF PswByte, Flags, Flag, Byte


\* A record of the processor's fields that keeps their widths.
Machine(s) ==
  /\ {"r", "sp", "pc", "cc", "mem", "int_enable", "int_enable_delay", "hlt_enable"} \subseteq DOMAIN s
  /\ Formed(s)

LEMMA Fields ==
  ASSUME NEW s, Machine(s)
  PROVE  /\ s.sp \in Word /\ s.pc \in Word /\ s.cc \in Flags
         /\ s.r \in [Register -> Byte] /\ A(s) \in Byte
<1>1. "a" \in Register
  BY DEF Register
<1>2. QED
  BY <1>1 DEF Machine, Formed, A

LEMMA PcFormed ==
  ASSUME NEW s, Machine(s), NEW v \in Word
  PROVE  Machine([s EXCEPT !.pc = v])
BY DEF Machine, Formed

LEMMA SpFormed ==
  ASSUME NEW s, Machine(s), NEW v \in Word
  PROVE  Machine([s EXCEPT !.sp = v])
BY DEF Machine, Formed

LEMMA CcFormed ==
  ASSUME NEW s, Machine(s), NEW v \in Flags
  PROVE  Machine([s EXCEPT !.cc = v])
BY DEF Machine, Formed

LEMMA RegisterFormed ==
  ASSUME NEW s, Machine(s), NEW n \in Register, NEW v \in Byte
  PROVE  Machine([s EXCEPT !.r[n] = v])
<1> DEFINE r == [s.r EXCEPT ![n] = v]
<1>1. r \in [Register -> Byte]
  BY Fields
<1> HIDE DEF r
<1>2. Machine([s EXCEPT !.r = r])
  BY <1>1 DEF Machine, Formed
<1>3. [s EXCEPT !.r[n] = v] = [s EXCEPT !.r = r]
  BY DEF r
<1>4. QED
  BY <1>2, <1>3

\* Words made of bytes, and the bytes of a word.
LEMMA WordOf ==
  ASSUME NEW h \in Byte, NEW l \in Byte
  PROVE  256 * h + l \in Word
<1>1. 256 * h + l \in Int /\ 0 <= 256 * h + l /\ 256 * h + l <= 65535
  BY DEF Byte
<1>2. QED
  BY <1>1, InWord

LEMMA ReadType ==
  ASSUME NEW s, Machine(s), NEW addr
  PROVE  Read(s, addr) \in Byte
<1>1. 0 \in Byte
  BY DEF Byte
<1>2. QED
  BY <1>1 DEF Read, Machine, Formed

\* One byte, or the two of a word, from an address that is two behind the end at most.
LEMMA PeekType ==
  ASSUME NEW s, Machine(s), NEW beyond \in Beyond, NEW addr \in Int, addr <= 65537
  PROVE  /\ Peek(s, addr, beyond) \in Byte
         /\ addr <= 65536 => PeekWord(s, addr, beyond) \in Word
<1>1. beyond \in [1 .. 2 -> Byte]
  BY BeyondAssumption
<1>2. ASSUME NEW x \in Int, x <= 65537
      PROVE  Peek(s, x, beyond) \in Byte
  <2>1. CASE x > 65535
    <3>1. x - 65535 \in 1 .. 2
      BY <1>2, <2>1
    <3>2. beyond[x - 65535] \in Byte
      BY <1>1, <3>1
    <3>3. QED
      BY <2>1, <3>2 DEF Peek
  <2>2. CASE ~(x > 65535)
    BY <2>2, ReadType DEF Peek
  <2>3. QED
    BY <2>1, <2>2
<1>3. ASSUME addr <= 65536 PROVE PeekWord(s, addr, beyond) \in Word
  <2>1. Peek(s, addr + 1, beyond) \in Byte /\ Peek(s, addr, beyond) \in Byte
    BY <1>2, <1>3
  <2>2. QED
    BY <2>1, WordOf DEF PeekWord
<1>4. QED
  BY <1>2, <1>3

LEMMA MemWrFormed ==
  ASSUME NEW s, Machine(s), NEW addr \in Int, NEW val \in Byte
  PROVE  Machine(mem_wr(s, addr, val))
<1> DEFINE at == addr % 65536
           mem == [x \in DOMAIN s.mem \cup {at} |-> IF x = at THEN val ELSE s.mem[x]]
<1>1. at \in Word
  BY WordType
<1>2. CASE Protected(at)
  BY <1>2 DEF mem_wr
<1>3. CASE ~Protected(at)
  <2>1. DOMAIN mem \subseteq Word /\ \A x \in DOMAIN mem : mem[x] \in Byte
    BY <1>1 DEF Machine, Formed
  <2>2. mem_wr(s, addr, val) = [s EXCEPT !.mem = mem]
    BY <1>3 DEF mem_wr, Store
  <2> HIDE DEF mem
  <2>3. Machine([s EXCEPT !.mem = mem])
    BY <2>1 DEF Machine, Formed
  <2>4. QED
    BY <2>2, <2>3
<1>4. QED
  BY <1>2, <1>3

LEMMA StoreWordFormed ==
  ASSUME NEW s, Machine(s), NEW addr \in Int, NEW word \in Word
  PROVE  Machine(StoreWord(s, addr, word))
<1>1. High(word) \in Byte /\ Low(word) \in Byte /\ addr + 1 \in Int
  BY WordBytes
<1>2. QED
  BY <1>1, MemWrFormed DEF StoreWord

LEMMA PushFormed ==
  ASSUME NEW s, Machine(s), NEW word \in Word
  PROVE  Machine(Push(s, word))
<1> DEFINE one == mem_wr(s, s.sp - 1, High(word))
           two == mem_wr(one, s.sp - 2, Low(word))
<1>1. High(word) \in Byte /\ Low(word) \in Byte
  BY WordBytes
<1>2. s.sp - 1 \in Int /\ s.sp - 2 \in Int
  BY Fields, WordRange
<1>3. Machine(one)
  BY <1>1, <1>2, MemWrFormed
<1> HIDE DEF one
<1>4. Machine(two)
  BY <1>1, <1>2, <1>3, MemWrFormed
<1>5. (two.sp - 2) % 65536 \in Word
  <2> HIDE DEF two
  <2>1. two.sp \in Int
    BY <1>4, Fields, WordRange
  <2>2. QED
    BY <2>1, WordType
<1>6. Push(s, word) = [two EXCEPT !.sp = (two.sp - 2) % 65536]
  BY DEF Push, one
<1> HIDE DEF two
<1>7. QED
  BY <1>4, <1>5, <1>6, SpFormed

\* Pair 3 is the stack pointer, the others are two registers.
LEMMA PairRegisters ==
  \A n \in 0 .. 2 : PairOf[n + 1].high \in Register /\ PairOf[n + 1].low \in Register
BY DEF PairOf, Register

LEMMA PairType ==
  ASSUME NEW s, Machine(s), NEW n \in 0 .. 3
  PROVE  Pair(s, n) \in Word
<1>1. CASE n = 3
  BY <1>1, Fields DEF Pair
<1>2. CASE n # 3
  <2>1. n \in 0 .. 2
    BY <1>2
  <2>2. s.r[PairOf[n + 1].high] \in Byte /\ s.r[PairOf[n + 1].low] \in Byte
    BY <2>1, PairRegisters, Fields
  <2>3. QED
    BY <1>2, <2>2, WordOf DEF Pair
<1>3. QED
  BY <1>1, <1>2

LEMMA PairsType ==
  ASSUME NEW s, Machine(s)
  PROVE  BC(s) \in Word /\ DE(s) \in Word /\ HL(s) \in Word
BY PairType DEF BC, DE, HL

LEMMA SetPairFormed ==
  ASSUME NEW s, Machine(s), NEW n \in 0 .. 3, NEW word \in Word
  PROVE  Machine(SetPair(s, n, word))
<1>1. CASE n = 3
  BY <1>1, SpFormed DEF SetPair
<1>2. CASE n # 3
  <2> DEFINE h == PairOf[n + 1].high
             l == PairOf[n + 1].low
             one == [s EXCEPT !.r[h] = High(word)]
  <2>1. h \in Register /\ l \in Register
    BY <1>2, PairRegisters
  <2>2. High(word) \in Byte /\ Low(word) \in Byte
    BY WordBytes
  <2>3. SetPair(s, n, word) = [s EXCEPT !.r[h] = High(word), !.r[l] = Low(word)]
    BY <1>2 DEF SetPair
  <2> HIDE DEF h, l
  <2>4. Machine(one)
    BY <2>1, <2>2, RegisterFormed
  <2>5. SetPair(s, n, word) = [one EXCEPT !.r[l] = Low(word)]
    BY <2>3 DEF Machine
  <2> HIDE DEF one
  <2>6. QED
    BY <2>1, <2>2, <2>4, <2>5, RegisterFormed
<1>3. QED
  BY <1>1, <1>2

LEMMA RegisterOfType == \A n \in 0 .. 7 : n # 6 => RegisterOf[n + 1] \in Register
BY DEF RegisterOf, Register

LEMMA OperandType ==
  ASSUME NEW s, Machine(s), NEW n \in 0 .. 7
  PROVE  Operand(s, n) \in Byte
BY ReadType, RegisterOfType, Fields DEF Operand

LEMMA AssignFormed ==
  ASSUME NEW s, Machine(s), NEW n \in 0 .. 7, NEW byte \in Byte
  PROVE  Machine(Assign(s, n, byte))
<1>1. CASE n = 6
  BY <1>1, PairsType, WordRange, MemWrFormed DEF Assign
<1>2. CASE n # 6
  BY <1>2, RegisterOfType, RegisterFormed DEF Assign
<1>3. QED
  BY <1>1, <1>2

LEMMA SkipFormed ==
  ASSUME NEW s, Machine(s), NEW n \in Int
  PROVE  Machine(Skip(s, n))
<1>1. (s.pc + n) % 65536 \in Word
  BY Fields, WordRange, WordType
<1>2. QED
  BY <1>1, PcFormed DEF Skip

LEMMA AccumulateFormed ==
  ASSUME NEW s, Machine(s), NEW result, Result(result)
  PROVE  Machine(Accumulate(s, result))
<1> DEFINE one == [s EXCEPT !.r["a"] = result.byte]
<1>1. "a" \in Register
  BY DEF Register
<1>2. Machine(one)
  BY <1>1, RegisterFormed DEF Result
<1>3. Accumulate(s, result) = [one EXCEPT !.cc = result.cc]
  BY DEF Accumulate, Machine
<1> HIDE DEF one
<1>4. QED
  BY <1>2, <1>3, CcFormed DEF Result

LEMMA SetWordFormed ==
  ASSUME NEW s, Machine(s), NEW n \in 0 .. 3, NEW result, WordResult(result)
  PROVE  Machine(SetWord(s, n, result))
BY SetPairFormed, CcFormed DEF SetWord, WordResult

LEMMA LogicFormed ==
  ASSUME NEW s, Machine(s), NEW byte \in Byte, NEW ac \in Flag
  PROVE  Machine(Logic(s, byte, ac))
<1> DEFINE flags == LogicFlagsA(s.cc, byte, ac)
           one == [s EXCEPT !.r["a"] = byte]
<1>1. flags \in Flags
  BY Fields, FlagsType, SetType
<1>2. Machine(one)
  BY RegisterFormed DEF Register
<1>3. Logic(s, byte, ac) = [one EXCEPT !.cc = flags]
  BY DEF Logic, Machine
<1> HIDE DEF one, flags
<1>4. QED
  BY <1>1, <1>2, <1>3, CcFormed


\* Opcodes 00-3F.
LEMMA SpecialFormed ==
  ASSUME NEW s, Machine(s), NEW y \in 0 .. 7, NEW imm \in Byte
  PROVE  Machine(Special(s, y, imm))
<1>1. ASSUME NEW n \in Word PROVE Machine(Skip(SetPair(s, 1, (n + imm) % 65536), 1))
  <2>1. (n + imm) % 65536 \in Word
    BY WordRange, ByteRange, WordType
  <2>2. QED
    BY <2>1, SetPairFormed, SkipFormed
<1>2. ASSUME NEW result, WordResult(result)
      PROVE  Machine(SetWord(s, 1, result)) /\ Machine(SetWord(s, 2, result))
  BY <1>2, SetWordFormed
<1>3. /\ WordResult(SubtractWords(s.cc, HL(s), BC(s)))
      /\ WordResult(ShiftWordRight(s.cc, HL(s)))
      /\ WordResult(RotateWordLeft(s.cc, DE(s)))
  BY WordsType, PairsType, Fields
<1>4. /\ Machine(SetWord(s, 2, SubtractWords(s.cc, HL(s), BC(s))))
      /\ Machine(SetWord(s, 2, ShiftWordRight(s.cc, HL(s))))
      /\ Machine(SetWord(s, 1, RotateWordLeft(s.cc, DE(s))))
  BY <1>2, <1>3
<1>5. /\ Machine(Skip(SetPair(s, 1, (HL(s) + imm) % 65536), 1))
      /\ Machine(Skip(SetPair(s, 1, (s.sp + imm) % 65536), 1))
  BY <1>1, PairsType, Fields
<1>6. QED
  BY <1>4, <1>5 DEF Special

LEMMA LoadStoreFormed ==
  ASSUME NEW s, Machine(s), NEW y \in 0 .. 7, NEW word \in Word, NEW beyond \in Beyond
  PROVE  Machine(LoadStore(s, y, word, beyond))
<1>1. /\ A(s) \in Byte /\ HL(s) \in Word /\ Pair(s, y \div 2) \in Word /\ word \in Int
      /\ Pair(s, y \div 2) \in Int
  BY Fields, PairsType, PairType, WordRange
<1>2. /\ Machine(mem_wr(s, Pair(s, y \div 2), A(s)))
      /\ Machine(Skip(mem_wr(s, word, A(s)), 2))
  BY <1>1, MemWrFormed, SkipFormed
<1>3. Machine(Skip(StoreWord(s, word, HL(s)), 2))
  <2>1. Machine(StoreWord(s, word, HL(s)))
    BY <1>1, StoreWordFormed
  <2>2. QED
    BY <2>1, SkipFormed
<1>4. Machine(Skip(SetPair(s, 2, PeekWord(s, word, beyond)), 2))
  <2>1. PeekWord(s, word, beyond) \in Word
    BY WordRange, PeekType
  <2>2. QED
    BY <2>1, SetPairFormed, SkipFormed
<1>5. ASSUME NEW t, Machine(t), NEW x PROVE Machine([t EXCEPT !.r["a"] = Read(s, x)])
  BY <1>5, ReadType, RegisterFormed DEF Register
<1>6. Machine([Skip(s, 2) EXCEPT !.r["a"] = Read(s, word)])
  BY <1>5, SkipFormed
<1>7. Machine([s EXCEPT !.r["a"] = Read(s, Pair(s, y \div 2))])
  BY <1>5
<1>8. QED
  BY <1>2, <1>3, <1>4, <1>6, <1>7 DEF LoadStore

LEMMA StepPairFormed ==
  ASSUME NEW s, Machine(s), NEW n \in 0 .. 3, NEW by \in {1, -1}
  PROVE  Machine(StepPair(s, n, by))
<1> DEFINE word == (Pair(s, n) + by) % 65536
           x5 == Set(word = IF by = 1 THEN 0 ELSE 65535)
           one == SetPair(s, n, word)
           flags == [one.cc EXCEPT !.x5 = x5]
<1>1. word \in Word
  BY PairType, WordRange, WordType
<1>2. x5 \in Flag
  BY SetType
<1>3. StepPair(s, n, by) = [one EXCEPT !.cc.x5 = x5]
  BY DEF StepPair
<1> HIDE DEF word, x5
<1>4. Machine(one)
  BY <1>1, SetPairFormed
<1> HIDE DEF one
<1>5. flags \in Flags
  BY <1>2, <1>4, Fields, CarryField
<1>6. StepPair(s, n, by) = [one EXCEPT !.cc = flags]
  BY <1>3
<1> HIDE DEF flags
<1>7. QED
  BY <1>4, <1>5, <1>6, CcFormed

LEMMA CountFormed ==
  ASSUME NEW s, Machine(s), NEW n \in 0 .. 7
  PROVE  Machine(Increment(s, n)) /\ Machine(Decrement(s, n))
<1>1. ASSUME NEW result, Result(result)
      PROVE  Machine(Assign([s EXCEPT !.cc = result.cc], n, result.byte))
  BY <1>1, CcFormed, AssignFormed DEF Result
<1>2. QED
  BY <1>1, CountType, OperandType, Fields DEF Increment, Decrement

LEMMA AdjustFormed ==
  ASSUME NEW s, Machine(s), NEW y \in 0 .. 7
  PROVE  Machine(Adjust(s, y))
<1>1. /\ A(s) \in Byte /\ s.cc \in Flags /\ s.cc.cy \in Flag /\ Sign(A(s)) \in Flag
      /\ A(s) % 2 \in Flag /\ 255 - A(s) \in Byte /\ 1 \in Flag /\ 1 - s.cc.cy \in Flag
  <2>1. A(s) \in Byte /\ s.cc \in Flags
    BY Fields
  <2>2. s.cc.cy \in Flag
    BY <2>1 DEF Flags
  <2>3. QED
    BY <2>1, <2>2, SetType DEF Byte, Flag, Sign
<1>2. /\ Result(RotateLeft(s.cc, A(s), Sign(A(s)))) /\ Result(RotateRight(s.cc, A(s), A(s) % 2))
      /\ Result(RotateLeft(s.cc, A(s), s.cc.cy)) /\ Result(RotateRight(s.cc, A(s), s.cc.cy))
      /\ Result(Daa(s.cc, A(s)))
  BY <1>1, RotateType, DaaType
<1>3. /\ Machine(Accumulate(s, RotateLeft(s.cc, A(s), Sign(A(s)))))
      /\ Machine(Accumulate(s, RotateRight(s.cc, A(s), A(s) % 2)))
      /\ Machine(Accumulate(s, RotateLeft(s.cc, A(s), s.cc.cy)))
      /\ Machine(Accumulate(s, RotateRight(s.cc, A(s), s.cc.cy)))
      /\ Machine(Accumulate(s, Daa(s.cc, A(s))))
  BY <1>2, AccumulateFormed
<1>4. Machine([s EXCEPT !.r["a"] = 255 - s.r["a"]])
  BY <1>1, RegisterFormed DEF Register, A
<1>5. ASSUME NEW v \in Flag PROVE Machine([s EXCEPT !.cc.cy = v])
  <2> DEFINE flags == [s.cc EXCEPT !.cy = v]
  <2>1. flags \in Flags
    BY <1>1, CarryField
  <2>2. [s EXCEPT !.cc.cy = v] = [s EXCEPT !.cc = flags]
    OBVIOUS
  <2> HIDE DEF flags
  <2>3. QED
    BY <2>1, <2>2, CcFormed
<1>6. Machine([s EXCEPT !.cc.cy = 1]) /\ Machine([s EXCEPT !.cc.cy = 1 - s.cc.cy])
  BY <1>1, <1>5
<1>7. QED
  BY <1>3, <1>4, <1>6 DEF Adjust

LEMMA FirstQuarterFormed ==
  ASSUME NEW s, Machine(s), NEW y \in 0 .. 7, NEW z \in 0 .. 7,
         NEW imm \in Byte, NEW word \in Word, NEW beyond \in Beyond
  PROVE  Machine(FirstQuarter(s, y, z, imm, word, beyond))
<1>1. y \div 2 \in 0 .. 3
  OBVIOUS
<1>2. Machine(Special(s, y, imm)) /\ Machine(LoadStore(s, y, word, beyond))
  BY SpecialFormed, LoadStoreFormed
<1>3. Machine(Skip(SetPair(s, y \div 2, word), 2))
  <2>1. Machine(SetPair(s, y \div 2, word))
    BY <1>1, SetPairFormed
  <2>2. QED
    BY <2>1, SkipFormed
<1>4. Machine(DoubleAdd(s, y \div 2))
  <2>1. HL(s) \in Word /\ Pair(s, y \div 2) \in Word /\ s.cc \in Flags
    BY <1>1, PairsType, PairType, Fields
  <2>2. WordResult(AddWords(s.cc, HL(s), Pair(s, y \div 2)))
    BY <2>1, WordsType
  <2>3. QED
    BY <2>2, SetWordFormed DEF DoubleAdd
<1>5. Machine(StepPair(s, y \div 2, IF y % 2 = 0 THEN 1 ELSE -1))
  BY <1>1, StepPairFormed
<1>6. Machine(Increment(s, y)) /\ Machine(Decrement(s, y)) /\ Machine(Adjust(s, y))
  BY CountFormed, AdjustFormed
<1>7. Machine(Skip(Assign(s, y, imm), 1))
  <2>1. Machine(Assign(s, y, imm))
    BY AssignFormed
  <2>2. QED
    BY <2>1, SkipFormed
<1>8. QED
  BY <1>2, <1>3, <1>4, <1>5, <1>6, <1>7 DEF FirstQuarter


\* Opcodes 40-BF.
LEMMA MoveFormed ==
  ASSUME NEW s, Machine(s), NEW y \in 0 .. 7, NEW z \in 0 .. 7
  PROVE  Machine(Move(s, y, z))
<1>1. Machine([s EXCEPT !.hlt_enable = 1])
  BY DEF Machine, Formed, Flag
<1>2. Machine(Assign(s, y, Operand(s, z)))
  BY OperandType, AssignFormed
<1>3. QED
  BY <1>1, <1>2 DEF Move

LEMMA ComputeFormed ==
  ASSUME NEW s, Machine(s), NEW y, NEW x \in Byte
  PROVE  Machine(Compute(s, y, x))
<1>1. A(s) \in Byte /\ s.cc \in Flags /\ s.cc.cy \in Flag /\ 0 \in Flag /\ 1 \in Flag
  BY Fields DEF Flags, Flag
<1>2. /\ Result(addByte(s.cc, A(s), x)) /\ Result(addByteWithCarry(s.cc, A(s), x))
      /\ Result(subtractByte(s.cc, A(s), x)) /\ Result(subtractByteWithBorrow(s.cc, A(s), x))
  BY <1>1, AddType DEF addByte, addByteWithCarry, subtractByte, subtractByteWithBorrow
<1>3. /\ Machine(Accumulate(s, addByte(s.cc, A(s), x)))
      /\ Machine(Accumulate(s, addByteWithCarry(s.cc, A(s), x)))
      /\ Machine(Accumulate(s, subtractByte(s.cc, A(s), x)))
      /\ Machine(Accumulate(s, subtractByteWithBorrow(s.cc, A(s), x)))
  BY <1>2, AccumulateFormed
<1>4. And(A(s), x) \in Byte /\ Xor(A(s), x) \in Byte /\ Or(A(s), x) \in Byte
  BY LogicType
<1>5. /\ Machine(Logic(s, And(A(s), x), 1))
      /\ Machine(Logic(s, Xor(A(s), x), 0))
      /\ Machine(Logic(s, Or(A(s), x), 0))
  BY <1>1, <1>4, LogicFormed
<1>6. Machine([s EXCEPT !.cc = subtractByte(s.cc, A(s), x).cc])
  BY <1>2, CcFormed DEF Result
<1>7. QED
  BY <1>3, <1>5, <1>6 DEF Compute

\* Opcodes C0-FF.
LEMMA CallFormed ==
  ASSUME NEW s, Machine(s), NEW addr \in Word
  PROVE  Machine(call(s, addr)) /\ Machine(rst(s, addr))
<1>1. s.pc \in Word /\ (s.pc + 2) % 65536 \in Word
  BY Fields, WordRange, WordType
<1>2. Machine(Push(s, s.pc)) /\ Machine(Push(s, (s.pc + 2) % 65536))
  BY <1>1, PushFormed
<1>3. QED
  BY <1>2, PcFormed DEF call, rst

\* The word at the top of the stack is a word, also at the end of memory.
LEMMA TopType ==
  ASSUME NEW s, Machine(s), NEW beyond \in Beyond
  PROVE  /\ s.sp \in Int /\ (s.sp + 2) % 65536 \in Word
         /\ PeekWord(s, s.sp, beyond) \in Word
<1>1. s.sp \in Int /\ s.sp <= 65535
  BY Fields, WordRange
<1>2. QED
  BY <1>1, WordType, PeekType

LEMMA ReturnToCallerFormed ==
  ASSUME NEW s, Machine(s), NEW beyond \in Beyond
  PROVE  Machine(returnToCaller(s, beyond))
<1> DEFINE pc == PeekWord(s, s.sp, beyond)
           sp == (s.sp + 2) % 65536
           one == [s EXCEPT !.pc = pc]
<1>1. pc \in Word /\ sp \in Word
  BY TopType
<1>2. returnToCaller(s, beyond) = [one EXCEPT !.sp = sp]
  BY DEF returnToCaller, Machine
<1> HIDE DEF pc, sp
<1>3. Machine(one)
  BY <1>1, PcFormed
<1> HIDE DEF one
<1>4. QED
  BY <1>1, <1>2, <1>3, SpFormed

LEMMA JumpFormed ==
  ASSUME NEW s, Machine(s), NEW taken, NEW word \in Word
  PROVE  Machine(Jump(s, taken, word))
BY PcFormed, SkipFormed DEF Jump

LEMMA PopFormed ==
  ASSUME NEW s, Machine(s), NEW n \in 0 .. 3, NEW beyond \in Beyond
  PROVE  Machine(Pop(s, n, beyond))
<1> DEFINE sp == (s.sp + 2) % 65536
<1>1. sp \in Word /\ PeekWord(s, s.sp, beyond) \in Word
  BY TopType
<1>2. CASE n = 3
  <2> DEFINE cc == FlagsOf(Read(s, s.sp))
             a == Read(s, (s.sp + 1) % 65536)
             one == [s EXCEPT !.cc = cc]
             two == [one EXCEPT !.r["a"] = a]
  <2>1. cc \in Flags /\ a \in Byte
    BY ReadType, FlagsOfType
  <2>2. Pop(s, n, beyond) = [s EXCEPT !.cc = cc, !.r["a"] = a, !.sp = sp]
    BY <1>2 DEF Pop
  <2> HIDE DEF cc, a, sp
  <2>3. Machine(one)
    BY <2>1, CcFormed
  <2>4. Pop(s, n, beyond) = [two EXCEPT !.sp = sp]
    BY <2>2 DEF Machine
  <2> HIDE DEF one
  <2>5. Machine(two)
    BY <2>1, <2>3, RegisterFormed DEF Register
  <2> HIDE DEF two
  <2>6. QED
    BY <1>1, <2>4, <2>5, SpFormed
<1>3. CASE n # 3
  <2> DEFINE one == SetPair(s, n, PeekWord(s, s.sp, beyond))
  <2>1. Machine(one)
    BY <1>1, SetPairFormed
  <2>2. Pop(s, n, beyond) = [one EXCEPT !.sp = (one.sp + 2) % 65536]
    BY <1>3 DEF Pop
  <2> HIDE DEF one
  <2>3. (one.sp + 2) % 65536 \in Word
    BY <2>1, Fields, WordRange, WordType
  <2>4. QED
    BY <2>1, <2>2, <2>3, SpFormed
<1>4. QED
  BY <1>2, <1>3

LEMMA PushPairFormed ==
  ASSUME NEW s, Machine(s), NEW n \in 0 .. 3
  PROVE  Machine(PushPair(s, n))
<1>1. 256 * A(s) + PswByte(s.cc) \in Word
  BY Fields, PswType, WordOf
<1>2. Pair(s, n) \in Word
  BY PairType
<1>3. QED
  BY <1>1, <1>2, PushFormed DEF PushPair

LEMMA ReturnFormed ==
  ASSUME NEW s, Machine(s), NEW y, NEW beyond \in Beyond
  PROVE  Machine(Return(s, y, beyond))
<1>1. HL(s) \in Word /\ DE(s) \in Word /\ DE(s) \in Int
  BY PairsType, WordRange
<1>2. Machine(returnToCaller(s, beyond)) /\ Machine(StoreWord(s, DE(s), HL(s)))
  BY <1>1, ReturnToCallerFormed, StoreWordFormed
<1>3. Machine([s EXCEPT !.pc = HL(s)]) /\ Machine([s EXCEPT !.sp = HL(s)])
  BY <1>1, PcFormed, SpFormed
<1>4. QED
  BY <1>2, <1>3 DEF Return

LEMMA ControlFormed ==
  ASSUME NEW s, Machine(s), NEW y, NEW word \in Word, NEW beyond \in Beyond
  PROVE  Machine(Control(s, y, word, beyond))
<1>1. Machine(Jump(s, TRUE, word))
  BY JumpFormed
<1>2. Machine(RestartOnOverflow(s))
  <2>1. 64 \in Word
    BY InWord
  <2>2. QED
    BY <2>1, CallFormed DEF RestartOnOverflow
<1>3. Machine(ExchangeTop(s, beyond))
  <2>1. Machine(StoreWord(s, s.sp, HL(s)))
    BY TopType, PairsType, StoreWordFormed
  <2>2. QED
    BY <2>1, TopType, SetPairFormed DEF ExchangeTop
<1>4. Machine(SetPair(SetPair(s, 1, HL(s)), 2, DE(s)))
  <2>1. HL(s) \in Word /\ DE(s) \in Word
    BY PairsType
  <2>2. Machine(SetPair(s, 1, HL(s)))
    BY <2>1, SetPairFormed
  <2>3. QED
    BY <2>1, <2>2, SetPairFormed
<1>5. Machine(Core!DisableInterrupts(s)) /\ Machine(Core!EnableInterrupts(s))
  <2>1. Machine([s EXCEPT !.int_enable = 0, !.int_enable_delay = 0])
    BY DEF Machine, Formed, Flag
  <2>2. Machine([s EXCEPT !.int_enable_delay = 2])
    BY DEF Machine, Formed, Flag
  <2>3. QED
    BY <2>1, <2>2 DEF Core!DisableInterrupts, Core!EnableInterrupts
<1>6. QED
  BY <1>1, <1>2, <1>3, <1>4, <1>5 DEF Control

LEMMA CallOrLoadFormed ==
  ASSUME NEW s, Machine(s), NEW y, NEW word \in Word, NEW beyond \in Beyond
  PROVE  Machine(CallOrLoad(s, y, word, beyond))
<1>1. Machine(call(s, word))
  BY CallFormed
<1>2. Machine(Jump(s, s.cc.x5 = 0, word)) /\ Machine(Jump(s, s.cc.x5 = 1, word))
  BY JumpFormed
<1>3. PeekWord(s, DE(s), beyond) \in Word
  BY PairsType, WordRange, PeekType
<1>4. Machine(SetPair(s, 2, PeekWord(s, DE(s), beyond)))
  BY <1>3, SetPairFormed
<1>5. QED
  BY <1>1, <1>2, <1>4 DEF CallOrLoad

LEMMA ComputeImmediateFormed ==
  ASSUME NEW s, Machine(s), NEW y, NEW imm \in Byte
  PROVE  Machine(ComputeImmediate(s, y, imm))
<1>1. Result(Adi(s.cc, A(s), imm)) /\ Cpi(s.cc, A(s), imm) \in Flags
  BY Fields, ImmediateType
<1>2. Machine(Accumulate(s, Adi(s.cc, A(s), imm)))
  BY <1>1, AccumulateFormed
<1>3. Machine([s EXCEPT !.cc = Cpi(s.cc, A(s), imm)])
  BY <1>1, CcFormed
<1>4. Machine(Compute(s, y, imm))
  BY ComputeFormed
<1>5. QED
  BY <1>2, <1>3, <1>4 DEF ComputeImmediate

LEMMA LastQuarterFormed ==
  ASSUME NEW s, Machine(s), NEW y \in 0 .. 7, NEW z \in 0 .. 7,
         NEW imm \in Byte, NEW word \in Word, NEW beyond \in Beyond
  PROVE  Machine(LastQuarter(s, y, z, imm, word, beyond))
<1>1. y \div 2 \in 0 .. 3
  OBVIOUS
<1>2. Machine(returnToCaller(s, beyond)) /\ Machine(Return(s, y, beyond))
  BY ReturnToCallerFormed, ReturnFormed
<1>3. Machine(Pop(s, y \div 2, beyond)) /\ Machine(PushPair(s, y \div 2))
  BY <1>1, PopFormed, PushPairFormed
<1>4. \A taken : Machine(Jump(s, taken, word))
  BY JumpFormed
<1>5. Machine(Control(s, y, word, beyond)) /\ Machine(CallOrLoad(s, y, word, beyond))
  BY ControlFormed, CallOrLoadFormed
<1>6. Machine(call(s, word)) /\ Machine(Skip(s, 2))
  BY CallFormed, SkipFormed
<1>7. Machine(Skip(ComputeImmediate(s, y, imm), 1))
  <2>1. Machine(ComputeImmediate(s, y, imm))
    BY ComputeImmediateFormed
  <2>2. QED
    BY <2>1, SkipFormed
<1>8. Machine(rst(s, 8 * y))
  <2>1. 8 * y \in Word
    BY InWord
  <2>2. QED
    BY <2>1, CallFormed
<1>9. QED
  BY <1>2, <1>3, <1>4, <1>5, <1>6, <1>7, <1>8 DEF LastQuarter

\* A call of Emulate8085Op.
LEMMA ExecuteFormed ==
  ASSUME NEW s, Machine(s), NEW beyond \in Beyond
  PROVE  Machine(Execute(s, beyond))
<1> DEFINE opcode == Read(s, s.pc)
           y == (opcode \div 8) % 8
           z == opcode % 8
           imm == Peek(s, s.pc + 1, beyond)
           word == PeekWord(s, s.pc + 1, beyond)
           fetched == Skip(s, 1)
<1>1. opcode \in Byte
  BY ReadType
<1>2. imm \in Byte /\ word \in Word
  BY Fields, WordRange, PeekType
<1>3. Machine(fetched)
  BY SkipFormed
<1>4. y \in 0 .. 7 /\ z \in 0 .. 7
  <2> HIDE DEF opcode
  <2>1. QED
    BY <1>1 DEF Byte
<1>5. Operand(s, z) \in Byte
  BY <1>4, OperandType
<1>6. Execute(s, beyond) =
        CASE opcode < 64 -> FirstQuarter(fetched, y, z, imm, word, beyond)
          [] opcode \in 64 .. 127 -> Move(fetched, y, z)
          [] opcode \in 128 .. 191 -> Compute(fetched, y, Operand(s, z))
          [] OTHER -> LastQuarter(fetched, y, z, imm, word, beyond)
  BY DEF Execute
<1> HIDE DEF opcode, y, z, imm, word, fetched
<1>7. /\ Machine(FirstQuarter(fetched, y, z, imm, word, beyond))
      /\ Machine(Move(fetched, y, z)) /\ Machine(Compute(fetched, y, Operand(s, z)))
      /\ Machine(LastQuarter(fetched, y, z, imm, word, beyond))
  BY <1>2, <1>3, <1>4, <1>5, FirstQuarterFormed, MoveFormed, ComputeFormed, LastQuarterFormed
<1>8. QED
  BY <1>6, <1>7

LEMMA EmulateFormed ==
  ASSUME NEW s, Machine(s), NEW beyond \in Beyond
  PROVE  Machine(Emulate8085Op(s, beyond))
<1> DEFINE done == Execute(s, beyond)
           delay == IF done.int_enable_delay > 0 THEN done.int_enable_delay - 1 ELSE 0
           enable == IF done.int_enable_delay = 1 THEN 1 ELSE done.int_enable
<1>1. Machine(done)
  BY ExecuteFormed
<1>2. Emulate8085Op(s, beyond) = [done EXCEPT !.int_enable_delay = delay, !.int_enable = enable]
  BY DEF Emulate8085Op, Core!EndDelay
<1> HIDE DEF done
<1>3. delay \in 0 .. 2 /\ enable \in Flag
  BY <1>1 DEF Machine, Formed, Flag
<1> HIDE DEF delay, enable
<1>4. QED
  BY <1>1, <1>2, <1>3 DEF Machine, Formed

LEMMA AcceptFormed ==
  ASSUME NEW s, Machine(s)
  PROVE  Machine(Accept(s))
<1>1. Machine([s EXCEPT !.int_enable = 0])
  BY DEF Machine, Formed, Flag
<1>2. 60 \in Word
  BY InWord
<1>3. QED
  BY <1>1, <1>2, CallFormed DEF Accept

WidthInv ==
  /\ Machine(m) /\ Machine(plain)
  /\ resume = None \/ {resume.pc, resume.sp} \subseteq Word
  /\ requests \in 0 .. MaxRequests

LEMMA WidthInit == Init => WidthInv
<1> SUFFICES ASSUME Init PROVE WidthInv
  OBVIOUS
<1>1. 0 \in Word /\ 0 \in Byte /\ 0 \in Flag
  BY InWord DEF Byte, Flag
<1>2. Machine(Reset(job))
  <2>1. /\ job.pc \in Word /\ DOMAIN job.image \subseteq Word
        /\ \A x \in DOMAIN job.image : job.image[x] \in Byte
    BY JobsAssumption DEF Init, IsJob
  <2>2. QED
    BY <1>1, <2>1 DEF Reset, Machine, Formed, Flags
<1>3. QED
  BY <1>2, BoundsAssumption DEF Init, WidthInv

LEMMA WidthNext == WidthInv /\ [Next]_vars => WidthInv'
<1> SUFFICES ASSUME WidthInv, [Next]_vars PROVE WidthInv'
  OBVIOUS
<1>1. CASE Proceed
  <2>1. Machine(m)' /\ Machine(plain)'
    BY <1>1, EmulateFormed DEF Proceed, WidthInv
  <2>2. QED
    BY <1>1, <2>1 DEF Proceed, WidthInv
<1>2. CASE Interrupt
  <2>1. Machine(m)'
    BY <1>2, AcceptFormed, EmulateFormed DEF Interrupt, WidthInv
  <2>2. {resume'.pc, resume'.sp} \subseteq Word
    BY <1>2, Fields DEF Interrupt, WidthInv
  <2>3. requests' \in 0 .. MaxRequests
    BY <1>2, BoundsAssumption DEF Interrupt, WidthInv
  <2>4. QED
    BY <1>2, <2>1, <2>2, <2>3 DEF Interrupt, WidthInv
<1>3. CASE Handle
  <2>1. Machine(m)'
    BY <1>3, EmulateFormed DEF Handle, WidthInv
  <2>2. resume' = None \/ resume' = resume
    BY <1>3 DEF Handle
  <2>3. QED
    BY <1>3, <2>1, <2>2 DEF Handle, WidthInv, None
<1>4. CASE UNCHANGED vars
  BY <1>4 DEF vars, WidthInv
<1>5. QED
  BY <1>1, <1>2, <1>3, <1>4 DEF Next, Step, Halted

\* No sequence of instructions and interrupts takes a register, a flag, a pointer or a
\* byte of memory out of the width of its C type: whatever Emulate8085Op stores in a
\* uint8_t, a uint16_t or a one-bit flag fits there, and memory is only written at
\* addresses below 64K.
THEOREM WidthsKept == Spec => []TypeOK
<1>1. WidthInv => TypeOK
  BY DEF WidthInv, TypeOK, Machine
<1>2. QED
  BY <1>1, WidthInit, WidthNext, PTL DEF Spec


----------------------------------------------------------------------------
(* What the debugger sees.  The processor whole, as EXCEPT builds it.      *)

Rebuilt(s) == [x \in DOMAIN s |-> s[x]]

LEMMA RebuiltMachine ==
  ASSUME NEW s, Machine(s)
  PROVE  Machine(Rebuilt(s)) /\ Rebuilt(Rebuilt(s)) = Rebuilt(s)
BY DEF Machine, Formed, Rebuilt

\* The flags of the byte that pack_flags makes are those it was made of.
FlagsIn(f, s, z, ac, p, cy) ==
  /\ (f \div 128) % 2 = s /\ (f \div 64) % 2 = z /\ (f \div 16) % 2 = ac
  /\ (f \div 4) % 2 = p /\ f % 2 = cy

LEMMA PackedFlags ==
  ASSUME NEW s \in Flag, NEW z \in Flag, NEW ac \in Flag, NEW p \in Flag, NEW cy \in Flag,
         NEW f, f = 128 * s + 64 * z + 16 * ac + 4 * p + 2 + cy
  PROVE  FlagsIn(f, s, z, ac, p, cy)
BY DEF Flag, FlagsIn

LEMMA PackType == \A cc \in Flags : pack_flags(cc) \in Byte
BY DEF pack_flags, Flags, Flag, Byte

Unpacked(cc, f) ==
  [cc EXCEPT !.s = (f \div 128) % 2, !.z = (f \div 64) % 2, !.ac = (f \div 16) % 2,
             !.p = (f \div 4) % 2, !.cy = f % 2]

LEMMA UnpackStores ==
  ASSUME NEW s, Machine(s), NEW f
  PROVE  unpack_flags(s, f) = [s EXCEPT !.cc = Unpacked(s.cc, f)]
<1> DEFINE sign == (f \div 128) % 2
           zero == (f \div 64) % 2
           aux == (f \div 16) % 2
           par == (f \div 4) % 2
           carry == f % 2
           cc == [s.cc EXCEPT !.s = sign, !.z = zero, !.ac = aux, !.p = par, !.cy = carry]
<1>1. "cc" \in DOMAIN s /\ s.cc \in Flags
  BY Fields DEF Machine
<1>2. unpack_flags(s, f) = [s EXCEPT !.cc.s = sign, !.cc.z = zero, !.cc.ac = aux,
                                     !.cc.p = par, !.cc.cy = carry]
  BY DEF unpack_flags
<1>3. Unpacked(s.cc, f) = cc
  BY DEF Unpacked
<1> HIDE DEF sign, zero, aux, par, carry
<1>4. [s EXCEPT !.cc.s = sign, !.cc.z = zero, !.cc.ac = aux, !.cc.p = par, !.cc.cy = carry]
        = [s EXCEPT !.cc = cc]
  BY <1>1 DEF Flags
<1> QED
  BY <1>2, <1>3, <1>4

LEMMA UnpackPacked ==
  ASSUME NEW cc \in Flags
  PROVE  Unpacked(cc, pack_flags(cc)) = cc
<1>1. /\ cc.s \in Flag /\ cc.z \in Flag /\ cc.ac \in Flag /\ cc.p \in Flag /\ cc.cy \in Flag
  BY DEF Flags
<1> DEFINE f == pack_flags(cc)
<1>2. FlagsIn(f, cc.s, cc.z, cc.ac, cc.p, cc.cy)
  <2>1. f = 128 * cc.s + 64 * cc.z + 16 * cc.ac + 4 * cc.p + 2 + cc.cy
    BY DEF pack_flags
  <2> HIDE DEF f
  <2> QED
    BY <1>1, <2>1, PackedFlags
<1> HIDE DEF f
<1>3. Unpacked(cc, f) = cc
  BY <1>2 DEF Unpacked, Flags, FlagsIn
<1> QED
  BY <1>3 DEF f

\* What a byte and a word show.
LEMMA ShownByte == \A n \in 0 .. 7 \cup {9}, val \in Byte : Shown("i8085", n, val) = val
<1>1. \A val \in Byte : val % 256 = val
  BY DEF Byte
<1> QED
  BY <1>1 DEF Shown, reg_bytes, reg_size

LEMMA ShownWord == \A n \in {8} \cup 10 .. 14, val \in Word : Shown("i8085", n, val) = val
<1>1. \A val \in Word : val % 65536 = val
  BY WordRange
<1> QED
  BY <1>1 DEF Shown, reg_bytes, reg_size


LEMMA LowOfByte == \A b \in Byte : Low(b) = b
BY DEF Low, Byte

\* The bytes of a word that was put together of two.
LEMMA BytesBack ==
  ASSUME NEW h \in Byte, NEW l \in Byte
  PROVE  High(256 * h + l) = h /\ Low(256 * h + l) = l
BY DEF High, Low, Byte

LEMMA RegisterType ==
  ASSUME NEW s, Machine(s)
  PROVE  /\ \A n \in 0 .. 7 \cup {9} : read_reg(s, n) \in Byte
         /\ \A n \in {8} \cup 10 .. 14 : read_reg(s, n) \in Word
<1>1. s.cc \in Flags /\ s.sp \in Word /\ s.pc \in Word /\ A(s) \in Byte
  BY Fields
<1>2. pack_flags(s.cc) \in Byte
  BY <1>1, PackType
<1>3. Psw(s) \in Word
  BY <1>1, <1>2, WordOf DEF Psw
<1>4. \A n \in 12 .. 14 : Pair(s, n - 12) \in Word
  BY PairType
<1>5. \A n \in 0 .. 7 : Operand(s, n) \in Byte
  BY OperandType
<1> QED
  BY <1>1, <1>2, <1>3, <1>4, <1>5 DEF read_reg

LEMMA ReadRegisterIs ==
  ASSUME NEW s, Machine(s), NEW n \in 0 .. 14
  PROVE  ReadRegister("i8085", s, n) = read_reg(s, n)
<1>1. reg_get("i8085", s, n) = read_reg(s, n)
  BY DEF reg_get
<1>2. CASE n \in 0 .. 7 \cup {9}
  BY <1>1, <1>2, RegisterType, ShownByte DEF ReadRegister
<1>3. CASE n \in {8} \cup 10 .. 14
  BY <1>1, <1>3, RegisterType, ShownWord DEF ReadRegister
<1> QED
  BY <1>2, <1>3

LEMMA SameRegister ==
  ASSUME NEW s, Machine(s), NEW x \in Register
  PROVE  [s EXCEPT !.r[x] = s.r[x]] = Rebuilt(s)
<1>1. s.r \in [Register -> Byte] /\ "r" \in DOMAIN s
  BY Fields DEF Machine
<1>2. [s.r EXCEPT ![x] = s.r[x]] = s.r
  BY <1>1
<1> QED
  BY <1>1, <1>2 DEF Rebuilt

LEMMA SameFields ==
  ASSUME NEW s, Machine(s)
  PROVE  /\ [s EXCEPT !.sp = s.sp] = Rebuilt(s) /\ [s EXCEPT !.pc = s.pc] = Rebuilt(s)
         /\ unpack_flags(s, pack_flags(s.cc)) = Rebuilt(s)
<1>1. [s EXCEPT !.sp = s.sp] = Rebuilt(s) /\ [s EXCEPT !.pc = s.pc] = Rebuilt(s)
  BY DEF Machine, Rebuilt
<1>2. unpack_flags(s, pack_flags(s.cc)) = [s EXCEPT !.cc = s.cc]
  BY Fields, UnpackStores, UnpackPacked
<1>3. [s EXCEPT !.cc = s.cc] = Rebuilt(s)
  BY DEF Machine, Rebuilt
<1> QED
  BY <1>1, <1>2, <1>3

\* A pair that is written with what it has.
LEMMA SamePair ==
  ASSUME NEW s, Machine(s), NEW n \in 0 .. 2
  PROVE  SetPair(s, n, Pair(s, n)) = Rebuilt(s)
<1> DEFINE h == PairOf[n + 1].high
           l == PairOf[n + 1].low
<1>1. h \in Register /\ l \in Register /\ h # l
  BY DEF PairOf, Register
<1>2. s.r \in [Register -> Byte] /\ "r" \in DOMAIN s
  BY Fields DEF Machine
<1>3. Pair(s, n) = 256 * s.r[h] + s.r[l]
  BY DEF Pair
<1>4. SetPair(s, n, Pair(s, n)) = [s EXCEPT !.r[h] = High(Pair(s, n)), !.r[l] = Low(Pair(s, n))]
  BY DEF SetPair
<1> HIDE DEF h, l
<1>5. High(Pair(s, n)) = s.r[h] /\ Low(Pair(s, n)) = s.r[l]
  BY <1>1, <1>2, <1>3, BytesBack
<1>6. [s EXCEPT !.r[h] = s.r[h], !.r[l] = s.r[l]] = [Rebuilt(s) EXCEPT !.r[l] = Rebuilt(s).r[l]]
  <2>1. [s EXCEPT !.r[h] = s.r[h]] = Rebuilt(s) /\ Rebuilt(s).r = s.r
    BY <1>1, <1>2, SameRegister DEF Rebuilt
  <2>2. [s EXCEPT !.r[h] = s.r[h], !.r[l] = s.r[l]] = [[s EXCEPT !.r[h] = s.r[h]] EXCEPT !.r[l] = s.r[l]]
    BY <1>2
  <2> QED
    BY <2>1, <2>2
<1>7. [Rebuilt(s) EXCEPT !.r[l] = Rebuilt(s).r[l]] = Rebuilt(s)
  BY <1>1, RebuiltMachine, SameRegister
<1> QED
  BY <1>4, <1>5, <1>6, <1>7

\* Each register but M, written with what it has.
LEMMA PutBack ==
  ASSUME NEW s, Machine(s), NEW n \in 0 .. 14, n # 6
  PROVE  write_reg(s, n, read_reg(s, n)) = Rebuilt(s)
<1>1. s.cc \in Flags /\ s.sp \in Word /\ s.pc \in Word /\ A(s) \in Byte
  BY Fields
<1>2. pack_flags(s.cc) \in Byte
  BY <1>1, PackType
<1>3. CASE n \in 0 .. 5 \cup {7}
  <2>1. RegisterOf[n + 1] \in Register
    BY <1>3, RegisterOfType
  <2>2. read_reg(s, n) = s.r[RegisterOf[n + 1]]
    BY <1>3 DEF read_reg, Operand
  <2>3. Low(read_reg(s, n)) = s.r[RegisterOf[n + 1]]
    BY <1>3, <2>2, RegisterType, LowOfByte
  <2>4. write_reg(s, n, read_reg(s, n)) = [s EXCEPT !.r[RegisterOf[n + 1]] = Low(read_reg(s, n))]
    BY <1>3 DEF write_reg
  <2> QED
    BY <2>1, <2>3, <2>4, SameRegister
<1>4. CASE n = 8
  BY <1>4, SameFields DEF read_reg, write_reg
<1>5. CASE n = 11
  BY <1>5, SameFields DEF read_reg, write_reg
<1>6. CASE n = 9
  BY <1>2, <1>6, SameFields, LowOfByte DEF read_reg, write_reg
<1>7. CASE n = 10
  <2>1. High(Psw(s)) = s.r["a"] /\ Low(Psw(s)) = pack_flags(s.cc)
    BY <1>1, <1>2, BytesBack DEF Psw, A
  <2>2. SetPsw(s, Psw(s)) = unpack_flags(Rebuilt(s), pack_flags(s.cc))
    BY <2>1, SameRegister DEF SetPsw, Register
  <2>3. unpack_flags(Rebuilt(s), pack_flags(Rebuilt(s).cc)) = Rebuilt(s)
    BY RebuiltMachine, SameFields
  <2>4. Rebuilt(s).cc = s.cc
    BY DEF Rebuilt, Machine
  <2> QED
    BY <1>7, <2>2, <2>3, <2>4 DEF read_reg, write_reg
<1>8. CASE n \in 12 .. 14
  <2>1. n - 12 \in 0 .. 2
    BY <1>8
  <2>2. read_reg(s, n) = Pair(s, n - 12)
    BY <1>8 DEF read_reg
  <2>3. write_reg(s, n, read_reg(s, n)) = SetPair(s, n - 12, read_reg(s, n))
    BY <1>8 DEF write_reg
  <2> QED
    BY <2>1, <2>2, <2>3, SamePair
<1> QED
  BY <1>3, <1>4, <1>5, <1>6, <1>7, <1>8


\* Registers are made of parts: two processors that have these in common show the same.
Shared(s, t, parts) ==
  /\ \A x \in Register \cap parts : s.r[x] = t.r[x]
  /\ "flags" \in parts => s.cc = t.cc
  /\ "sp" \in parts => s.sp = t.sp
  /\ "pc" \in parts => s.pc = t.pc
  /\ "m" \in parts => \A x : Read(s, x) = Read(t, x)

LEMMA PartsOfRegister ==
  /\ \A n \in 0 .. 5 \cup {7} : RegisterOf[n + 1] \in Register /\ Parts(n) = {RegisterOf[n + 1]}
  /\ \A n \in 12 .. 14 :
       /\ PairOf[n - 11].high \in Register /\ PairOf[n - 11].low \in Register
       /\ Parts(n) = {PairOf[n - 11].high, PairOf[n - 11].low}
  /\ Parts(6) = {"h", "l", "m"} /\ Parts(8) = {"sp"} /\ Parts(9) = {"flags"}
  /\ Parts(10) = {"a", "flags"} /\ Parts(11) = {"pc"}
<1>1. \A n \in 0 .. 5 \cup {7} : RegisterOf[n + 1] \in Register /\ Parts(n) = {RegisterOf[n + 1]}
  BY RegisterOfType DEF Parts
<1>2. \A n \in 12 .. 14 : /\ PairOf[n - 11].high \in Register /\ PairOf[n - 11].low \in Register
                          /\ Parts(n) = {PairOf[n - 11].high, PairOf[n - 11].low}
  <2> TAKE n \in 12 .. 14
  <2>1. n - 12 \in 0 .. 2 /\ (n - 12) + 1 = n - 11
    OBVIOUS
  <2>2. PairOf[n - 11].high \in Register /\ PairOf[n - 11].low \in Register
    BY <2>1, PairRegisters
  <2> QED
    BY <2>2 DEF Parts
<1>3. /\ Parts(6) = {"h", "l", "m"} /\ Parts(8) = {"sp"} /\ Parts(9) = {"flags"}
      /\ Parts(10) = {"a", "flags"} /\ Parts(11) = {"pc"}
  BY DEF Parts
<1> QED
  BY <1>1, <1>2, <1>3

LEMMA SharedPair ==
  ASSUME NEW s, NEW t, NEW n \in 0 .. 2,
         s.r[PairOf[n + 1].high] = t.r[PairOf[n + 1].high],
         s.r[PairOf[n + 1].low] = t.r[PairOf[n + 1].low]
  PROVE  Pair(s, n) = Pair(t, n)
BY DEF Pair

LEMMA SharedReads ==
  ASSUME NEW s, NEW t, NEW n \in 0 .. 14, Shared(s, t, Parts(n))
  PROVE  read_reg(s, n) = read_reg(t, n)
<1> USE PartsOfRegister
<1>1. CASE n \in 0 .. 5 \cup {7}
  BY <1>1 DEF Shared, read_reg, Operand
<1>2. CASE n = 6
  <2>1. s.r["h"] = t.r["h"] /\ s.r["l"] = t.r["l"] /\ \A x : Read(s, x) = Read(t, x)
    BY <1>2 DEF Shared, Register
  <2>2. HL(s) = HL(t)
    <3>1. PairOf[2 + 1].high = "h" /\ PairOf[2 + 1].low = "l"
      BY DEF PairOf
    <3> QED
      BY <2>1, <3>1, SharedPair DEF HL
  <2> QED
    BY <1>2, <2>1, <2>2 DEF read_reg, Operand
<1>3. CASE n = 8
  BY <1>3 DEF Shared, read_reg
<1>4. CASE n = 9
  BY <1>4 DEF Shared, read_reg
<1>5. CASE n = 10
  BY <1>5 DEF Shared, read_reg, Psw, A, Register
<1>6. CASE n = 11
  BY <1>6 DEF Shared, read_reg
<1>7. CASE n \in 12 .. 14
  <2>1. n - 12 \in 0 .. 2 /\ (n - 12) + 1 = n - 11
    BY <1>7
  <2>2. s.r[PairOf[n - 11].high] = t.r[PairOf[n - 11].high]
        /\ s.r[PairOf[n - 11].low] = t.r[PairOf[n - 11].low]
    BY <1>7 DEF Shared
  <2>3. Pair(s, n - 12) = Pair(t, n - 12)
    BY <2>1, <2>2, SharedPair
  <2> QED
    BY <1>7, <2>3 DEF read_reg
<1> QED
  BY <1>1, <1>2, <1>3, <1>4, <1>5, <1>6, <1>7

\* The processor whose byte at HL was written with what it was.
Home(s) == Store(s, HL(s), Read(s, HL(s)))

LEMMA StoredReads ==
  ASSUME NEW s, Machine(s), NEW at, NEW val
  PROVE  /\ \A x : Read(Store(s, at, val), x) = IF x = at THEN val ELSE Read(s, x)
         /\ Store(s, at, val).r = s.r /\ Store(s, at, val).cc = s.cc
         /\ Store(s, at, val).sp = s.sp /\ Store(s, at, val).pc = s.pc
<1> DEFINE mem == [x \in DOMAIN s.mem \cup {at} |-> IF x = at THEN val ELSE s.mem[x]]
<1>1. Store(s, at, val) = [s EXCEPT !.mem = mem]
  BY DEF Store
<1>2. \A x : IF x \in DOMAIN mem THEN mem[x] = IF x = at THEN val ELSE s.mem[x]
             ELSE x # at /\ x \notin DOMAIN s.mem
  OBVIOUS
<1>3. DOMAIN mem = DOMAIN s.mem \cup {at}
  OBVIOUS
<1> HIDE DEF mem
<1>4. Store(s, at, val).mem = mem
  BY <1>1 DEF Machine
<1>5. \A x : Read(Store(s, at, val), x) = IF x = at THEN val ELSE Read(s, x)
  BY <1>2, <1>3, <1>4 DEF Read
<1> QED
  BY <1>1, <1>5 DEF Machine

LEMMA StoreFormed ==
  ASSUME NEW s, Machine(s), NEW at \in Word, NEW val \in Byte
  PROVE  Machine(Store(s, at, val))
<1> DEFINE mem == [x \in DOMAIN s.mem \cup {at} |-> IF x = at THEN val ELSE s.mem[x]]
<1>1. DOMAIN mem \subseteq Word /\ \A x \in DOMAIN mem : mem[x] \in Byte
  BY DEF Machine, Formed
<1>2. Store(s, at, val) = [s EXCEPT !.mem = mem]
  BY DEF Store
<1> HIDE DEF mem
<1>3. Machine([s EXCEPT !.mem = mem])
  BY <1>1 DEF Machine, Formed
<1> QED
  BY <1>2, <1>3

\* Storing a byte twice is storing it once; it leaves nothing else to rebuild.
LEMMA StoredTwice ==
  ASSUME NEW s, Machine(s), NEW at, NEW val
  PROVE  /\ Store(Store(s, at, val), at, val) = Store(s, at, val)
         /\ Store(Rebuilt(s), at, val) = Store(s, at, val)
         /\ Rebuilt(Store(s, at, val)) = Store(s, at, val)
<1> DEFINE D == DOMAIN s.mem \cup {at}
           mem == [x \in D |-> IF x = at THEN val ELSE s.mem[x]]
           one == [s EXCEPT !.mem = mem]
<1>1. Store(s, at, val) = one
  BY DEF Store
<1>2. [x \in DOMAIN mem \cup {at} |-> IF x = at THEN val ELSE mem[x]] = mem
  OBVIOUS
<1>3. Rebuilt(s).mem = s.mem
  BY DEF Rebuilt, Machine
<1>4. Store(Rebuilt(s), at, val) = [Rebuilt(s) EXCEPT !.mem = mem]
  BY <1>3 DEF Store
<1> HIDE DEF mem
<1>5. one.mem = mem
  BY DEF Machine
<1>6. [one EXCEPT !.mem = mem] = one
  OBVIOUS
<1>7. Store(one, at, val) = [one EXCEPT !.mem = mem]
  <2> HIDE DEF one
  <2>1. [x \in DOMAIN one.mem \cup {at} |-> IF x = at THEN val ELSE one.mem[x]] = mem
    BY <1>2, <1>5
  <2>2. Store(one, at, val) = [one EXCEPT !.mem = [x \in DOMAIN one.mem \cup {at} |-> IF x = at THEN val ELSE one.mem[x]]]
    BY DEF Store
  <2> QED
    BY <2>1, <2>2
<1>8. [Rebuilt(s) EXCEPT !.mem = mem] = one
  BY DEF Rebuilt
<1>9. Rebuilt(one) = one
  BY DEF Rebuilt
<1> HIDE DEF one
<1> QED
  BY <1>1, <1>4, <1>6, <1>7, <1>8, <1>9


\* Induction over the subsets of a finite set, as a statement about sets.  A smallest
\* set missing in T could not be missing.
Inductive(T, D) ==
  /\ IsFiniteSet(D) /\ {} \in T
  /\ \A s \in SUBSET D : s # {} => \E t \in s : s \ {t} \in T => s \in T

LEMMA SubsetInduction ==
  ASSUME NEW D, NEW T, Inductive(T, D)
  PROVE  SUBSET D \subseteq T
<1> USE DEF Inductive
<1> SUFFICES ASSUME (SUBSET D) \ T # {} PROVE FALSE
  OBVIOUS
<1> DEFINE missing == (SUBSET D) \ T
<1>1. missing \subseteq FiniteSubsetsOf(D)
  BY FS_Subset DEF FiniteSubsetsOf
<1>2. PICK s \in missing : \A u \in missing : <<u, s>> \notin StrictSubsetOrdering(D)
  BY <1>1, FS_StrictSubsetOrderingWellFounded, WFMin
<1>3. PICK t \in s : s \ {t} \in T => s \in T
  OBVIOUS
<1>4. s \ {t} \in missing
  BY <1>3
<1>5. <<s \ {t}, s>> \in StrictSubsetOrdering(D)
  BY DEF StrictSubsetOrdering
<1> QED
  BY <1>2, <1>4, <1>5


\* What G has made of the processor when it has written the registers in S.
Written(s, S) == IF S = {} THEN s ELSE IF 7 \in S THEN Home(s) ELSE Rebuilt(s)

LEMMA WrittenMachine ==
  ASSUME NEW s, Machine(s), NEW S
  PROVE  /\ Machine(Written(s, S))
         /\ S # {} => Rebuilt(Written(s, S)) = Written(s, S)
         /\ S = {} => Rebuilt(Written(s, S)) = Rebuilt(s)
         /\ \A n \in 0 .. 14 : read_reg(Written(s, S), n) = read_reg(s, n)
         /\ HL(Written(s, S)) = HL(s)
<1>1. HL(s) \in Word /\ Read(s, HL(s)) \in Byte
  BY PairsType, ReadType
<1>2. Machine(Home(s)) /\ Rebuilt(Home(s)) = Home(s)
  BY <1>1, StoreFormed, StoredTwice DEF Home
<1>3. Machine(Rebuilt(s)) /\ Rebuilt(Rebuilt(s)) = Rebuilt(s)
  BY RebuiltMachine
<1>4. ASSUME NEW t \in {s, Rebuilt(s), Home(s)}, NEW parts
      PROVE  Shared(t, s, parts) /\ t.r = s.r
  <2>1. Shared(s, s, parts)
    BY DEF Shared
  <2>2. Shared(Rebuilt(s), s, parts) /\ Rebuilt(s).r = s.r
    <3>1. /\ Rebuilt(s).r = s.r /\ Rebuilt(s).cc = s.cc /\ Rebuilt(s).sp = s.sp
          /\ Rebuilt(s).pc = s.pc /\ Rebuilt(s).mem = s.mem
      BY DEF Rebuilt, Machine
    <3> QED
      BY <3>1 DEF Shared, Read
  <2>3. Shared(Home(s), s, parts) /\ Home(s).r = s.r
    BY StoredReads DEF Shared, Home
  <2> QED
    BY <1>4, <2>1, <2>2, <2>3
<1>5. Written(s, S) \in {s, Rebuilt(s), Home(s)}
  BY DEF Written
<1>6. \A n \in 0 .. 14 : read_reg(Written(s, S), n) = read_reg(s, n)
  BY <1>4, <1>5, SharedReads
<1>7. HL(Written(s, S)) = HL(s)
  BY <1>4, <1>5 DEF HL, Pair
<1> QED
  BY <1>2, <1>3, <1>6, <1>7 DEF Written

LEMMA OneMoreWritten ==
  ASSUME NEW s, Machine(s), NEW S \in SUBSET (1 .. 15), NEW i \in 1 .. 15
  PROVE  write_reg(Written(s, S), i - 1, ReadRegister("i8085", s, i - 1)) = Written(s, S \cup {i})
<1>1. i - 1 \in 0 .. 14
  OBVIOUS
<1> DEFINE w == Written(s, S)
           val == ReadRegister("i8085", s, i - 1)
<1>2. val = read_reg(s, i - 1) /\ val = read_reg(w, i - 1) /\ Machine(w)
  BY <1>1, ReadRegisterIs, WrittenMachine
<1>3. CASE i # 7
  <2>1. i - 1 # 6
    BY <1>3
  <2>2. write_reg(w, i - 1, val) = Rebuilt(w)
    BY <1>1, <1>2, <2>1, PutBack
  <2>3. S \cup {i} # {} /\ (7 \in S \cup {i} <=> 7 \in S)
    BY <1>3
  <2>4. Rebuilt(w) = Written(s, S \cup {i})
    BY <2>3, WrittenMachine DEF Written
  <2> QED
    BY <2>2, <2>4
<1>4. CASE i = 7
  <2>1. HL(s) \in Word /\ Read(s, HL(s)) \in Byte
    BY PairsType, ReadType
  <2>2. val = Read(s, HL(s)) /\ Low(val) = val /\ HL(w) = HL(s)
    BY <1>2, <1>4, <2>1, LowOfByte, WrittenMachine DEF read_reg, Operand
  <2>3. write_reg(w, i - 1, val) = Store(w, HL(s), Read(s, HL(s)))
    BY <1>4, <2>2 DEF write_reg
  <2>4. w \in {s, Rebuilt(s), Home(s)}
    BY DEF Written
  <2>5. Store(w, HL(s), Read(s, HL(s))) = Home(s)
    <3> HIDE DEF w
    <3> QED
      BY <2>4, StoredTwice DEF Home
  <2>6. Written(s, S \cup {i}) = Home(s)
    BY <1>4 DEF Written
  <2> QED
    BY <2>3, <2>5, <2>6
<1> QED
  BY <1>3, <1>4

LEMMA Registers15 == IsFiniteSet(1 .. 15)
<1> DEFINE first == 1
           last == 15
<1>1. first \in Int /\ last \in Int
  OBVIOUS
<1> HIDE DEF first, last
<1>2. IsFiniteSet(first .. last)
  BY <1>1, FS_Interval
<1> QED
  BY <1>2 DEF first, last

LEMMA LargestRegister ==
  ASSUME NEW S \in SUBSET (1 .. 15), S # {}
  PROVE  Max(S) \in S
<1> DEFINE Top(u) == \E x \in u : \A y \in u : x >= y
           D == 1 .. 15
           T == {u \in SUBSET D : u = {} \/ Top(u)}
<1>1. ASSUME NEW u \in SUBSET D, u # {}, NEW i \in u, u \ {i} \in T
      PROVE  u \in T
  <2>1. CASE u \ {i} = {}
    <3>1. \A y \in u : y = i
      BY <2>1
    <3> QED
      BY <3>1
  <2>2. CASE Top(u \ {i})
    <3>1. PICK x \in u \ {i} : \A y \in u \ {i} : x >= y
      BY <2>2
    <3>2. CASE x >= i
      BY <3>1, <3>2
    <3>3. CASE i >= x
      BY <3>1, <3>3
    <3> QED
      BY <3>2, <3>3
  <2> QED
    BY <1>1, <2>1, <2>2
<1>2. IsFiniteSet(D)
  BY Registers15
<1>3. Inductive(T, D)
  BY <1>1, <1>2 DEF Inductive
<1>4. S \in SUBSET D
  OBVIOUS
<1> HIDE DEF T, D
<1>5. SUBSET D \subseteq T
  BY <1>3, SubsetInduction
<1>6. Top(S)
  BY <1>4, <1>5 DEF T
<1> QED
  BY <1>6 DEF Max

\* The registers are written one after the other; each leaves Written of those so far.
LEMMA AllWritten ==
  ASSUME NEW s, Machine(s)
  PROVE  WriteAll("i8085", s, ReadAll("i8085", s)) = Home(s)
<1> DEFINE values == ReadAll("i8085", s)
           numbers == [i \in 1 .. reg_count("i8085") |-> i]
           D == 1 .. 15
           one(x, i) == write_reg(x, i - 1, values[i])
           IsFold(g) ==
             g = [S \in SUBSET D |-> IF S = {} THEN s ELSE one(g[S \ {Max(S)}], numbers[Max(S)])]
           fold == CHOOSE g : IsFold(g)
           given == [S \in SUBSET D |-> Written(s, S)]
<1>1. reg_count("i8085") = 15
  BY DEF reg_count
<1>2. \A i \in D : numbers[i] = i /\ values[i] = ReadRegister("i8085", s, i - 1)
  BY <1>1 DEF ReadAll
<1>3. DOMAIN numbers = D
  BY <1>1
<1>4. WriteAll("i8085", s, values) = fold[D]
  BY <1>3 DEF WriteAll, FoldLeft, MapThenFoldSet
<1> HIDE DEF values, numbers
<1>5. \A S \in SUBSET D : S # {} =>
        /\ Max(S) \in S
        /\ one(Written(s, S \ {Max(S)}), numbers[Max(S)]) = Written(s, S)
  <2> TAKE S \in SUBSET D
  <2> HAVE S # {}
  <2> DEFINE i == Max(S)
  <2>1. i \in S /\ i \in D
    BY LargestRegister
  <2> HIDE DEF i
  <2>2. numbers[i] = i /\ values[i] = ReadRegister("i8085", s, i - 1)
    BY <1>2, <2>1
  <2>3. S \ {i} \in SUBSET (1 .. 15) /\ (S \ {i}) \cup {i} = S
    BY <2>1
  <2>4. write_reg(Written(s, S \ {i}), i - 1, ReadRegister("i8085", s, i - 1)) = Written(s, S)
    <3> DEFINE S0 == S \ {i}
    <3>1. S0 \in SUBSET (1 .. 15) /\ i \in 1 .. 15 /\ S0 \cup {i} = S
      BY <2>1, <2>3
    <3> HIDE DEF S0
    <3>2. write_reg(Written(s, S0), i - 1, ReadRegister("i8085", s, i - 1)) = Written(s, S0 \cup {i})
      BY <3>1, OneMoreWritten
    <3> QED
      BY <3>1, <3>2 DEF S0
  <2>5. i \in S /\ one(Written(s, S \ {i}), numbers[i]) = Written(s, S)
    BY <2>1, <2>2, <2>4
  <2> QED
    BY <2>5 DEF i
<1> HIDE DEF one
<1>6. IsFold(given)
  <2>1. \A S \in SUBSET D : S # {} => given[S] = one(given[S \ {Max(S)}], numbers[Max(S)])
    BY <1>5
  <2>2. given[{}] = s
    BY DEF Written
  <2>3. given = [S \in SUBSET D |-> given[S]]
    OBVIOUS
  <2> HIDE DEF given
  <2> QED
    BY <2>1, <2>2, <2>3
<1>7. IsFold(fold)
  BY <1>6
<1> HIDE DEF fold
<1>8. /\ fold[{}] = s
      /\ \A S \in SUBSET D : S # {} => fold[S] = one(fold[S \ {Max(S)}], numbers[Max(S)])
  BY <1>7
<1> DEFINE B == {S \in SUBSET D : fold[S] = Written(s, S)}
<1>9. {} \in B
  BY <1>8 DEF Written
<1>10. \A S \in SUBSET D : S # {} => \E t \in S : S \ {t} \in B => S \in B
  <2> TAKE S \in SUBSET D
  <2> HAVE S # {}
  <2>1. Max(S) \in S /\ one(Written(s, S \ {Max(S)}), numbers[Max(S)]) = Written(s, S)
    BY <1>5
  <2>2. S \ {Max(S)} \in B => fold[S] = Written(s, S)
    BY <1>8, <2>1
  <2> QED
    BY <2>1, <2>2
<1>11. D \in B
  <2>1. IsFiniteSet(D)
    BY Registers15
  <2> HIDE DEF B
  <2> QED
    BY <1>9, <1>10, <2>1, SubsetInduction DEF Inductive
<1>12. fold[D] = Written(s, D)
  BY <1>11
<1> QED
  BY <1>4, <1>12 DEF Written, values


\* A write of one register leaves the parts of the others alone.
LEMMA WriteElsewhere ==
  ASSUME NEW s, Machine(s), NEW n \in 0 .. 14, NEW val, NEW parts, parts \cap Parts(n) = {}
  PROVE  Shared(write_reg(s, n, val), s, parts)
<1> USE PartsOfRegister
<1>1. s.r \in [Register -> Byte] /\ {"r", "sp", "pc", "cc", "mem"} \subseteq DOMAIN s
  BY Fields DEF Machine
<1>2. CASE n \in 0 .. 5 \cup {7}
  <2>1. write_reg(s, n, val) = [s EXCEPT !.r[RegisterOf[n + 1]] = Low(val)]
    BY <1>2 DEF write_reg
  <2> QED
    BY <1>1, <1>2, <2>1 DEF Shared, Read
<1>3. CASE n = 6
  <2>1. write_reg(s, n, val) = Store(s, HL(s), Low(val)) /\ "m" \notin parts
    BY <1>3 DEF write_reg
  <2> QED
    BY <2>1, StoredReads DEF Shared
<1>4. CASE n = 8
  BY <1>1, <1>4 DEF write_reg, Shared, Read
<1>5. CASE n = 9
  <2>1. write_reg(s, n, val) = [s EXCEPT !.cc = Unpacked(s.cc, Low(val))] /\ "flags" \notin parts
    BY <1>5, UnpackStores DEF write_reg
  <2> HIDE DEF Unpacked
  <2> QED
    BY <1>1, <2>1 DEF Shared, Read
<1>6. CASE n = 10
  <2> DEFINE t == [s EXCEPT !.r["a"] = High(val)]
             cc == Unpacked(t.cc, Low(val))
  <2>1. "a" \notin parts /\ "flags" \notin parts
    BY <1>6
  <2>2. /\ \A x \in Register : x # "a" => t.r[x] = s.r[x]
        /\ t.sp = s.sp /\ t.pc = s.pc /\ t.mem = s.mem
    BY <1>1
  <2>3. write_reg(s, n, val) = unpack_flags(t, Low(val))
    BY <1>6 DEF write_reg, SetPsw
  <2>4. DOMAIN t = DOMAIN s /\ t.cc = s.cc
    BY <1>1
  <2> HIDE DEF t
  <2>5. /\ unpack_flags(t, Low(val)).r = t.r /\ unpack_flags(t, Low(val)).sp = t.sp
        /\ unpack_flags(t, Low(val)).pc = t.pc /\ unpack_flags(t, Low(val)).mem = t.mem
    BY <1>1, <2>4 DEF unpack_flags
  <2> QED
    BY <2>1, <2>2, <2>3, <2>5 DEF Shared, Read
<1>7. CASE n = 11
  BY <1>1, <1>7 DEF write_reg, Shared, Read
<1>8. CASE n \in 12 .. 14
  <2> DEFINE h == PairOf[n - 11].high
             l == PairOf[n - 11].low
  <2>1. n - 12 # 3 /\ (n - 12) + 1 = n - 11
    BY <1>8
  <2>2. write_reg(s, n, val) = [s EXCEPT !.r[h] = High(val), !.r[l] = Low(val)]
    <3>1. write_reg(s, n, val) = SetPair(s, n - 12, val)
      BY <1>8 DEF write_reg
    <3>2. PairOf[(n - 12) + 1] = PairOf[n - 11]
      BY <2>1
    <3> QED
      BY <2>1, <3>1, <3>2 DEF SetPair
  <2>3. h \in Register /\ l \in Register /\ h \notin parts /\ l \notin parts
    BY <1>8
  <2> HIDE DEF h, l
  <2> QED
    BY <1>1, <2>2, <2>3 DEF Shared, Read
<1> QED
  BY <1>2, <1>3, <1>4, <1>5, <1>6, <1>7, <1>8

\* The values of the flags register as pack_flags makes them.
LEMMA PackUnpacked ==
  ASSUME NEW cc \in Flags, NEW f \in {2, 18, 215}
  PROVE  pack_flags(Unpacked(cc, f)) = f
<1> DEFINE s == (f \div 128) % 2
           z == (f \div 64) % 2
           ac == (f \div 16) % 2
           p == (f \div 4) % 2
           cy == f % 2
           u == Unpacked(cc, f)
<1>1. 128 * s + 64 * z + 16 * ac + 4 * p + 2 + cy = f
  OBVIOUS
<1>2. u.s = s /\ u.z = z /\ u.ac = ac /\ u.p = p /\ u.cy = cy
  <2> HIDE DEF s, z, ac, p, cy
  <2>1. u = [cc EXCEPT !.s = s, !.z = z, !.ac = ac, !.p = p, !.cy = cy]
    BY DEF Unpacked, s, z, ac, p, cy
  <2> HIDE DEF u
  <2> QED
    BY <2>1 DEF Flags
<1> HIDE DEF s, z, ac, p, cy, u
<1>3. pack_flags(u) = 128 * s + 64 * z + 16 * ac + 4 * p + 2 + cy
  BY <1>2 DEF pack_flags
<1> QED
  BY <1>1, <1>3 DEF u

LEMMA SampleBytes ==
  \A val \in Samples : /\ val \in Word /\ Low(val) \in {2, 18, 215} /\ Low(val) \in Byte
                       /\ val % 256 = Low(val) /\ val % 65536 = val
BY InWord DEF Samples, Low, Byte

\* What the debugger wrote it reads again: the value, or its low byte.
LEMMA WriteHere ==
  ASSUME NEW s, Machine(s), NEW n \in 0 .. 14, NEW val \in Word,
         Low(val) \in Byte, n \in {9, 10} => Low(val) \in {2, 18, 215}
  PROVE  read_reg(write_reg(s, n, val), n) = IF n \in 0 .. 7 \cup {9} THEN Low(val) ELSE val
<1>1. s.r \in [Register -> Byte] /\ {"r", "sp", "pc", "cc", "mem"} \subseteq DOMAIN s
  BY Fields DEF Machine
<1>2. CASE n \in 0 .. 5 \cup {7}
  <2>1. write_reg(s, n, val) = [s EXCEPT !.r[RegisterOf[n + 1]] = Low(val)]
    BY <1>2 DEF write_reg
  <2>2. write_reg(s, n, val).r[RegisterOf[n + 1]] = Low(val)
    BY <1>1, <1>2, <2>1, RegisterOfType
  <2> QED
    BY <1>2, <2>2 DEF read_reg, Operand
<1>3. CASE n = 6
  <2>1. write_reg(s, n, val) = Store(s, HL(s), Low(val))
    BY <1>3 DEF write_reg
  <2>2. HL(Store(s, HL(s), Low(val))) = HL(s)
    BY StoredReads DEF HL, Pair
  <2>3. Read(Store(s, HL(s), Low(val)), HL(s)) = Low(val)
    BY StoredReads
  <2> QED
    BY <1>3, <2>1, <2>2, <2>3 DEF read_reg, Operand
<1>4. CASE n = 8
  BY <1>1, <1>4 DEF write_reg, read_reg
<1>5. CASE n = 9
  <2>1. write_reg(s, n, val) = [s EXCEPT !.cc = Unpacked(s.cc, Low(val))]
    BY <1>5, UnpackStores DEF write_reg
  <2>2. write_reg(s, n, val).cc = Unpacked(s.cc, Low(val))
    BY <1>1, <2>1
  <2> QED
    BY <1>5, <2>2, PackUnpacked, Fields DEF read_reg
<1>6. CASE n = 10
  <2> DEFINE t == [s EXCEPT !.r["a"] = High(val)]
             u == unpack_flags(t, Low(val))
  <2>1. High(val) \in Byte /\ val = 256 * High(val) + Low(val)
    BY WordBytes
  <2>2. Machine(t) /\ t.r["a"] = High(val) /\ t.cc \in Flags
    <3>1. "a" \in Register
      BY DEF Register
    <3>2. Machine(t)
      BY <2>1, <3>1, RegisterFormed
    <3>3. t.r["a"] = High(val)
      BY <1>1, <3>1
    <3> HIDE DEF t
    <3> QED
      BY <3>2, <3>3, Fields
  <2>3. write_reg(s, n, val) = u
    BY <1>6 DEF write_reg, SetPsw
  <2> HIDE DEF t
  <2>4. u = [t EXCEPT !.cc = Unpacked(t.cc, Low(val))]
    BY <2>2, UnpackStores
  <2> HIDE DEF u
  <2>5. u.r["a"] = High(val) /\ u.cc = Unpacked(t.cc, Low(val))
    BY <2>2, <2>4 DEF Machine
  <2>6. Psw(u) = val
    BY <1>6, <2>1, <2>2, <2>5, PackUnpacked DEF Psw, A
  <2> QED
    BY <1>6, <2>3, <2>6 DEF read_reg
<1>7. CASE n = 11
  BY <1>1, <1>7 DEF write_reg, read_reg
<1>8. CASE n \in 12 .. 14
  <2> DEFINE h == PairOf[(n - 12) + 1].high
             l == PairOf[(n - 12) + 1].low
             t == SetPair(s, n - 12, val)
  <2>1. n - 12 \in 0 .. 2
    BY <1>8
  <2>2. h \in Register /\ l \in Register /\ h # l
    BY <2>1 DEF PairOf, Register
  <2>3. t = [s EXCEPT !.r[h] = High(val), !.r[l] = Low(val)]
    BY <2>1 DEF SetPair
  <2>4. Pair(t, n - 12) = 256 * t.r[h] + t.r[l]
    BY <2>1 DEF Pair
  <2>5. write_reg(s, n, val) = t /\ read_reg(t, n) = Pair(t, n - 12)
    BY <1>8 DEF write_reg, read_reg
  <2> HIDE DEF h, l, t
  <2>6. t.r[h] = High(val) /\ t.r[l] = Low(val)
    BY <1>1, <2>2, <2>3
  <2> QED
    BY <1>8, <2>4, <2>5, <2>6, WordBytes
<1> QED
  BY <1>2, <1>3, <1>4, <1>5, <1>6, <1>7, <1>8

\* One write, seen by every register.
LEMMA RegisterWritten ==
  ASSUME NEW s, Machine(s), NEW n \in 0 .. 14, NEW val \in Samples, NEW k \in 0 .. 14
  PROVE  IF k = n THEN ReadRegister("i8085", WriteRegister("i8085", s, n, val), k)
                         = Shown("i8085", k, val)
         ELSE Parts(k) \cap Parts(n) = {} =>
                ReadRegister("i8085", WriteRegister("i8085", s, n, val), k)
                  = ReadRegister("i8085", s, k)
<1> DEFINE v == Shown("i8085", n, val)
           t == write_reg(s, n, v)
<1>1. WriteRegister("i8085", s, n, val) = t
  BY DEF WriteRegister, reg_set
<1>2. /\ v = IF n \in 0 .. 7 \cup {9} THEN Low(val) ELSE val
      /\ v \in Word /\ Low(v) = Low(val)
  <2>1. v = IF n \in 0 .. 7 \cup {9} THEN val % 256 ELSE val % 65536
    BY DEF Shown, reg_bytes, reg_size
  <2>2. v = IF n \in 0 .. 7 \cup {9} THEN Low(val) ELSE val
    BY <2>1, SampleBytes
  <2>3. Low(val) \in Byte /\ Low(val) \in Word /\ val \in Word /\ Low(Low(val)) = Low(val)
    BY SampleBytes, InWord, LowOfByte, ByteRange
  <2> HIDE DEF v
  <2> QED
    BY <2>2, <2>3
<1>3. \A w : ReadRegister("i8085", w, k) = Shown("i8085", k, read_reg(w, k))
  BY DEF ReadRegister, reg_get
<1>4. CASE k = n
  <2>1. read_reg(t, n) = IF n \in 0 .. 7 \cup {9} THEN Low(val) ELSE val
    <3> HIDE DEF v
    <3>1. Low(v) \in Byte /\ (n \in {9, 10} => Low(v) \in {2, 18, 215})
      BY <1>2, SampleBytes
    <3>2. read_reg(t, n) = IF n \in 0 .. 7 \cup {9} THEN Low(v) ELSE v
      BY <1>2, <3>1, WriteHere
    <3> QED
      BY <1>2, <3>2
  <2>2. read_reg(t, n) = v
    BY <1>2, <2>1
  <2>3. Shown("i8085", n, v) = v
    <3>1. Low(val) \in Byte /\ val \in Word
      BY SampleBytes
    <3> HIDE DEF v
    <3>2. CASE n \in 0 .. 7 \cup {9}
      BY <1>2, <3>1, <3>2, ShownByte
    <3>3. CASE n \in {8} \cup 10 .. 14
      BY <1>2, <3>1, <3>3, ShownWord
    <3> QED
      BY <3>2, <3>3
  <2> QED
    BY <1>1, <1>3, <1>4, <2>2, <2>3
<1>5. ASSUME k # n, Parts(k) \cap Parts(n) = {}
      PROVE  ReadRegister("i8085", t, k) = ReadRegister("i8085", s, k)
  <2>1. Shared(t, s, Parts(k))
    BY <1>5, WriteElsewhere
  <2> HIDE DEF t
  <2>2. read_reg(t, k) = read_reg(s, k)
    BY <2>1, SharedReads
  <2> QED
    BY <1>3, <2>2
<1> HIDE DEF t
<1> QED
  BY <1>1, <1>4, <1>5

\* What g and p show are the registers, P changes the one it names and none that shares
\* nothing with it, and G puts back what g has shown, flags and the byte at HL included:
\* in every state of the processor that its programs, and interrupts, can reach.
THEOREM RegistersExactHolds == Spec => []RegistersExact
<1>1. WidthInv => RegistersExact
  <2> SUFFICES ASSUME WidthInv PROVE Restores("i8085") /\ \A n \in 0 .. 14, val \in Samples :
         \E s \in {WriteRegister("i8085", m, n, val)} :
           \A k \in 0 .. 14 :
             IF k = n THEN ReadRegister("i8085", s, k) = Shown("i8085", k, val)
             ELSE Parts(k) \cap Parts(n) = {} =>
                    ReadRegister("i8085", s, k) = ReadRegister("i8085", m, k)
    BY DEF RegistersExact
  <2>1. Machine(m)
    BY DEF WidthInv
  <2>2. Restores("i8085")
    <3>1. SameState(Home(m), m)
      BY <2>1, StoredReads DEF SameState, Home
    <3> QED
      BY <2>1, <3>1, AllWritten DEF Restores
  <2> QED
    BY <2>1, <2>2, RegisterWritten
<1> QED
  BY <1>1, WidthInit, WidthNext, PTL DEF Spec

----------------------------------------------------------------------------
(* Two processors that a handler may have told apart only by hidden bytes:  *)
(* the interrupted one, s, and the undisturbed one, t.                      *)

Processor(s) ==
  {"r", "sp", "pc", "cc", "mem", "int_enable", "int_enable_delay", "hlt_enable"} \subseteq DOMAIN s

Alike(s, t, hidden) ==
  /\ Processor(s) /\ Processor(t)
  /\ s.r = t.r /\ s.cc = t.cc /\ s.pc = t.pc /\ s.sp = t.sp /\ s.hlt_enable = t.hlt_enable
  /\ Open(s) => Open(t)
  /\ \A x : x \notin hidden => Read(s, x) = Read(t, x)

\* What a store leaves in memory, and that it leaves everything else alone.
LEMMA StoredBytes ==
  ASSUME NEW s, Processor(s), NEW at, NEW val
  PROVE  /\ \A x : Read(Store(s, at, val), x) = IF x = at THEN val ELSE Read(s, x)
         /\ Processor(Store(s, at, val))
         /\ Store(s, at, val).r = s.r /\ Store(s, at, val).cc = s.cc
         /\ Store(s, at, val).sp = s.sp /\ Store(s, at, val).pc = s.pc
         /\ Store(s, at, val).hlt_enable = s.hlt_enable
         /\ Store(s, at, val).int_enable = s.int_enable
         /\ Store(s, at, val).int_enable_delay = s.int_enable_delay
<1> DEFINE mem == [x \in DOMAIN s.mem \cup {at} |-> IF x = at THEN val ELSE s.mem[x]]
<1>1. Store(s, at, val) = [s EXCEPT !.mem = mem]
  BY DEF Store
<1>2. \A x : IF x \in DOMAIN mem THEN mem[x] = IF x = at THEN val ELSE s.mem[x]
             ELSE x # at /\ x \notin DOMAIN s.mem
  OBVIOUS
<1>3. DOMAIN mem = DOMAIN s.mem \cup {at}
  OBVIOUS
<1> HIDE DEF mem
<1>4. Store(s, at, val).mem = mem
  BY <1>1 DEF Processor
<1>5. \A x : Read(Store(s, at, val), x) = IF x = at THEN val ELSE Read(s, x)
  BY <1>2, <1>3, <1>4 DEF Read
<1> QED
  BY <1>1, <1>5 DEF Processor

\* A byte that is written is the same in both from then on.
LEMMA MemWrReveals ==
  ASSUME NEW s, NEW t, NEW hidden, NEW addr, NEW val, Alike(s, t, hidden)
  PROVE  Alike(mem_wr(s, addr, val), mem_wr(t, addr, val),
               hidden \ {x \in {addr % 65536} : ~Protected(x)})
<1> DEFINE at == addr % 65536
<1>1. CASE Protected(at)
  <2>1. mem_wr(s, addr, val) = s /\ mem_wr(t, addr, val) = t
    BY <1>1 DEF mem_wr
  <2>2. hidden \ {x \in {at} : ~Protected(x)} = hidden
    BY <1>1
  <2> QED
    BY <2>1, <2>2
<1>2. CASE ~Protected(at)
  <2>1. mem_wr(s, addr, val) = Store(s, at, val) /\ mem_wr(t, addr, val) = Store(t, at, val)
    BY <1>2 DEF mem_wr
  <2> HIDE DEF at
  <2>2. Processor(s) /\ Processor(t)
    BY DEF Alike
  <2>3. \A x : x \notin hidden \ {at} => Read(Store(s, at, val), x) = Read(Store(t, at, val), x)
    BY <2>2, StoredBytes DEF Alike
  <2>4. Open(Store(s, at, val)) => Open(Store(t, at, val))
    BY <2>2, StoredBytes DEF Alike, Open
  <2>5. Alike(Store(s, at, val), Store(t, at, val), hidden \ {at})
    BY <2>2, <2>3, <2>4, StoredBytes DEF Alike
  <2>6. hidden \ {at} = hidden \ {x \in {at} : ~Protected(x)}
    BY <1>2 DEF at
  <2> QED
    BY <2>1, <2>5, <2>6 DEF at
<1> QED  BY <1>1, <1>2

LEMMA MemWrAlike ==
  ASSUME NEW s, NEW t, NEW hidden, NEW addr, NEW val, Alike(s, t, hidden)
  PROVE  Alike(mem_wr(s, addr, val), mem_wr(t, addr, val), hidden)
<1> DEFINE less == hidden \ {x \in {addr % 65536} : ~Protected(x)}
<1>1. Alike(mem_wr(s, addr, val), mem_wr(t, addr, val), less)
  BY MemWrReveals
<1>2. less \subseteq hidden
  OBVIOUS
<1> HIDE DEF less
<1> QED  BY <1>1, <1>2 DEF Alike

LEMMA StoreWordAlike ==
  ASSUME NEW s, NEW t, NEW hidden, NEW addr, NEW word, Alike(s, t, hidden)
  PROVE  Alike(StoreWord(s, addr, word), StoreWord(t, addr, word), hidden)
<1> DEFINE one(u) == mem_wr(u, addr, Low(word))
<1>1. Alike(one(s), one(t), hidden)
  BY MemWrAlike
<1>2. \A u : StoreWord(u, addr, word) = mem_wr(one(u), addr + 1, High(word))
  BY DEF StoreWord
<1> HIDE DEF one
<1> QED  BY <1>1, <1>2, MemWrAlike

\* The same value in the same field.
LEMMA FieldAlike ==
  ASSUME NEW s, NEW t, NEW hidden, NEW v, Alike(s, t, hidden)
  PROVE  /\ Alike([s EXCEPT !.r = v], [t EXCEPT !.r = v], hidden)
         /\ Alike([s EXCEPT !.cc = v], [t EXCEPT !.cc = v], hidden)
         /\ Alike([s EXCEPT !.pc = v], [t EXCEPT !.pc = v], hidden)
         /\ Alike([s EXCEPT !.sp = v], [t EXCEPT !.sp = v], hidden)
         /\ Alike([s EXCEPT !.hlt_enable = v], [t EXCEPT !.hlt_enable = v], hidden)
<1>1. Alike([s EXCEPT !.r = v], [t EXCEPT !.r = v], hidden)
  BY DEF Alike, Processor, Open, Read
<1>2. Alike([s EXCEPT !.cc = v], [t EXCEPT !.cc = v], hidden)
  BY DEF Alike, Processor, Open, Read
<1>3. Alike([s EXCEPT !.pc = v], [t EXCEPT !.pc = v], hidden)
  BY DEF Alike, Processor, Open, Read
<1>4. Alike([s EXCEPT !.sp = v], [t EXCEPT !.sp = v], hidden)
  BY DEF Alike, Processor, Open, Read
<1>5. Alike([s EXCEPT !.hlt_enable = v], [t EXCEPT !.hlt_enable = v], hidden)
  BY DEF Alike, Processor, Open, Read
<1> QED  BY <1>1, <1>2, <1>3, <1>4, <1>5

LEMMA RegisterAlike ==
  ASSUME NEW s, NEW t, NEW hidden, NEW n, NEW v, Alike(s, t, hidden)
  PROVE  Alike([s EXCEPT !.r[n] = v], [t EXCEPT !.r[n] = v], hidden)
<1> DEFINE r == [s.r EXCEPT ![n] = v]
<1>1. s.r = t.r
  BY DEF Alike
<1>2. [s EXCEPT !.r[n] = v] = [s EXCEPT !.r = r] /\ [t EXCEPT !.r[n] = v] = [t EXCEPT !.r = r]
  BY <1>1
<1> HIDE DEF r
<1> QED  BY <1>2, FieldAlike

LEMMA FlagAlike ==
  ASSUME NEW s, NEW t, NEW hidden, NEW v, Alike(s, t, hidden)
  PROVE  /\ Alike([s EXCEPT !.cc.cy = v], [t EXCEPT !.cc.cy = v], hidden)
         /\ Alike([s EXCEPT !.cc.x5 = v], [t EXCEPT !.cc.x5 = v], hidden)
<1> DEFINE one == [s.cc EXCEPT !.cy = v]
           two == [s.cc EXCEPT !.x5 = v]
<1>1. s.cc = t.cc
  BY DEF Alike
<1>2. [s EXCEPT !.cc.cy = v] = [s EXCEPT !.cc = one] /\ [t EXCEPT !.cc.cy = v] = [t EXCEPT !.cc = one]
  BY <1>1
<1>3. [s EXCEPT !.cc.x5 = v] = [s EXCEPT !.cc = two] /\ [t EXCEPT !.cc.x5 = v] = [t EXCEPT !.cc = two]
  BY <1>1
<1> HIDE DEF one, two
<1> QED  BY <1>2, <1>3, FieldAlike

\* Both have the same operands in registers.
LEMMA PairAlike ==
  ASSUME NEW s, NEW t, NEW hidden, Alike(s, t, hidden)
  PROVE  /\ \A n : Pair(s, n) = Pair(t, n)
         /\ BC(s) = BC(t) /\ DE(s) = DE(t) /\ HL(s) = HL(t) /\ A(s) = A(t)
<1>1. \A n : Pair(s, n) = Pair(t, n)
  BY DEF Alike, Pair
<1> QED  BY <1>1 DEF BC, DE, HL, A, Alike

LEMMA SetPairAlike ==
  ASSUME NEW s, NEW t, NEW hidden, NEW n, NEW word, Alike(s, t, hidden)
  PROVE  Alike(SetPair(s, n, word), SetPair(t, n, word), hidden)
<1>1. CASE n = 3
  BY <1>1, FieldAlike DEF SetPair
<1>2. CASE n # 3
  <2> DEFINE high == PairOf[n + 1].high
             low == PairOf[n + 1].low
             r == [s.r EXCEPT ![high] = High(word), ![low] = Low(word)]
  <2>1. s.r = t.r
    BY DEF Alike
  <2>2. SetPair(s, n, word) = [s EXCEPT !.r = r] /\ SetPair(t, n, word) = [t EXCEPT !.r = r]
    BY <1>2, <2>1 DEF SetPair, Alike, Processor
  <2> HIDE DEF r, high, low
  <2>3. Alike([s EXCEPT !.r = r], [t EXCEPT !.r = r], hidden)
    BY FieldAlike
  <2> QED  BY <2>2, <2>3, Zenon
<1> QED  BY <1>1, <1>2

LEMMA AssignAlike ==
  ASSUME NEW s, NEW t, NEW hidden, NEW n, NEW byte, Alike(s, t, hidden)
  PROVE  Alike(Assign(s, n, byte), Assign(t, n, byte), hidden)
<1>1. CASE n = 6
  <2>1. HL(s) = HL(t)
    BY PairAlike
  <2>2. Assign(s, n, byte) = mem_wr(s, HL(s), byte) /\ Assign(t, n, byte) = mem_wr(t, HL(s), byte)
    BY <1>1, <2>1 DEF Assign
  <2> QED  BY <2>2, MemWrAlike
<1>2. CASE n # 6
  BY <1>2, RegisterAlike DEF Assign
<1> QED  BY <1>1, <1>2

LEMMA SkipAlike ==
  ASSUME NEW s, NEW t, NEW hidden, NEW n, Alike(s, t, hidden)
  PROVE  Alike(Skip(s, n), Skip(t, n), hidden)
<1> DEFINE pc == (s.pc + n) % 65536
<1>1. Skip(s, n) = [s EXCEPT !.pc = pc] /\ Skip(t, n) = [t EXCEPT !.pc = pc]
  BY DEF Skip, Alike
<1> HIDE DEF pc
<1>2. Alike([s EXCEPT !.pc = pc], [t EXCEPT !.pc = pc], hidden)
  BY FieldAlike
<1> QED  BY <1>1, <1>2, Zenon

LEMMA AccumulateAlike ==
  ASSUME NEW s, NEW t, NEW hidden, NEW result, Alike(s, t, hidden)
  PROVE  Alike(Accumulate(s, result), Accumulate(t, result), hidden)
<1> DEFINE one(u) == [u EXCEPT !.r["a"] = result.byte]
<1>1. Alike(one(s), one(t), hidden)
  BY RegisterAlike
<1>2. /\ Accumulate(s, result) = [one(s) EXCEPT !.cc = result.cc]
      /\ Accumulate(t, result) = [one(t) EXCEPT !.cc = result.cc]
  BY DEF Accumulate, Alike, Processor
<1> HIDE DEF one
<1>3. Alike([one(s) EXCEPT !.cc = result.cc], [one(t) EXCEPT !.cc = result.cc], hidden)
  BY <1>1, FieldAlike
<1> QED  BY <1>2, <1>3, Zenon

LEMMA SetWordAlike ==
  ASSUME NEW s, NEW t, NEW hidden, NEW n, NEW result, Alike(s, t, hidden)
  PROVE  Alike(SetWord(s, n, result), SetWord(t, n, result), hidden)
<1>1. Alike(SetPair(s, n, result.word), SetPair(t, n, result.word), hidden)
  BY SetPairAlike
<1> QED  BY <1>1, FieldAlike DEF SetWord

LEMMA LogicAlike ==
  ASSUME NEW s, NEW t, NEW hidden, NEW byte, NEW ac, Alike(s, t, hidden)
  PROVE  Alike(Logic(s, byte, ac), Logic(t, byte, ac), hidden)
<1> DEFINE one(u) == [u EXCEPT !.r["a"] = byte]
           flags == LogicFlagsA(s.cc, byte, ac)
<1>1. Alike(one(s), one(t), hidden)
  BY RegisterAlike
<1>2. /\ Logic(s, byte, ac) = [one(s) EXCEPT !.cc = flags]
      /\ Logic(t, byte, ac) = [one(t) EXCEPT !.cc = flags]
  BY DEF Logic, Alike, Processor
<1> HIDE DEF one, flags
<1>3. Alike([one(s) EXCEPT !.cc = flags], [one(t) EXCEPT !.cc = flags], hidden)
  BY <1>1, FieldAlike
<1> QED  BY <1>2, <1>3, Zenon


\* Opcodes 00-3F.
LEMMA SpecialAlike ==
  ASSUME NEW s, NEW t, NEW hidden, NEW y, NEW imm, Alike(s, t, hidden)
  PROVE  Alike(Special(s, y, imm), Special(t, y, imm), hidden)
<1>1. s.cc = t.cc /\ s.sp = t.sp /\ BC(s) = BC(t) /\ DE(s) = DE(t) /\ HL(s) = HL(t)
  BY PairAlike DEF Alike
<1>2. \A n, result : Alike(SetWord(s, n, result), SetWord(t, n, result), hidden)
  BY SetWordAlike
<1>3. \A n, word : Alike(Skip(SetPair(s, n, word), 1), Skip(SetPair(t, n, word), 1), hidden)
  BY SetPairAlike, SkipAlike
<1> QED  BY <1>1, <1>2, <1>3 DEF Special

\* The bytes that a load reads.
LoadClear(s, y, word, hidden) ==
  /\ y \in {1, 3} => Pair(s, y \div 2) \notin hidden
  /\ y = 5 => word \notin hidden /\ word + 1 \notin hidden
  /\ y = 7 => word \notin hidden

LEMMA PeekAlike ==
  ASSUME NEW s, NEW t, NEW hidden, Alike(s, t, hidden)
  PROVE  /\ \A addr, beyond : addr \notin hidden => Peek(s, addr, beyond) = Peek(t, addr, beyond)
         /\ \A addr, beyond : addr \notin hidden /\ addr + 1 \notin hidden =>
              PeekWord(s, addr, beyond) = PeekWord(t, addr, beyond)
<1>1. \A addr, beyond : addr \notin hidden => Peek(s, addr, beyond) = Peek(t, addr, beyond)
  BY DEF Alike, Peek
<1> QED  BY <1>1 DEF PeekWord

LEMMA LoadStoreAlike ==
  ASSUME NEW s, NEW t, NEW hidden, NEW y \in 0 .. 7, NEW word, NEW beyond, Alike(s, t, hidden),
         LoadClear(s, y, word, hidden)
  PROVE  Alike(LoadStore(s, y, word, beyond), LoadStore(t, y, word, beyond), hidden)
<1>1. /\ Pair(s, y \div 2) = Pair(t, y \div 2) /\ A(s) = A(t) /\ HL(s) = HL(t)
  BY PairAlike
<1>2. CASE y \in {0, 2}
  BY <1>1, <1>2, MemWrAlike DEF LoadStore
<1>3. CASE y \in {1, 3}
  <2> DEFINE byte == Read(s, Pair(s, y \div 2))
  <2>1. byte = Read(t, Pair(t, y \div 2))
    BY <1>1, <1>3 DEF LoadClear, Alike
  <2>2. LoadStore(s, y, word, beyond) = [s EXCEPT !.r["a"] = byte]
        /\ LoadStore(t, y, word, beyond) = [t EXCEPT !.r["a"] = byte]
    BY <1>3, <2>1 DEF LoadStore
  <2> HIDE DEF byte
  <2>3. Alike([s EXCEPT !.r["a"] = byte], [t EXCEPT !.r["a"] = byte], hidden)
    BY RegisterAlike
  <2> QED  BY <2>2, <2>3, Zenon
<1>4. CASE y = 4
  BY <1>1, <1>4, StoreWordAlike, SkipAlike DEF LoadStore
<1>5. CASE y = 5
  <2> DEFINE read == PeekWord(s, word, beyond)
  <2>1. read = PeekWord(t, word, beyond)
    BY <1>5, PeekAlike DEF LoadClear
  <2>2. LoadStore(s, y, word, beyond) = Skip(SetPair(s, 2, read), 2)
        /\ LoadStore(t, y, word, beyond) = Skip(SetPair(t, 2, read), 2)
    BY <1>5, <2>1 DEF LoadStore
  <2> HIDE DEF read
  <2> QED  BY <2>2, SetPairAlike, SkipAlike
<1>6. CASE y = 6
  BY <1>1, <1>6, MemWrAlike, SkipAlike DEF LoadStore
<1>7. CASE y = 7
  <2> DEFINE byte == Read(s, word)
  <2>1. byte = Read(t, word)
    BY <1>7 DEF LoadClear, Alike
  <2>2. LoadStore(s, y, word, beyond) = [Skip(s, 2) EXCEPT !.r["a"] = byte]
        /\ LoadStore(t, y, word, beyond) = [Skip(t, 2) EXCEPT !.r["a"] = byte]
    BY <1>7, <2>1 DEF LoadStore
  <2> HIDE DEF byte
  <2>3. Alike(Skip(s, 2), Skip(t, 2), hidden)
    BY SkipAlike
  <2>4. Alike([Skip(s, 2) EXCEPT !.r["a"] = byte], [Skip(t, 2) EXCEPT !.r["a"] = byte], hidden)
    BY <2>3, RegisterAlike
  <2> QED  BY <2>2, <2>4, Zenon
<1> QED  BY <1>2, <1>3, <1>4, <1>5, <1>6, <1>7

LEMMA StepPairAlike ==
  ASSUME NEW s, NEW t, NEW hidden, NEW n, NEW by, Alike(s, t, hidden)
  PROVE  Alike(StepPair(s, n, by), StepPair(t, n, by), hidden)
<1> DEFINE word == (Pair(s, n) + by) % 65536
           x5 == Set(word = IF by = 1 THEN 0 ELSE 65535)
<1>1. Pair(s, n) = Pair(t, n)
  BY PairAlike
<1>2. StepPair(s, n, by) = [SetPair(s, n, word) EXCEPT !.cc.x5 = x5]
      /\ StepPair(t, n, by) = [SetPair(t, n, word) EXCEPT !.cc.x5 = x5]
  BY <1>1 DEF StepPair
<1> HIDE DEF word, x5
<1>3. Alike(SetPair(s, n, word), SetPair(t, n, word), hidden)
  BY SetPairAlike
<1>4. Alike([SetPair(s, n, word) EXCEPT !.cc.x5 = x5], [SetPair(t, n, word) EXCEPT !.cc.x5 = x5], hidden)
  BY <1>3, FlagAlike
<1> QED  BY <1>2, <1>4, Zenon

LEMMA OperandAlike ==
  ASSUME NEW s, NEW t, NEW hidden, NEW n, Alike(s, t, hidden), n = 6 => HL(s) \notin hidden
  PROVE  Operand(s, n) = Operand(t, n)
<1>1. HL(s) = HL(t)
  BY PairAlike
<1> QED  BY <1>1 DEF Operand, Alike

LEMMA CountAlike ==
  ASSUME NEW s, NEW t, NEW hidden, NEW n, Alike(s, t, hidden), n = 6 => HL(s) \notin hidden
  PROVE  /\ Alike(Increment(s, n), Increment(t, n), hidden)
         /\ Alike(Decrement(s, n), Decrement(t, n), hidden)
<1> DEFINE up == PreserveCarry(s.cc, addByte(s.cc, Operand(s, n), 1))
           down == PreserveCarry(s.cc, subtractByte(s.cc, Operand(s, n), 1))
<1>1. s.cc = t.cc /\ Operand(s, n) = Operand(t, n)
  BY OperandAlike DEF Alike
<1>2. /\ Increment(s, n) = Assign([s EXCEPT !.cc = up.cc], n, up.byte)
      /\ Increment(t, n) = Assign([t EXCEPT !.cc = up.cc], n, up.byte)
      /\ Decrement(s, n) = Assign([s EXCEPT !.cc = down.cc], n, down.byte)
      /\ Decrement(t, n) = Assign([t EXCEPT !.cc = down.cc], n, down.byte)
  BY <1>1 DEF Increment, Decrement
<1> HIDE DEF up, down
<1>3. \A cc, byte : Alike(Assign([s EXCEPT !.cc = cc], n, byte), Assign([t EXCEPT !.cc = cc], n, byte), hidden)
  BY FieldAlike, AssignAlike
<1> QED  BY <1>2, <1>3

LEMMA AdjustAlike ==
  ASSUME NEW s, NEW t, NEW hidden, NEW y, Alike(s, t, hidden)
  PROVE  Alike(Adjust(s, y), Adjust(t, y), hidden)
<1>1. s.cc = t.cc /\ A(s) = A(t) /\ s.r["a"] = t.r["a"]
  BY PairAlike DEF Alike
<1>2. \A result : Alike(Accumulate(s, result), Accumulate(t, result), hidden)
  BY AccumulateAlike
<1>3. \A val : Alike([s EXCEPT !.r["a"] = val], [t EXCEPT !.r["a"] = val], hidden)
  BY RegisterAlike
<1>4. \A val : Alike([s EXCEPT !.cc.cy = val], [t EXCEPT !.cc.cy = val], hidden)
  BY FlagAlike
<1>5. Alike([s EXCEPT !.r["a"] = 255 - @], [t EXCEPT !.r["a"] = 255 - @], hidden)
  BY <1>1, <1>3
<1>6. Alike([s EXCEPT !.cc.cy = 1 - @], [t EXCEPT !.cc.cy = 1 - @], hidden)
  BY <1>1, <1>4
<1> QED  BY <1>1, <1>2, <1>4, <1>5, <1>6 DEF Adjust

FirstQuarterClear(s, y, z, word, hidden) ==
  /\ z = 2 => LoadClear(s, y, word, hidden)
  /\ z \in {4, 5} /\ y = 6 => HL(s) \notin hidden

LEMMA FirstQuarterAlike ==
  ASSUME NEW s, NEW t, NEW hidden, NEW y \in 0 .. 7, NEW z \in 0 .. 7, NEW imm, NEW word, NEW beyond,
         Alike(s, t, hidden), FirstQuarterClear(s, y, z, word, hidden)
  PROVE  Alike(FirstQuarter(s, y, z, imm, word, beyond), FirstQuarter(t, y, z, imm, word, beyond), hidden)
<1>1. CASE z = 0
  BY <1>1, SpecialAlike DEF FirstQuarter
<1>2. CASE z = 1
  <2>1. y % 2 \in {0, 1}
    OBVIOUS
  <2>2. CASE y % 2 = 0
    BY <1>2, <2>2, SetPairAlike, SkipAlike DEF FirstQuarter
  <2>3. CASE y % 2 = 1
    <3>1. s.cc = t.cc /\ HL(s) = HL(t) /\ Pair(s, y \div 2) = Pair(t, y \div 2)
      BY PairAlike DEF Alike
    <3> QED  BY <1>2, <2>3, <3>1, SetWordAlike DEF FirstQuarter, DoubleAdd
  <2> QED  BY <2>1, <2>2, <2>3
<1>3. CASE z = 2
  BY <1>3, LoadStoreAlike DEF FirstQuarter, FirstQuarterClear
<1>4. CASE z = 3
  BY <1>4, StepPairAlike DEF FirstQuarter
<1>5. CASE z = 4
  BY <1>5, CountAlike DEF FirstQuarter, FirstQuarterClear
<1>6. CASE z = 5
  BY <1>6, CountAlike DEF FirstQuarter, FirstQuarterClear
<1>7. CASE z = 6
  BY <1>7, AssignAlike, SkipAlike DEF FirstQuarter
<1>8. CASE z = 7
  BY <1>8, AdjustAlike DEF FirstQuarter
<1> QED  BY <1>1, <1>2, <1>3, <1>4, <1>5, <1>6, <1>7, <1>8

\* Opcodes 40-BF.
LEMMA MoveAlike ==
  ASSUME NEW s, NEW t, NEW hidden, NEW y, NEW z, Alike(s, t, hidden), z = 6 => HL(s) \notin hidden
  PROVE  Alike(Move(s, y, z), Move(t, y, z), hidden)
<1>1. Operand(s, z) = Operand(t, z)
  BY OperandAlike
<1>2. \A byte : Alike(Assign(s, y, byte), Assign(t, y, byte), hidden)
  BY AssignAlike
<1>3. \A v : Alike([s EXCEPT !.hlt_enable = v], [t EXCEPT !.hlt_enable = v], hidden)
  BY FieldAlike
<1> QED  BY <1>1, <1>2, <1>3 DEF Move

LEMMA ComputeAlike ==
  ASSUME NEW s, NEW t, NEW hidden, NEW y, NEW x, Alike(s, t, hidden)
  PROVE  Alike(Compute(s, y, x), Compute(t, y, x), hidden)
<1>1. s.cc = t.cc /\ A(s) = A(t)
  BY PairAlike DEF Alike
<1>2. \A result : Alike(Accumulate(s, result), Accumulate(t, result), hidden)
  BY AccumulateAlike
<1>3. \A byte, ac : Alike(Logic(s, byte, ac), Logic(t, byte, ac), hidden)
  BY LogicAlike
<1>4. \A cc : Alike([s EXCEPT !.cc = cc], [t EXCEPT !.cc = cc], hidden)
  BY FieldAlike
<1>5. CASE y \in {0, 1, 2, 3}
  BY <1>1, <1>2, <1>5 DEF Compute
<1>6. CASE y \in {4, 5, 6}
  BY <1>1, <1>3, <1>6 DEF Compute
<1>7. CASE y \notin 0 .. 6
  BY <1>1, <1>4, <1>7 DEF Compute
<1> QED  BY <1>5, <1>6, <1>7


\* Opcodes C0-FF.  A word that is pushed is the same in both, where it can be written.
Under(sp) == {x \in {Below(sp, 1), Below(sp, 2)} : ~Protected(x)}

LEMMA LessHidden ==
  ASSUME NEW s, NEW t, NEW hidden, NEW less, less \subseteq hidden, Alike(s, t, less)
  PROVE  Alike(s, t, hidden)
BY DEF Alike

LEMMA PushAlike ==
  ASSUME NEW s, NEW t, NEW hidden, NEW word, Alike(s, t, hidden)
  PROVE  Alike(Push(s, word), Push(t, word), hidden \ Under(s.sp))
<1> DEFINE sp == s.sp
           one(u) == mem_wr(u, sp - 1, High(word))
           two(u) == mem_wr(one(u), sp - 2, Low(word))
           first == {x \in {(sp - 1) % 65536} : ~Protected(x)}
           second == {x \in {(sp - 2) % 65536} : ~Protected(x)}
           less == (hidden \ first) \ second
<1>1. sp = s.sp /\ sp = t.sp
  BY DEF Alike
<1>2. /\ Push(s, word) = [two(s) EXCEPT !.sp = (@ - 2) % 65536]
      /\ Push(t, word) = [two(t) EXCEPT !.sp = (@ - 2) % 65536]
  BY <1>1 DEF Push
<1>3. less = hidden \ Under(sp)
  BY DEF Under, Below
<1> HIDE DEF sp
<1>4. Alike(one(s), one(t), hidden \ first)
  BY MemWrReveals
<1> HIDE DEF one
<1>5. Alike(two(s), two(t), less)
  BY <1>4, MemWrReveals
<1> HIDE DEF two, less
<1> DEFINE new == (two(s).sp - 2) % 65536
<1>6. Push(s, word) = [two(s) EXCEPT !.sp = new] /\ Push(t, word) = [two(t) EXCEPT !.sp = new]
  BY <1>2, <1>5 DEF Alike
<1> HIDE DEF new
<1>7. Alike([two(s) EXCEPT !.sp = new], [two(t) EXCEPT !.sp = new], less)
  BY <1>5, FieldAlike
<1> QED  BY <1>1, <1>3, <1>6, <1>7, Zenon

LEMMA CallAlike ==
  ASSUME NEW s, NEW t, NEW hidden, NEW addr, Alike(s, t, hidden)
  PROVE  /\ Alike(call(s, addr), call(t, addr), hidden \ Under(s.sp))
         /\ Alike(rst(s, addr), rst(t, addr), hidden \ Under(s.sp))
<1> DEFINE less == hidden \ Under(s.sp)
<1>1. s.pc = t.pc
  BY DEF Alike
<1>2. \A word : Alike(Push(s, word), Push(t, word), less)
  BY PushAlike
<1> HIDE DEF less
<1>3. ASSUME NEW word
      PROVE  Alike([Push(s, word) EXCEPT !.pc = addr], [Push(t, word) EXCEPT !.pc = addr], less)
  <2>1. Alike(Push(s, word), Push(t, word), less)
    BY <1>2
  <2> QED  BY <2>1, FieldAlike
<1> DEFINE word == (s.pc + 2) % 65536
<1>4. call(s, addr) = [Push(s, word) EXCEPT !.pc = addr] /\ call(t, addr) = [Push(t, word) EXCEPT !.pc = addr]
  BY <1>1 DEF call
<1>5. rst(s, addr) = [Push(s, s.pc) EXCEPT !.pc = addr] /\ rst(t, addr) = [Push(t, s.pc) EXCEPT !.pc = addr]
  BY <1>1 DEF rst
<1> HIDE DEF word
<1>6. Alike(call(s, addr), call(t, addr), less)
  BY <1>3, <1>4, Zenon
<1>7. Alike(rst(s, addr), rst(t, addr), less)
  BY <1>3, <1>5, Zenon
<1> QED  BY <1>6, <1>7 DEF less

LEMMA ReturnToCallerAlike ==
  ASSUME NEW s, NEW t, NEW hidden, NEW beyond, Alike(s, t, hidden),
         s.sp \notin hidden, s.sp + 1 \notin hidden
  PROVE  Alike(returnToCaller(s, beyond), returnToCaller(t, beyond), hidden)
<1> DEFINE top == PeekWord(s, s.sp, beyond)
           sp == (s.sp + 2) % 65536
<1>1. s.sp = t.sp
  BY DEF Alike
<1>2. top = PeekWord(t, t.sp, beyond)
  BY <1>1, PeekAlike
<1>3. /\ returnToCaller(s, beyond) = [[s EXCEPT !.pc = top] EXCEPT !.sp = sp]
      /\ returnToCaller(t, beyond) = [[t EXCEPT !.pc = top] EXCEPT !.sp = sp]
  BY <1>1, <1>2 DEF returnToCaller, Alike, Processor
<1> HIDE DEF top, sp
<1>4. Alike([s EXCEPT !.pc = top], [t EXCEPT !.pc = top], hidden)
  BY FieldAlike
<1>5. Alike([[s EXCEPT !.pc = top] EXCEPT !.sp = sp], [[t EXCEPT !.pc = top] EXCEPT !.sp = sp], hidden)
  BY <1>4, FieldAlike
<1> QED  BY <1>3, <1>5, Zenon

LEMMA JumpAlike ==
  ASSUME NEW s, NEW t, NEW hidden, NEW taken, NEW word, Alike(s, t, hidden)
  PROVE  Alike(Jump(s, taken, word), Jump(t, taken, word), hidden)
<1>1. Alike([s EXCEPT !.pc = word], [t EXCEPT !.pc = word], hidden)
  BY FieldAlike
<1>2. Alike(Skip(s, 2), Skip(t, 2), hidden)
  BY SkipAlike
<1> QED  BY <1>1, <1>2 DEF Jump

PoppedFlags(s, flags, acc, sp) == [s EXCEPT !.cc = flags, !.r["a"] = acc, !.sp = sp]
PoppedWord(s, n, top) == [SetPair(s, n, top) EXCEPT !.sp = (@ + 2) % 65536]

LEMMA FlagsPoppedAlike ==
  ASSUME NEW s, NEW t, NEW hidden, NEW flags, NEW acc, NEW sp, Alike(s, t, hidden)
  PROVE  Alike(PoppedFlags(s, flags, acc, sp), PoppedFlags(t, flags, acc, sp), hidden)
<1> DEFINE one(u) == [u EXCEPT !.cc = flags]
           two(u) == [one(u) EXCEPT !.r["a"] = acc]
<1>1. Alike(one(s), one(t), hidden)
  BY FieldAlike
<1>2. /\ PoppedFlags(s, flags, acc, sp) = [two(s) EXCEPT !.sp = sp]
      /\ PoppedFlags(t, flags, acc, sp) = [two(t) EXCEPT !.sp = sp]
  BY DEF Alike, Processor, PoppedFlags
<1> HIDE DEF one
<1>3. Alike(two(s), two(t), hidden)
  BY <1>1, RegisterAlike
<1> HIDE DEF two
<1>4. Alike([two(s) EXCEPT !.sp = sp], [two(t) EXCEPT !.sp = sp], hidden)
  BY <1>3, FieldAlike
<1> QED  BY <1>2, <1>4, Zenon

LEMMA WordPoppedAlike ==
  ASSUME NEW s, NEW t, NEW hidden, NEW n, NEW top, Alike(s, t, hidden)
  PROVE  Alike(PoppedWord(s, n, top), PoppedWord(t, n, top), hidden)
<1> DEFINE one(u) == SetPair(u, n, top)
           new == (one(s).sp + 2) % 65536
<1>1. Alike(one(s), one(t), hidden)
  BY SetPairAlike
<1>2. /\ PoppedWord(s, n, top) = [one(s) EXCEPT !.sp = (one(s).sp + 2) % 65536]
      /\ PoppedWord(t, n, top) = [one(t) EXCEPT !.sp = (one(t).sp + 2) % 65536]
  BY DEF PoppedWord
<1> HIDE DEF one
<1>3. one(s).sp = one(t).sp
  BY <1>1 DEF Alike
<1>4. PoppedWord(s, n, top) = [one(s) EXCEPT !.sp = new] /\ PoppedWord(t, n, top) = [one(t) EXCEPT !.sp = new]
  BY <1>2, <1>3
<1> HIDE DEF new
<1>5. Alike([one(s) EXCEPT !.sp = new], [one(t) EXCEPT !.sp = new], hidden)
  BY <1>1, FieldAlike
<1> QED  BY <1>4, <1>5, Zenon

\* The bytes that POP reads; the one of the flags wraps.
PopClear(s, n, hidden) ==
  /\ s.sp \notin hidden
  /\ n = 3 => (s.sp + 1) % 65536 \notin hidden
  /\ n # 3 => s.sp + 1 \notin hidden

LEMMA PopAlike ==
  ASSUME NEW s, NEW t, NEW hidden, NEW n, NEW beyond, Alike(s, t, hidden), PopClear(s, n, hidden)
  PROVE  Alike(Pop(s, n, beyond), Pop(t, n, beyond), hidden)
<1>1. s.sp = t.sp
  BY DEF Alike
<1>2. CASE n = 3
  <2> DEFINE flags(u) == FlagsOf(Read(u, s.sp))
             next == (s.sp + 1) % 65536
             acc(u) == Read(u, next)
             sp == (s.sp + 2) % 65536
  <2>1. next \notin hidden
    BY <1>2 DEF PopClear
  <2>2. /\ Pop(s, n, beyond) = PoppedFlags(s, flags(s), acc(s), sp)
        /\ Pop(t, n, beyond) = PoppedFlags(t, flags(t), acc(t), sp)
    BY <1>1, <1>2 DEF Pop, PoppedFlags
  <2>3. Read(s, s.sp) = Read(t, s.sp)
    BY <1>1 DEF Alike, PopClear
  <2> HIDE DEF next, sp
  <2>4. acc(s) = acc(t)
    BY <2>1 DEF Alike
  <2>5. flags(s) = flags(t)
    BY <2>3, Zenon
  <2> HIDE DEF flags, acc
  <2>6. Alike(PoppedFlags(s, flags(s), acc(s), sp), PoppedFlags(t, flags(s), acc(s), sp), hidden)
    BY FlagsPoppedAlike, Zenon
  <2> QED  BY <2>2, <2>4, <2>5, <2>6, Zenon
<1>3. CASE n # 3
  <2> DEFINE top == PeekWord(s, s.sp, beyond)
  <2>1. top = PeekWord(t, t.sp, beyond)
    BY <1>1, <1>3, PeekAlike DEF PopClear
  <2>2. Pop(s, n, beyond) = PoppedWord(s, n, top) /\ Pop(t, n, beyond) = PoppedWord(t, n, top)
    BY <1>3, <2>1 DEF Pop, PoppedWord
  <2> HIDE DEF top
  <2>3. Alike(PoppedWord(s, n, top), PoppedWord(t, n, top), hidden)
    BY WordPoppedAlike, Zenon
  <2> QED  BY <2>2, <2>3, Zenon
<1> QED  BY <1>2, <1>3

LEMMA PushPairAlike ==
  ASSUME NEW s, NEW t, NEW hidden, NEW n, Alike(s, t, hidden)
  PROVE  Alike(PushPair(s, n), PushPair(t, n), hidden \ Under(s.sp))
<1> DEFINE word == IF n = 3 THEN 256 * A(s) + PswByte(s.cc) ELSE Pair(s, n)
<1>1. A(s) = A(t) /\ s.cc = t.cc /\ Pair(s, n) = Pair(t, n)
  BY PairAlike DEF Alike
<1>2. PushPair(s, n) = Push(s, word) /\ PushPair(t, n) = Push(t, word)
  BY <1>1 DEF PushPair
<1> HIDE DEF word
<1>3. Alike(Push(s, word), Push(t, word), hidden \ Under(s.sp))
  BY PushAlike
<1> QED  BY <1>2, <1>3, Zenon

LEMMA ExchangeTopAlike ==
  ASSUME NEW s, NEW t, NEW hidden, NEW beyond, Alike(s, t, hidden),
         s.sp \notin hidden, s.sp + 1 \notin hidden
  PROVE  Alike(ExchangeTop(s, beyond), ExchangeTop(t, beyond), hidden)
<1> DEFINE top == PeekWord(s, s.sp, beyond)
           one(u) == StoreWord(u, s.sp, HL(s))
<1>1. s.sp = t.sp /\ HL(s) = HL(t)
  BY PairAlike DEF Alike
<1>2. top = PeekWord(t, t.sp, beyond)
  BY <1>1, PeekAlike
<1>3. ExchangeTop(s, beyond) = SetPair(one(s), 2, top) /\ ExchangeTop(t, beyond) = SetPair(one(t), 2, top)
  BY <1>1, <1>2, Zenon DEF ExchangeTop
<1>4. Alike(one(s), one(t), hidden)
  BY StoreWordAlike
<1> HIDE DEF top, one
<1>5. Alike(SetPair(one(s), 2, top), SetPair(one(t), 2, top), hidden)
  BY <1>4, SetPairAlike
<1> QED  BY <1>3, <1>5, Zenon

LEMMA SwitchAlike ==
  ASSUME NEW s, NEW t, NEW hidden, Alike(s, t, hidden)
  PROVE  /\ Alike(Core!DisableInterrupts(s), Core!DisableInterrupts(t), hidden)
         /\ Alike(Core!EnableInterrupts(s), Core!EnableInterrupts(t), hidden)
<1>1. Alike(Core!DisableInterrupts(s), Core!DisableInterrupts(t), hidden)
  BY DEF Core!DisableInterrupts, Alike, Processor, Open, Read
<1>2. Alike(Core!EnableInterrupts(s), Core!EnableInterrupts(t), hidden)
  BY DEF Core!EnableInterrupts, Alike, Processor, Open, Read
<1> QED  BY <1>1, <1>2

\* The bytes that an instruction of the last quarter reads from memory.
LastQuarterClear(s, y, z, hidden) ==
  /\ (z = 0 \/ (z = 1 /\ y = 1) \/ (z = 3 /\ y = 4)) => s.sp \notin hidden /\ s.sp + 1 \notin hidden
  /\ (z = 1 /\ y % 2 = 0) => PopClear(s, y \div 2, hidden)
  /\ (z = 5 /\ y = 5) => DE(s) \notin hidden /\ DE(s) + 1 \notin hidden

LEMMA ReturnAlike ==
  ASSUME NEW s, NEW t, NEW hidden, NEW y, NEW beyond, Alike(s, t, hidden),
         y = 1 => s.sp \notin hidden /\ s.sp + 1 \notin hidden
  PROVE  Alike(Return(s, y, beyond), Return(t, y, beyond), hidden)
<1>1. HL(s) = HL(t) /\ DE(s) = DE(t)
  BY PairAlike
<1>2. CASE y = 1
  BY <1>2, ReturnToCallerAlike DEF Return
<1>3. \A addr, word : Alike(StoreWord(s, addr, word), StoreWord(t, addr, word), hidden)
  BY StoreWordAlike
<1>4. \A v : /\ Alike([s EXCEPT !.pc = v], [t EXCEPT !.pc = v], hidden)
             /\ Alike([s EXCEPT !.sp = v], [t EXCEPT !.sp = v], hidden)
  BY FieldAlike
<1>5. CASE y = 3
  BY <1>1, <1>3, <1>5 DEF Return
<1>6. CASE y = 5
  <2> DEFINE word == HL(s)
  <2>1. Return(s, y, beyond) = [s EXCEPT !.pc = word] /\ Return(t, y, beyond) = [t EXCEPT !.pc = word]
    BY <1>1, <1>6 DEF Return
  <2> HIDE DEF word
  <2> QED  BY <1>4, <2>1, Zenon
<1>7. CASE y \notin {1, 3, 5}
  <2> DEFINE word == HL(s)
  <2>1. Return(s, y, beyond) = [s EXCEPT !.sp = word] /\ Return(t, y, beyond) = [t EXCEPT !.sp = word]
    BY <1>1, <1>7 DEF Return
  <2> HIDE DEF word
  <2> QED  BY <1>4, <2>1, Zenon
<1> QED  BY <1>2, <1>5, <1>6, <1>7

\* After RSTV has called its routine, the word it has pushed is known.
Known(s, u, hidden) == IF u.sp = s.sp THEN hidden ELSE hidden \ Under(s.sp)

LEMMA RestartAlike ==
  ASSUME NEW s, NEW t, NEW hidden, Alike(s, t, hidden)
  PROVE  Alike(RestartOnOverflow(s), RestartOnOverflow(t), Known(s, RestartOnOverflow(s), hidden))
<1>1. s.cc = t.cc
  BY DEF Alike
<1>2. CASE s.cc.v = 1
  <2>1. Alike(rst(s, 64), rst(t, 64), hidden \ Under(s.sp))
    BY CallAlike
  <2>2. Alike(rst(s, 64), rst(t, 64), hidden)
    BY <2>1, LessHidden
  <2> QED  BY <1>1, <1>2, <2>1, <2>2 DEF RestartOnOverflow, Known
<1>3. CASE s.cc.v # 1
  BY <1>1, <1>3 DEF RestartOnOverflow, Known
<1> QED  BY <1>2, <1>3

LEMMA ControlAlike ==
  ASSUME NEW s, NEW t, NEW hidden, NEW y, NEW word, NEW beyond, Alike(s, t, hidden),
         y = 4 => s.sp \notin hidden /\ s.sp + 1 \notin hidden
  PROVE  /\ Alike(Control(s, y, word, beyond), Control(t, y, word, beyond), hidden)
         /\ y = 1 => Alike(Control(s, y, word, beyond), Control(t, y, word, beyond),
                           Known(s, Control(s, y, word, beyond), hidden))
<1>1. CASE y = 0
  <2>1. Control(s, y, word, beyond) = Jump(s, TRUE, word) /\ Control(t, y, word, beyond) = Jump(t, TRUE, word)
    BY <1>1 DEF Control
  <2>2. Alike(Jump(s, TRUE, word), Jump(t, TRUE, word), hidden)
    BY JumpAlike
  <2>3. y # 1
    BY <1>1
  <2> QED  BY <2>1, <2>2, <2>3, Zenon
<1>2. CASE y = 1
  <2>1. Alike(RestartOnOverflow(s), RestartOnOverflow(t), Known(s, RestartOnOverflow(s), hidden))
    BY RestartAlike
  <2>2. Known(s, RestartOnOverflow(s), hidden) \subseteq hidden
    BY DEF Known
  <2>3. Alike(RestartOnOverflow(s), RestartOnOverflow(t), hidden)
    BY <2>1, <2>2, LessHidden
  <2> QED  BY <1>2, <2>1, <2>3 DEF Control
<1>3. CASE y = 4
  BY <1>3, ExchangeTopAlike DEF Control
<1>4. CASE y = 5
  <2>1. HL(s) = HL(t) /\ DE(s) = DE(t)
    BY PairAlike
  <2>2. \A v, w : Alike(SetPair(SetPair(s, 1, v), 2, w), SetPair(SetPair(t, 1, v), 2, w), hidden)
    BY SetPairAlike
  <2> QED  BY <1>4, <2>1, <2>2 DEF Control
<1>5. ASSUME y \in {6, 7} PROVE Alike(Control(s, y, word, beyond), Control(t, y, word, beyond), hidden)
  <2>1. /\ Alike(Core!DisableInterrupts(s), Core!DisableInterrupts(t), hidden)
        /\ Alike(Core!EnableInterrupts(s), Core!EnableInterrupts(t), hidden)
    BY SwitchAlike
  <2>2. CASE y = 6
    BY <2>1, <2>2 DEF Control
  <2>3. CASE y = 7
    BY <2>1, <2>3 DEF Control
  <2> QED  BY <1>5, <2>2, <2>3
<1>6. CASE y \notin {0, 1, 4, 5, 6, 7}
  BY <1>6 DEF Control
<1> QED  BY <1>1, <1>2, <1>3, <1>4, <1>5, <1>6

LEMMA CallOrLoadAlike ==
  ASSUME NEW s, NEW t, NEW hidden, NEW y, NEW word, NEW beyond, Alike(s, t, hidden),
         y = 5 => DE(s) \notin hidden /\ DE(s) + 1 \notin hidden
  PROVE  /\ Alike(CallOrLoad(s, y, word, beyond), CallOrLoad(t, y, word, beyond), hidden)
         /\ y = 1 => Alike(CallOrLoad(s, y, word, beyond), CallOrLoad(t, y, word, beyond),
                           hidden \ Under(s.sp))
<1>1. CASE y = 1
  <2>1. Alike(call(s, word), call(t, word), hidden \ Under(s.sp))
    BY CallAlike
  <2>2. Alike(call(s, word), call(t, word), hidden)
    BY <2>1, LessHidden
  <2> QED  BY <1>1, <2>1, <2>2 DEF CallOrLoad
<1>2. CASE y = 5
  <2> DEFINE read == PeekWord(s, DE(s), beyond)
  <2>1. read = PeekWord(t, DE(t), beyond)
    BY <1>2, PairAlike, PeekAlike
  <2>2. CallOrLoad(s, y, word, beyond) = SetPair(s, 2, read) /\ CallOrLoad(t, y, word, beyond) = SetPair(t, 2, read)
    BY <1>2, <2>1 DEF CallOrLoad
  <2> HIDE DEF read
  <2>3. Alike(SetPair(s, 2, read), SetPair(t, 2, read), hidden)
    BY SetPairAlike
  <2> QED  BY <1>2, <2>2, <2>3
<1>3. CASE y \notin {1, 5}
  <2>1. s.cc = t.cc
    BY DEF Alike
  <2> QED  BY <1>3, <2>1, JumpAlike DEF CallOrLoad
<1> QED  BY <1>1, <1>2, <1>3

LEMMA ComputeImmediateAlike ==
  ASSUME NEW s, NEW t, NEW hidden, NEW y, NEW imm, Alike(s, t, hidden)
  PROVE  Alike(ComputeImmediate(s, y, imm), ComputeImmediate(t, y, imm), hidden)
<1>1. s.cc = t.cc /\ A(s) = A(t)
  BY PairAlike DEF Alike
<1>2. CASE y = 0
  BY <1>1, <1>2, AccumulateAlike DEF ComputeImmediate
<1>3. CASE y = 7
  <2>1. \A cc : Alike([s EXCEPT !.cc = cc], [t EXCEPT !.cc = cc], hidden)
    BY FieldAlike
  <2> QED  BY <1>1, <1>3, <2>1 DEF ComputeImmediate
<1>4. CASE y \notin {0, 7}
  BY <1>4, ComputeAlike DEF ComputeImmediate
<1> QED  BY <1>2, <1>3, <1>4

\* The instructions that push, by their fields.
IsPush(y, z) == z \in {4, 7} \/ (z = 5 /\ (y % 2 = 0 \/ y = 1)) \/ (z = 3 /\ y = 1)

LEMMA LastQuarterAlike ==
  ASSUME NEW s, NEW t, NEW hidden, NEW y \in 0 .. 7, NEW z \in 0 .. 7, NEW imm, NEW word, NEW beyond,
         Alike(s, t, hidden), LastQuarterClear(s, y, z, hidden)
  PROVE  LET u == LastQuarter(s, y, z, imm, word, beyond)
             v == LastQuarter(t, y, z, imm, word, beyond)
         IN  Alike(u, v, hidden) /\ (IsPush(y, z) => Alike(u, v, Known(s, u, hidden)))
<1> DEFINE u == LastQuarter(s, y, z, imm, word, beyond)
           v == LastQuarter(t, y, z, imm, word, beyond)
<1> SUFFICES Alike(u, v, hidden) /\ (IsPush(y, z) => Alike(u, v, Known(s, u, hidden)))
  OBVIOUS
<1>0. /\ s.cc = t.cc
      /\ y % 2 \in {0, 1}
  BY DEF Alike
<1>a. Alike(u, v, hidden \ Under(s.sp)) => Alike(u, v, hidden) /\ Alike(u, v, Known(s, u, hidden))
  BY LessHidden DEF Known
<1>1. CASE z = 0
  <2>1. Alike(returnToCaller(s, beyond), returnToCaller(t, beyond), hidden)
    BY <1>1, ReturnToCallerAlike DEF LastQuarterClear
  <2> QED  BY <1>0, <1>1, <2>1 DEF LastQuarter, IsPush
<1>2. CASE z = 1
  <2>1. CASE y % 2 = 0
    BY <1>2, <2>1, PopAlike DEF LastQuarter, LastQuarterClear, IsPush
  <2>2. CASE y % 2 = 1
    BY <1>2, <2>2, ReturnAlike DEF LastQuarter, LastQuarterClear, IsPush
  <2> QED  BY <1>0, <2>1, <2>2
<1>3. CASE z = 2
  BY <1>0, <1>3, JumpAlike DEF LastQuarter, IsPush
<1>4. CASE z = 3
  BY <1>4, ControlAlike DEF LastQuarter, LastQuarterClear, IsPush
<1>5. CASE z = 4
  <2>1. CASE Condition(s.cc, y)
    <3>1. u = call(s, word) /\ v = call(t, word)
      BY <1>0, <1>5, <2>1 DEF LastQuarter
    <3> HIDE DEF u, v
    <3> QED  BY <1>a, <3>1, CallAlike
  <2>2. CASE ~Condition(s.cc, y)
    <3>1. u = Skip(s, 2) /\ v = Skip(t, 2)
      BY <1>0, <1>5, <2>2 DEF LastQuarter
    <3>2. u.sp = s.sp
      BY <3>1 DEF Skip, Alike, Processor
    <3> HIDE DEF u, v
    <3> QED  BY <3>1, <3>2, SkipAlike DEF Known
  <2> QED  BY <2>1, <2>2
<1>6. CASE z = 5
  <2>1. CASE y % 2 = 0
    <3>1. u = PushPair(s, y \div 2) /\ v = PushPair(t, y \div 2)
      BY <1>6, <2>1 DEF LastQuarter
    <3> HIDE DEF u, v
    <3> QED  BY <1>a, <3>1, PushPairAlike
  <2>2. CASE y % 2 = 1
    <3>1. u = CallOrLoad(s, y, word, beyond) /\ v = CallOrLoad(t, y, word, beyond)
      BY <1>6, <2>2 DEF LastQuarter
    <3> HIDE DEF u, v
    <3>2. Alike(u, v, hidden) /\ (y = 1 => Alike(u, v, hidden \ Under(s.sp)))
      <4>1. y = 5 => DE(s) \notin hidden /\ DE(s) + 1 \notin hidden
        BY <1>6 DEF LastQuarterClear
      <4> QED  BY <3>1, <4>1, CallOrLoadAlike
    <3>3. IsPush(y, z) => y = 1
      BY <1>6, <2>2 DEF IsPush
    <3> QED  BY <1>a, <3>2, <3>3
  <2> QED  BY <1>0, <2>1, <2>2
<1>7. CASE z = 6
  BY <1>7, ComputeImmediateAlike, SkipAlike DEF LastQuarter, IsPush
<1>8. CASE z = 7
  <2>1. u = rst(s, 8 * y) /\ v = rst(t, 8 * y)
    BY <1>8 DEF LastQuarter
  <2> HIDE DEF u, v
  <2> QED  BY <1>a, <2>1, CallAlike
<1> QED  BY <1>1, <1>2, <1>3, <1>4, <1>5, <1>6, <1>7, <1>8

\* The fields of an opcode make it, within its quarter.
MadeOf(opcode, y, z) ==
  /\ y \in 0 .. 7 /\ z \in 0 .. 7
  /\ opcode < 64 => opcode = 8 * y + z
  /\ opcode \in 64 .. 127 => opcode = 64 + 8 * y + z
  /\ opcode > 191 => opcode = 192 + 8 * y + z

LEMMA OpcodeFields ==
  ASSUME NEW opcode \in Byte
  PROVE  MadeOf(opcode, (opcode \div 8) % 8, opcode % 8)
<1> DEFINE q == opcode \div 8
           z == opcode % 8
<1>1. opcode \in Int /\ 0 <= opcode /\ opcode <= 255
  BY DEF Byte
<1>2. q \in Int /\ z \in 0 .. 7 /\ opcode = 8 * q + z /\ 0 <= q /\ q <= 31
  BY <1>1
<1> HIDE DEF q, z
<1>3. q % 8 \in 0 .. 7
  BY <1>2
<1>4. opcode < 64 => q % 8 = q
  BY <1>1, <1>2
<1>5. opcode > 191 => q % 8 = q - 24
  BY <1>1, <1>2
<1>6. opcode \in 64 .. 127 => q % 8 = q - 8
  BY <1>1, <1>2
<1>7. MadeOf(opcode, q % 8, z)
  BY <1>1, <1>2, <1>3, <1>4, <1>5, <1>6 DEF MadeOf
<1> QED  BY <1>7 DEF q, z

LEMMA PushOpcodes ==
  ASSUME NEW opcode \in Byte
  PROVE  opcode \in Pushes <=> opcode > 191 /\ IsPush((opcode \div 8) % 8, opcode % 8)
<1> DEFINE y == (opcode \div 8) % 8
           z == opcode % 8
<1>1. MadeOf(opcode, y, z)
  BY OpcodeFields, Zenon
<1>2. opcode \in 0 .. 255
  BY DEF Byte
<1>3. opcode \in Pushes <=> opcode \in {197, 203, 205, 213, 229, 245} \/ (opcode \in 192 .. 255 /\ z \in {4, 7})
  BY DEF Pushes
<1> HIDE DEF y, z
<1>4. ASSUME opcode > 191
      PROVE  opcode \in {197, 203, 205, 213, 229, 245} <=> (z = 5 /\ (y % 2 = 0 \/ y = 1)) \/ (z = 3 /\ y = 1)
  <2>1. opcode = 192 + 8 * y + z
    BY <1>1, <1>4 DEF MadeOf
  <2>2. \A k \in 0 .. 7 : y = k /\ z \in 0 .. 7 => (opcode \in {197, 203, 205, 213, 229, 245} <=>
                                      (z = 5 /\ (y % 2 = 0 \/ y = 1)) \/ (z = 3 /\ y = 1))
    BY <2>1
  <2> QED
    BY <1>1, <2>2 DEF MadeOf
<1>5. opcode \in Pushes <=> opcode > 191 /\ IsPush(y, z)
  BY <1>1, <1>2, <1>3, <1>4 DEF IsPush, MadeOf
<1> QED
  BY <1>5 DEF y, z

\* What Reads holds, instruction by instruction.
LEMMA ReadsHolds ==
  ASSUME NEW s, NEW beyond, Read(s, s.pc) \in Byte
  PROVE  LET opcode == Read(s, s.pc)
             word == PeekWord(s, s.pc + 1, beyond)
             reads == Reads(s, beyond)
         IN  /\ s.pc \in reads /\ s.pc + 1 \in reads /\ s.pc + 2 \in reads
             /\ opcode = 10 => BC(s) \in reads
             /\ opcode = 26 => DE(s) \in reads
             /\ opcode = 42 => word \in reads /\ word + 1 \in reads
             /\ opcode = 58 => word \in reads
             /\ opcode \in {52, 53} \/ (opcode \in 64 .. 191 /\ opcode % 8 = 6) => HL(s) \in reads
             /\ opcode \in {193, 201, 209, 225, 227} \/ (opcode > 191 /\ opcode % 8 = 0) =>
                  s.sp \in reads /\ s.sp + 1 \in reads
             /\ opcode = 237 => DE(s) \in reads /\ DE(s) + 1 \in reads
             /\ opcode = 241 => s.sp \in reads /\ (s.sp + 1) % 65536 \in reads
<1> DEFINE opcode == Read(s, s.pc)
           word == PeekWord(s, s.pc + 1, beyond)
           wrapped == (s.sp + 1) % 65536
           extra == CASE opcode = 10 -> {BC(s)}
                      [] opcode = 26 -> {DE(s)}
                      [] opcode = 42 -> {word, word + 1}
                      [] opcode = 58 -> {word}
                      [] opcode \in {52, 53} \/ (opcode \in 64 .. 191 /\ opcode % 8 = 6) -> {HL(s)}
                      [] opcode \in {193, 201, 209, 225, 227} \/ (opcode > 191 /\ opcode % 8 = 0) ->
                           {s.sp, s.sp + 1}
                      [] opcode = 237 -> {DE(s), DE(s) + 1}
                      [] opcode = 241 -> {s.sp, wrapped}
                      [] OTHER -> {}
<1>1. Reads(s, beyond) = {s.pc, s.pc + 1, s.pc + 2} \cup extra
  BY DEF Reads
<1>2. opcode \in 0 .. 255
  BY DEF Byte
<1> HIDE DEF opcode, word, wrapped
<1>3. /\ opcode = 10 => BC(s) \in extra
      /\ opcode = 26 => DE(s) \in extra
      /\ opcode = 42 => word \in extra /\ word + 1 \in extra
      /\ opcode = 58 => word \in extra
  OBVIOUS
<1>4. opcode \in {52, 53} \/ (opcode \in 64 .. 191 /\ opcode % 8 = 6) => HL(s) \in extra
  BY <1>2
<1>5. opcode \in {193, 201, 209, 225, 227} \/ (opcode > 191 /\ opcode % 8 = 0) =>
        s.sp \in extra /\ s.sp + 1 \in extra
  BY <1>2
<1>6. /\ opcode = 237 => DE(s) \in extra /\ DE(s) + 1 \in extra
      /\ opcode = 241 => s.sp \in extra /\ wrapped \in extra
  BY <1>2
<1> HIDE DEF extra
<1> QED
  BY <1>1, <1>3, <1>4, <1>5, <1>6 DEF opcode, word, wrapped

\* An instruction that reads no hidden byte finds its operands clear.
LEMMA ReadsClear ==
  ASSUME NEW s, Machine(s), NEW beyond, NEW hidden, Reads(s, beyond) \cap hidden = {}
  PROVE  LET opcode == Read(s, s.pc)
             y == (opcode \div 8) % 8
             z == opcode % 8
             word == PeekWord(s, s.pc + 1, beyond)
         IN  /\ s.pc \notin hidden /\ s.pc + 1 \notin hidden /\ s.pc + 2 \notin hidden
             /\ opcode < 64 => FirstQuarterClear(s, y, z, word, hidden)
             /\ opcode \in 64 .. 191 /\ z = 6 => HL(s) \notin hidden
             /\ opcode > 191 => LastQuarterClear(s, y, z, hidden)
<1> DEFINE opcode == Read(s, s.pc)
           y == (opcode \div 8) % 8
           z == opcode % 8
           word == PeekWord(s, s.pc + 1, beyond)
           reads == Reads(s, beyond)
<1>1. opcode \in Byte
  BY ReadType
<1>2. /\ s.pc \in reads /\ s.pc + 1 \in reads /\ s.pc + 2 \in reads
      /\ opcode = 10 => BC(s) \in reads
      /\ opcode = 26 => DE(s) \in reads
      /\ opcode = 42 => word \in reads /\ word + 1 \in reads
      /\ opcode = 58 => word \in reads
      /\ opcode \in {52, 53} \/ (opcode \in 64 .. 191 /\ z = 6) => HL(s) \in reads
      /\ opcode \in {193, 201, 209, 225, 227} \/ (opcode > 191 /\ z = 0) =>
           s.sp \in reads /\ s.sp + 1 \in reads
      /\ opcode = 237 => DE(s) \in reads /\ DE(s) + 1 \in reads
      /\ opcode = 241 => s.sp \in reads /\ (s.sp + 1) % 65536 \in reads
  BY <1>1, ReadsHolds
<1>3. MadeOf(opcode, y, z)
  <2> HIDE DEF opcode
  <2> QED  BY <1>1, OpcodeFields, Zenon
<1> HIDE DEF opcode, y, z, word
<1>4. \A x \in reads : x \notin hidden
  OBVIOUS
<1> HIDE DEF reads
<1>5. Pair(s, 0) = BC(s) /\ Pair(s, 1) = DE(s)
  BY DEF BC, DE
<1>6. ASSUME opcode < 64 PROVE FirstQuarterClear(s, y, z, word, hidden)
  <2>1. opcode = 8 * y + z
    BY <1>3, <1>6 DEF MadeOf
  <2>2. z = 2 /\ y \in {1, 3} => Pair(s, y \div 2) \notin hidden
    <3>1. CASE y = 1
      <4>1. 1 \div 2 = 0
        OBVIOUS
      <4> QED  BY <1>2, <1>4, <1>5, <2>1, <3>1, <4>1
    <3>2. CASE y = 3
      <4>1. 3 \div 2 = 1
        OBVIOUS
      <4> QED  BY <1>2, <1>4, <1>5, <2>1, <3>2, <4>1
    <3> QED  BY <3>1, <3>2
  <2>3. z = 2 /\ y = 5 => word \notin hidden /\ word + 1 \notin hidden
    BY <1>2, <1>4, <2>1
  <2>4. z = 2 /\ y = 7 => word \notin hidden
    BY <1>2, <1>4, <2>1
  <2>5. z \in {4, 5} /\ y = 6 => HL(s) \notin hidden
    BY <1>2, <1>4, <2>1
  <2> QED  BY <2>2, <2>3, <2>4, <2>5 DEF FirstQuarterClear, LoadClear
<1>7. ASSUME opcode > 191 PROVE LastQuarterClear(s, y, z, hidden)
  <2>1. opcode = 192 + 8 * y + z
    BY <1>3, <1>7 DEF MadeOf
  <2>2. (z = 0 \/ (z = 1 /\ y = 1) \/ (z = 3 /\ y = 4)) => s.sp \notin hidden /\ s.sp + 1 \notin hidden
    BY <1>2, <1>4, <1>7, <2>1
  <2>3. (z = 1 /\ y % 2 = 0) => PopClear(s, y \div 2, hidden)
    <3>1. CASE y \in {0, 2, 4} /\ z = 1
      <4>1. s.sp \notin hidden /\ s.sp + 1 \notin hidden
        BY <1>2, <1>4, <2>1, <3>1
      <4>2. y \div 2 # 3
        BY <3>1
      <4> QED  BY <4>1, <4>2 DEF PopClear
    <3>2. CASE y = 6 /\ z = 1
      <4>1. s.sp \notin hidden /\ (s.sp + 1) % 65536 \notin hidden
        BY <1>2, <1>4, <2>1, <3>2
      <4>2. y \div 2 = 3
        BY <3>2
      <4> QED  BY <4>1, <4>2 DEF PopClear
    <3>3. y % 2 = 0 => y \in {0, 2, 4, 6}
      BY <1>3 DEF MadeOf
    <3> QED  BY <3>1, <3>2, <3>3
  <2>4. (z = 5 /\ y = 5) => DE(s) \notin hidden /\ DE(s) + 1 \notin hidden
    BY <1>2, <1>4, <2>1
  <2> QED  BY <2>2, <2>3, <2>4 DEF LastQuarterClear
<1>8. opcode \in 64 .. 191 /\ z = 6 => HL(s) \notin hidden
  BY <1>2, <1>4
<1>9. s.pc \notin hidden /\ s.pc + 1 \notin hidden /\ s.pc + 2 \notin hidden
  BY <1>2, <1>4
<1> QED  BY <1>6, <1>7, <1>8, <1>9 DEF opcode, y, z, word

\* The fields of what was fetched are those of the machine, but for the pc.
LEMMA Fetched ==
  ASSUME NEW s, Processor(s)
  PROVE  /\ Skip(s, 1).sp = s.sp /\ Skip(s, 1).r = s.r
         /\ \A n : Pair(Skip(s, 1), n) = Pair(s, n)
         /\ HL(Skip(s, 1)) = HL(s) /\ DE(Skip(s, 1)) = DE(s)
<1>1. Skip(s, 1).sp = s.sp /\ Skip(s, 1).r = s.r
  BY DEF Skip, Processor
<1>2. \A n : Pair(Skip(s, 1), n) = Pair(s, n)
  BY <1>1 DEF Pair
<1> QED  BY <1>1, <1>2 DEF HL, DE

\* The same instruction, executed by both.
LEMMA ExecuteAlike ==
  ASSUME NEW s, NEW t, Machine(s), Machine(t), NEW beyond, NEW hidden, Alike(s, t, hidden),
         Reads(t, beyond) \cap hidden = {}
  PROVE  /\ Read(s, s.pc) = Read(t, t.pc)
         /\ Alike(Execute(s, beyond), Execute(t, beyond), hidden)
         /\ Read(t, t.pc) \in Pushes =>
              Alike(Execute(s, beyond), Execute(t, beyond), Known(t, Execute(t, beyond), hidden))
<1> DEFINE opcode == Read(t, t.pc)
           y == (opcode \div 8) % 8
           z == opcode % 8
           imm == Peek(t, t.pc + 1, beyond)
           word == PeekWord(t, t.pc + 1, beyond)
           fs == Skip(s, 1)
           ft == Skip(t, 1)
           operand == Operand(t, z)
<1>1. /\ t.pc \notin hidden /\ t.pc + 1 \notin hidden /\ t.pc + 2 \notin hidden
      /\ opcode < 64 => FirstQuarterClear(t, y, z, word, hidden)
      /\ opcode \in 64 .. 191 /\ z = 6 => HL(t) \notin hidden
      /\ opcode > 191 => LastQuarterClear(t, y, z, hidden)
  BY ReadsClear
<1>2. s.pc = t.pc /\ s.sp = t.sp /\ HL(s) = HL(t)
  BY PairAlike DEF Alike
<1>3. (t.pc + 1) + 1 = t.pc + 2
  BY Fields, WordRange
<1>4. opcode = Read(s, s.pc) /\ imm = Peek(s, s.pc + 1, beyond) /\ word = PeekWord(s, s.pc + 1, beyond)
  BY <1>1, <1>2, <1>3, PeekAlike DEF Alike
<1>5. opcode \in Byte
  BY ReadType
<1>6. y \in 0 .. 7 /\ z \in 0 .. 7
  <2> HIDE DEF opcode
  <2>1. MadeOf(opcode, y, z)
    BY <1>5, OpcodeFields, Zenon
  <2> QED  BY <2>1 DEF MadeOf
<1>7. Execute(t, beyond) = CASE opcode < 64 -> FirstQuarter(ft, y, z, imm, word, beyond)
                             [] opcode \in 64 .. 127 -> Move(ft, y, z)
                             [] opcode \in 128 .. 191 -> Compute(ft, y, operand)
                             [] OTHER -> LastQuarter(ft, y, z, imm, word, beyond)
  BY DEF Execute
<1>8. opcode \in 64 .. 191 => Operand(s, z) = operand
  <2>1. opcode \in 64 .. 191 /\ z = 6 => HL(s) \notin hidden
    BY <1>1, <1>2
  <2> HIDE DEF opcode, z
  <2> QED  BY <2>1, OperandAlike DEF z
<1>9. Execute(s, beyond) = CASE opcode < 64 -> FirstQuarter(fs, y, z, imm, word, beyond)
                             [] opcode \in 64 .. 127 -> Move(fs, y, z)
                             [] opcode \in 128 .. 191 -> Compute(fs, y, Operand(s, z))
                             [] OTHER -> LastQuarter(fs, y, z, imm, word, beyond)
  BY <1>4 DEF Execute
<1>10. Alike(fs, ft, hidden)
  BY SkipAlike
<1>11. /\ fs.sp = s.sp /\ ft.sp = t.sp /\ HL(fs) = HL(t) /\ DE(fs) = DE(t)
       /\ \A n : Pair(fs, n) = Pair(t, n)
  BY PairAlike, Fetched DEF Alike
<1>12. opcode \in Pushes <=> opcode > 191 /\ IsPush(y, z)
  <2> HIDE DEF opcode
  <2> QED  BY <1>5, PushOpcodes, Zenon
<1>13. opcode \in 0 .. 255
  BY <1>5 DEF Byte
<1> HIDE DEF opcode, y, z, imm, word, fs, ft, operand
<1>14. ASSUME opcode < 64
       PROVE  Alike(Execute(s, beyond), Execute(t, beyond), hidden)
  <2>1. FirstQuarterClear(fs, y, z, word, hidden)
    BY <1>1, <1>11, <1>14 DEF FirstQuarterClear, LoadClear
  <2>2. Alike(FirstQuarter(fs, y, z, imm, word, beyond), FirstQuarter(ft, y, z, imm, word, beyond), hidden)
    BY <1>6, <1>10, <2>1, FirstQuarterAlike
  <2> QED  BY <1>7, <1>9, <1>14, <2>2
<1>15. ASSUME opcode \in 64 .. 127
       PROVE  Alike(Execute(s, beyond), Execute(t, beyond), hidden)
  <2>1. z = 6 => HL(fs) \notin hidden
    BY <1>1, <1>11, <1>15
  <2>2. Alike(Move(fs, y, z), Move(ft, y, z), hidden)
    BY <1>10, <2>1, MoveAlike
  <2>3. Execute(s, beyond) = Move(fs, y, z) /\ Execute(t, beyond) = Move(ft, y, z)
    BY <1>7, <1>9, <1>15
  <2> QED  BY <2>2, <2>3, Zenon
<1>16. ASSUME opcode \in 128 .. 191
       PROVE  Alike(Execute(s, beyond), Execute(t, beyond), hidden)
  <2>1. Alike(Compute(fs, y, operand), Compute(ft, y, operand), hidden)
    BY <1>10, ComputeAlike
  <2>2. Execute(s, beyond) = Compute(fs, y, Operand(s, z)) /\ Execute(t, beyond) = Compute(ft, y, operand)
    BY <1>7, <1>9, <1>16
  <2>3. Operand(s, z) = operand
    BY <1>8, <1>16
  <2> QED  BY <2>1, <2>2, <2>3, Zenon
<1>17. ASSUME opcode > 191
       PROVE  /\ Alike(Execute(s, beyond), Execute(t, beyond), hidden)
              /\ IsPush(y, z) => Alike(Execute(s, beyond), Execute(t, beyond),
                                       Known(t, Execute(t, beyond), hidden))
  <2> DEFINE u == LastQuarter(fs, y, z, imm, word, beyond)
             v == LastQuarter(ft, y, z, imm, word, beyond)
  <2>1. LastQuarterClear(fs, y, z, hidden)
    BY <1>1, <1>2, <1>11, <1>17 DEF LastQuarterClear, PopClear
  <2>2. Alike(u, v, hidden) /\ (IsPush(y, z) => Alike(u, v, Known(fs, u, hidden)))
    BY <1>6, <1>10, <2>1, LastQuarterAlike
  <2>3. Execute(s, beyond) = u /\ Execute(t, beyond) = v
    BY <1>7, <1>9, <1>13, <1>17
  <2> HIDE DEF u, v
  <2>4. u.sp = v.sp
    BY <2>2 DEF Alike
  <2>5. Known(fs, u, hidden) = Known(t, v, hidden)
    BY <1>2, <1>11, <2>4 DEF Known
  <2> QED  BY <2>2, <2>3, <2>5, Zenon
<1>18. Alike(Execute(s, beyond), Execute(t, beyond), hidden)
  BY <1>13, <1>14, <1>15, <1>16, <1>17
<1>19. opcode \in Pushes => Alike(Execute(s, beyond), Execute(t, beyond), Known(t, Execute(t, beyond), hidden))
  BY <1>12, <1>17
<1> QED  BY <1>4, <1>18, <1>19 DEF opcode

LEMMA EndDelayFields ==
  ASSUME NEW s, Machine(s)
  PROVE  LET u == Core!EndDelay(s)
         IN  /\ Processor(u) /\ u.r = s.r /\ u.cc = s.cc /\ u.pc = s.pc /\ u.sp = s.sp
             /\ u.hlt_enable = s.hlt_enable /\ (Open(u) <=> Open(s))
             /\ \A x : Read(u, x) = Read(s, x)
<1> DEFINE delay == IF s.int_enable_delay > 0 THEN s.int_enable_delay - 1 ELSE 0
           enable == IF s.int_enable_delay = 1 THEN 1 ELSE s.int_enable
           u == [s EXCEPT !.int_enable_delay = delay, !.int_enable = enable]
<1>1. Core!EndDelay(s) = u
  BY DEF Core!EndDelay
<1>2. s.int_enable_delay \in 0 .. 2
  BY DEF Machine, Formed
<1>3. enable = 1 \/ delay > 0 <=> Open(s)
  BY <1>2 DEF Open
<1> HIDE DEF delay, enable
<1>4. /\ Processor(u) /\ u.r = s.r /\ u.cc = s.cc /\ u.pc = s.pc /\ u.sp = s.sp
      /\ u.hlt_enable = s.hlt_enable /\ u.mem = s.mem
      /\ u.int_enable = enable /\ u.int_enable_delay = delay
  BY DEF Machine, Processor
<1> HIDE DEF u
<1>5. Open(u) <=> Open(s)
  BY <1>3, <1>4 DEF Open
<1>6. \A x : Read(u, x) = Read(s, x)
  BY <1>4 DEF Read
<1> QED  BY <1>1, <1>4, <1>5, <1>6

\* Two processors that differ in hidden bytes of memory only, and an instruction that by
\* Reads looks at none of them: Emulate8085Op executes the same opcode in both, and they
\* differ in hidden bytes only afterwards, no longer in those that the instruction pushed.
THEOREM EmulateAlike ==
  ASSUME NEW s, NEW t, Machine(s), Machine(t), NEW beyond \in Beyond, NEW hidden,
         Alike(s, t, hidden), Reads(t, beyond) \cap hidden = {}
  PROVE  /\ Read(s, s.pc) = Read(t, t.pc)
         /\ Alike(Emulate8085Op(s, beyond), Emulate8085Op(t, beyond),
                  hidden \ Pushed(t, Emulate8085Op(t, beyond)))
<1> DEFINE u == Execute(s, beyond)
           v == Execute(t, beyond)
           pushed == Pushed(t, Emulate8085Op(t, beyond))
<1>1. /\ Read(s, s.pc) = Read(t, t.pc)
      /\ Alike(u, v, hidden)
      /\ Read(t, t.pc) \in Pushes => Alike(u, v, Known(t, v, hidden))
  BY ExecuteAlike
<1>2. Machine(u) /\ Machine(v)
  BY ExecuteFormed
<1> HIDE DEF u, v
<1>3. Emulate8085Op(s, beyond) = Core!EndDelay(u) /\ Emulate8085Op(t, beyond) = Core!EndDelay(v)
  BY DEF Emulate8085Op, u, v
<1>4. Core!EndDelay(v).sp = v.sp
  BY <1>2, EndDelayFields
<1>5. pushed = IF Read(t, t.pc) \in Pushes /\ v.sp # t.sp THEN Under(t.sp) ELSE {}
  BY <1>3, <1>4 DEF Pushed, Under
<1>6. Alike(u, v, hidden \ pushed)
  BY <1>1, <1>5 DEF Known
<1> HIDE DEF pushed
<1>7. Alike(Core!EndDelay(u), Core!EndDelay(v), hidden \ pushed)
  BY <1>2, <1>6, EndDelayFields DEF Alike
<1> QED  BY <1>1, <1>3, <1>7 DEF pushed

----------------------------------------------------------------------------
(* The stack of a handler.  Below is subtraction on a ring of 64K.          *)

Steps == 0 .. 10000

LEMMA StepsRange ==
  ASSUME NEW n \in Steps
  PROVE  n \in Int /\ 0 <= n /\ n <= 10000
BY SMT DEF Steps

LEMMA InSteps ==
  ASSUME NEW n \in Int, 0 <= n, n <= 10000
  PROVE  n \in Steps
BY SMT DEF Steps

IsBelow(sp, n, b) == b \in Word /\ b = IF n <= sp THEN sp - n ELSE sp - n + 65536

LEMMA BelowIs ==
  ASSUME NEW sp \in Word, NEW n \in Steps
  PROVE  IsBelow(sp, n, Below(sp, n))
<1>1. sp \in Int /\ 0 <= sp /\ sp < 65536
  BY WordRange
<1>2. n \in Int /\ 0 <= n /\ n <= 10000
  BY StepsRange
<1>3. CASE n <= sp
  <2>1. (sp - n) % 65536 = sp - n
    BY <1>1, <1>2, <1>3, SMT
  <2>2. sp - n \in Word
    BY <1>1, <1>2, <1>3, InWord, SMT
  <2> QED  BY <1>3, <2>1, <2>2, SMT DEF Below, IsBelow
<1>4. CASE ~(n <= sp)
  <2>1. (sp - n) % 65536 = sp - n + 65536
    BY <1>1, <1>2, <1>4, SMT
  <2>2. sp - n + 65536 \in Word
    BY <1>1, <1>2, <1>4, InWord, SMT
  <2> QED  BY <1>4, <2>1, <2>2, SMT DEF Below, IsBelow
<1> QED  BY <1>3, <1>4

LEMMA BelowBelow ==
  ASSUME NEW sp \in Word, NEW n \in Steps, NEW k \in Steps, n + k \in Steps
  PROVE  Below(Below(sp, n), k) = Below(sp, n + k)
<1>1. sp \in Int /\ 0 <= sp /\ sp < 65536
  BY WordRange
<1>2. n \in Int /\ 0 <= n /\ k \in Int /\ 0 <= k /\ n + k <= 10000
  BY StepsRange
<1> DEFINE b == Below(sp, n)
           both == n + k
           c == Below(sp, both)
           d == Below(b, k)
<1>3. IsBelow(sp, n, b) /\ IsBelow(sp, both, c)
  BY BelowIs
<1>4. b \in Word
  BY <1>3 DEF IsBelow
<1> HIDE DEF b, c
<1>5. IsBelow(b, k, d)
  BY <1>4, BelowIs
<1> HIDE DEF d
<1>6. d = c
  BY <1>1, <1>2, <1>3, <1>5, SMT DEF IsBelow
<1> QED  BY <1>6 DEF b, c, d

\* Back up again.
LEMMA BelowBack ==
  ASSUME NEW sp \in Word, NEW n \in Steps, NEW k \in Steps, n <= k
  PROVE  /\ (Below(sp, k) + n) % 65536 = Below(sp, k - n)
         /\ n = 1 /\ Below(sp, k) # 65535 => Below(sp, k) + 1 = Below(sp, k - n)
<1>1. sp \in Int /\ 0 <= sp /\ sp < 65536
  BY WordRange
<1>2. n \in Int /\ 0 <= n /\ k \in Int /\ n <= k /\ k <= 10000
  BY StepsRange
<1> DEFINE b == Below(sp, k)
           left == k - n
           c == Below(sp, left)
<1>3. left \in Steps
  BY <1>2, InSteps, SMT
<1>4. IsBelow(sp, k, b) /\ IsBelow(sp, left, c)
  BY <1>3, BelowIs
<1> HIDE DEF b, c
<1>5. b \in Int /\ 0 <= b /\ b <= 65535
  BY <1>1, <1>2, <1>4, SMT DEF IsBelow
<1>6. (b + n) % 65536 = IF b + n <= 65535 THEN b + n ELSE b + n - 65536
  BY <1>2, <1>5, SMT
<1>7. (b + n) % 65536 = c
  BY <1>1, <1>2, <1>4, <1>5, <1>6, SMT DEF IsBelow
<1>8. n = 1 /\ b # 65535 => b + 1 = c
  BY <1>1, <1>2, <1>4, <1>5, SMT DEF IsBelow
<1> QED  BY <1>7, <1>8, SMT DEF b, c

LEMMA BelowNone == \A sp \in Word : Below(sp, 0) = sp
<1> TAKE sp \in Word
<1>1. sp \in Int /\ 0 <= sp /\ sp < 65536
  BY WordRange
<1> QED  BY <1>1, SMT DEF Below

LEMMA BelowApart ==
  ASSUME NEW sp \in Word, NEW i \in Steps, NEW j \in Steps, i # j
  PROVE  Below(sp, i) # Below(sp, j)
<1>1. sp \in Int /\ 0 <= sp /\ sp < 65536
  BY WordRange
<1>2. i \in Int /\ 0 <= i /\ i <= 10000 /\ j \in Int /\ 0 <= j /\ j <= 10000
  BY StepsRange
<1> DEFINE b == Below(sp, i)
           c == Below(sp, j)
<1>3. IsBelow(sp, i, b) /\ IsBelow(sp, j, c)
  BY BelowIs
<1> HIDE DEF b, c
<1>4. b # c
  BY <1>1, <1>2, <1>3, SMT DEF IsBelow
<1> QED  BY <1>4 DEF b, c

\* The flags come back from their byte.
LEMMA PswBack == \A cc \in Flags : FlagsOf(PswByte(cc)) = cc
<1> TAKE cc \in Flags
<1> DEFINE f == PswByte(cc)
           cy == cc.cy
           v == cc.v
           p == cc.p
           ac == cc.ac
           x5 == cc.x5
           z == cc.z
           s == cc.s
<1>1. cy \in Flag /\ v \in Flag /\ p \in Flag /\ ac \in Flag /\ x5 \in Flag /\ z \in Flag /\ s \in Flag
  BY DEF Flags
<1>2. f = 128 * s + 64 * z + 32 * x5 + 16 * ac + 4 * p + 2 * v + cy
  BY DEF PswByte
<1>3. cc = [cy |-> cy, v |-> v, p |-> p, ac |-> ac, x5 |-> x5, z |-> z, s |-> s]
  BY DEF Flags
<1> HIDE DEF f, cy, v, p, ac, x5, z, s
<1>4. /\ f % 2 = cy /\ (f \div 2) % 2 = v /\ (f \div 4) % 2 = p /\ (f \div 16) % 2 = ac
      /\ (f \div 32) % 2 = x5 /\ (f \div 64) % 2 = z /\ (f \div 128) % 2 = s
  BY <1>1, <1>2, SMT DEF Flag
<1>5. /\ (f \div 2^0) % 2 = cy /\ (f \div 2^1) % 2 = v /\ (f \div 2^2) % 2 = p
      /\ (f \div 2^4) % 2 = ac /\ (f \div 2^5) % 2 = x5
      /\ (f \div 2^6) % 2 = z /\ (f \div 2^7) % 2 = s
  <2>1. f \in Int
    BY <1>1, <1>2, SMT DEF Flag
  <2> QED  BY <1>4, <2>1, SMT
<1>6. FlagsOf(f) = [cy |-> cy, v |-> v, p |-> p, ac |-> ac, x5 |-> x5, z |-> z, s |-> s]
  BY <1>5, SMT DEF FlagsOf
<1> QED  BY <1>3, <1>6 DEF f


----------------------------------------------------------------------------
(* What a handler's instructions leave alone.                               *)

\* The word that PUSH n pushes: the pair n, or the accumulator with the flags.
Stood(s, n) == IF n = 3 THEN 256 * A(s) + PswByte(s.cc) ELSE Pair(s, n)

Whole(s) == Processor(s) /\ DOMAIN s.r = Register

\* From s to u memory, the stack pointer and the pairs that are not in "changes" are kept.
Quiet(s, u, changes, pc) ==
  /\ Whole(u) /\ u.sp = s.sp /\ u.hlt_enable = s.hlt_enable /\ u.pc = pc
  /\ \A x : Read(u, x) = Read(s, x)
  /\ \A n \in Names \ changes : Stood(u, n) = Stood(s, n)

LEMMA QuietThen ==
  ASSUME NEW s, NEW u, NEW v, NEW first, NEW second, NEW pc, NEW next,
         Quiet(s, u, first, pc), Quiet(u, v, second, next)
  PROVE  Quiet(s, v, first \cup second, next)
BY DEF Quiet

LEMMA QuietMore ==
  ASSUME NEW s, NEW u, NEW changes, NEW more, NEW pc, Quiet(s, u, changes, pc), changes \subseteq more
  PROVE  Quiet(s, u, more, pc)
BY DEF Quiet

LEMMA RegistersQuiet ==
  ASSUME NEW s, Whole(s), NEW r, DOMAIN r = Register, NEW changes,
         \A n \in (0 .. 7) \ {6} : PairWith(n) \notin changes => r[RegisterOf[n + 1]] = s.r[RegisterOf[n + 1]]
  PROVE  Quiet(s, [s EXCEPT !.r = r], changes, s.pc)
<1> DEFINE u == [s EXCEPT !.r = r]
<1>1. /\ Whole(u) /\ u.sp = s.sp /\ u.hlt_enable = s.hlt_enable /\ u.pc = s.pc /\ u.mem = s.mem
      /\ u.r = r /\ u.cc = s.cc
  BY DEF Whole, Processor
<1> HIDE DEF u
<1>2. /\ 0 \notin changes => r["b"] = s.r["b"] /\ r["c"] = s.r["c"]
      /\ 1 \notin changes => r["d"] = s.r["d"] /\ r["e"] = s.r["e"]
      /\ 2 \notin changes => r["h"] = s.r["h"] /\ r["l"] = s.r["l"]
      /\ 3 \notin changes => r["a"] = s.r["a"]
  <2>1. \A n \in (0 .. 7) \ {6} :
          RegisterOf[n + 1] = CASE n = 0 -> "b" [] n = 1 -> "c" [] n = 2 -> "d" [] n = 3 -> "e"
                                [] n = 4 -> "h" [] n = 5 -> "l" [] OTHER -> "a"
    BY DEF RegisterOf
  <2>2. /\ PairWith(0) = 0 /\ PairWith(1) = 0 /\ PairWith(2) = 1 /\ PairWith(3) = 1
        /\ PairWith(4) = 2 /\ PairWith(5) = 2 /\ PairWith(7) = 3
    BY DEF PairWith
  <2> QED  BY <2>1, <2>2
<1>3. \A n \in Names \ changes : Stood(u, n) = Stood(s, n)
  <2> TAKE n \in Names \ changes
  <2>1. CASE n = 0
    BY <1>1, <1>2, <2>1 DEF Stood, Pair, PairOf
  <2>2. CASE n = 1
    BY <1>1, <1>2, <2>2 DEF Stood, Pair, PairOf
  <2>3. CASE n = 2
    BY <1>1, <1>2, <2>3 DEF Stood, Pair, PairOf
  <2>4. CASE n = 3
    BY <1>1, <1>2, <2>4 DEF Stood, A
  <2> QED  BY <2>1, <2>2, <2>3, <2>4 DEF Names
<1>4. \A x : Read(u, x) = Read(s, x)
  BY <1>1 DEF Read
<1> QED  BY <1>1, <1>3, <1>4 DEF Quiet, u

LEMMA RegisterQuiet ==
  ASSUME NEW s, Whole(s), NEW n \in (0 .. 7) \ {6}, NEW v
  PROVE  Quiet(s, [s EXCEPT !.r[RegisterOf[n + 1]] = v], {PairWith(n)}, s.pc)
<1> DEFINE name == RegisterOf[n + 1]
           r == [s.r EXCEPT ![name] = v]
<1>1. DOMAIN r = Register
  BY DEF Whole
<1>2. \A k \in (0 .. 7) \ {6} : RegisterOf[k + 1] \in Register /\ (k # n => RegisterOf[k + 1] # name)
  BY DEF RegisterOf, Register
<1>3. [s EXCEPT !.r[RegisterOf[n + 1]] = v] = [s EXCEPT !.r = r]
  OBVIOUS
<1>4. \A k \in (0 .. 7) \ {6} : PairWith(k) \notin {PairWith(n)} => r[RegisterOf[k + 1]] = s.r[RegisterOf[k + 1]]
  BY <1>2 DEF Whole
<1> HIDE DEF r
<1>5. Quiet(s, [s EXCEPT !.r = r], {PairWith(n)}, s.pc)
  BY <1>1, <1>4, RegistersQuiet
<1> QED  BY <1>3, <1>5, Zenon

LEMMA AccumulatorQuiet ==
  ASSUME NEW s, Whole(s), NEW v
  PROVE  Quiet(s, [s EXCEPT !.r["a"] = v], {3}, s.pc)
<1> DEFINE n == 7
<1>1. n \in (0 .. 7) \ {6} /\ RegisterOf[n + 1] = "a" /\ PairWith(n) = 3
  BY DEF RegisterOf, PairWith
<1> HIDE DEF n
<1>2. Quiet(s, [s EXCEPT !.r[RegisterOf[n + 1]] = v], {PairWith(n)}, s.pc)
  BY <1>1, RegisterQuiet
<1> QED  BY <1>1, <1>2, Zenon

LEMMA FlagsQuiet ==
  ASSUME NEW s, Whole(s), NEW v
  PROVE  /\ Quiet(s, [s EXCEPT !.cc = v], {3}, s.pc)
         /\ Quiet(s, [s EXCEPT !.cc.cy = v], {3}, s.pc)
         /\ Quiet(s, [s EXCEPT !.cc.x5 = v], {3}, s.pc)
<1>1. ASSUME NEW u, Whole(u), u.r = s.r, u.sp = s.sp, u.hlt_enable = s.hlt_enable, u.pc = s.pc, u.mem = s.mem
      PROVE  Quiet(s, u, {3}, s.pc)
  <2>1. \A n \in Names \ {3} : Stood(u, n) = Stood(s, n)
    BY <1>1 DEF Stood, Pair
  <2>2. \A x : Read(u, x) = Read(s, x)
    BY <1>1 DEF Read
  <2> QED  BY <1>1, <2>1, <2>2 DEF Quiet
<1>2. Quiet(s, [s EXCEPT !.cc = v], {3}, s.pc)
  <2> DEFINE u == [s EXCEPT !.cc = v]
  <2>1. Whole(u) /\ u.r = s.r /\ u.sp = s.sp /\ u.hlt_enable = s.hlt_enable /\ u.pc = s.pc /\ u.mem = s.mem
    BY DEF Whole, Processor
  <2> HIDE DEF u
  <2> QED  BY <1>1, <2>1 DEF u
<1>3. Quiet(s, [s EXCEPT !.cc.cy = v], {3}, s.pc)
  <2> DEFINE u == [s EXCEPT !.cc.cy = v]
  <2>1. Whole(u) /\ u.r = s.r /\ u.sp = s.sp /\ u.hlt_enable = s.hlt_enable /\ u.pc = s.pc /\ u.mem = s.mem
    BY DEF Whole, Processor
  <2> HIDE DEF u
  <2> QED  BY <1>1, <2>1 DEF u
<1>4. Quiet(s, [s EXCEPT !.cc.x5 = v], {3}, s.pc)
  <2> DEFINE u == [s EXCEPT !.cc.x5 = v]
  <2>1. Whole(u) /\ u.r = s.r /\ u.sp = s.sp /\ u.hlt_enable = s.hlt_enable /\ u.pc = s.pc /\ u.mem = s.mem
    BY DEF Whole, Processor
  <2> HIDE DEF u
  <2> QED  BY <1>1, <2>1 DEF u
<1> QED  BY <1>2, <1>3, <1>4

LEMMA SetPairQuiet ==
  ASSUME NEW s, Whole(s), NEW n \in 0 .. 2, NEW word
  PROVE  Quiet(s, SetPair(s, n, word), {n}, s.pc)
<1> DEFINE high == PairOf[n + 1].high
           low == PairOf[n + 1].low
           r == [s.r EXCEPT ![high] = High(word), ![low] = Low(word)]
<1>1. DOMAIN r = Register
  BY DEF Whole
<1>2. SetPair(s, n, word) = [s EXCEPT !.r = r]
  <2>1. n # 3
    OBVIOUS
  <2>2. SetPair(s, n, word) = [s EXCEPT !.r[high] = High(word), !.r[low] = Low(word)]
    BY <2>1 DEF SetPair
  <2> HIDE DEF high, low
  <2> QED  BY <2>2 DEF Whole, Processor
<1>3. \A k \in (0 .. 7) \ {6} : PairWith(k) # n => RegisterOf[k + 1] \notin {high, low} /\ RegisterOf[k + 1] \in Register
  BY DEF RegisterOf, PairOf, PairWith, Register
<1>4. \A k \in (0 .. 7) \ {6} : PairWith(k) \notin {n} => r[RegisterOf[k + 1]] = s.r[RegisterOf[k + 1]]
  <2> HIDE DEF high, low
  <2> QED  BY <1>3 DEF Whole
<1> HIDE DEF r
<1>5. Quiet(s, [s EXCEPT !.r = r], {n}, s.pc)
  BY <1>1, <1>4, RegistersQuiet
<1> QED  BY <1>2, <1>5, Zenon

\* Where an instruction of n + 1 bytes goes on once its opcode is fetched.
Ahead(s, n) == IF n = 0 THEN s.pc ELSE (s.pc + n) % 65536

LEMMA SkipQuiet ==
  ASSUME NEW s, Whole(s), NEW n \in 1 .. 2
  PROVE  Quiet(s, Skip(s, n), {}, Ahead(s, n))
<1> DEFINE u == Skip(s, n)
<1>1. /\ Whole(u) /\ u.sp = s.sp /\ u.hlt_enable = s.hlt_enable /\ u.mem = s.mem
      /\ u.r = s.r /\ u.cc = s.cc /\ u.pc = Ahead(s, n)
  BY DEF Whole, Processor, Skip, Ahead
<1> HIDE DEF u
<1>2. \A k \in Names : Stood(u, k) = Stood(s, k)
  BY <1>1 DEF Stood, Pair, A
<1>3. \A x : Read(u, x) = Read(s, x)
  BY <1>1 DEF Read
<1> QED  BY <1>1, <1>2, <1>3 DEF Quiet, u


LEMMA QuietWhole == \A s, u, changes, pc : Quiet(s, u, changes, pc) => Whole(u) /\ u.pc = pc
BY DEF Quiet

LEMMA NothingQuiet == \A s : Whole(s) => Quiet(s, s, {}, s.pc)
BY DEF Quiet

\* An instruction that skips its operand after its work.
LEMMA QuietSkip ==
  ASSUME NEW s, NEW u, NEW changes, Quiet(s, u, changes, s.pc), NEW n \in 1 .. 2
  PROVE  Quiet(s, Skip(u, n), changes, Ahead(s, n))
<1>1. Whole(u) /\ u.pc = s.pc
  BY QuietWhole
<1>2. Ahead(u, n) = Ahead(s, n)
  BY <1>1 DEF Ahead
<1>3. Quiet(u, Skip(u, n), {}, Ahead(s, n))
  BY <1>1, <1>2, SkipQuiet
<1>4. Quiet(s, Skip(u, n), changes \cup {}, Ahead(s, n))
  BY <1>3, QuietThen
<1> QED  BY <1>4

\* An instruction that sets flags after its work.
LEMMA QuietFlags ==
  ASSUME NEW s, NEW u, NEW changes, NEW pc, Quiet(s, u, changes, pc), NEW v
  PROVE  /\ Quiet(s, [u EXCEPT !.cc = v], changes \cup {3}, pc)
         /\ Quiet(s, [u EXCEPT !.cc.x5 = v], changes \cup {3}, pc)
<1>1. Whole(u) /\ u.pc = pc
  BY QuietWhole
<1>2. Quiet(u, [u EXCEPT !.cc = v], {3}, pc)
  BY <1>1, FlagsQuiet
<1>3. Quiet(u, [u EXCEPT !.cc.x5 = v], {3}, pc)
  BY <1>1, FlagsQuiet
<1> QED  BY <1>2, <1>3, QuietThen

LEMMA AccumulateQuiet ==
  ASSUME NEW s, Whole(s), NEW result
  PROVE  Quiet(s, Accumulate(s, result), {3}, s.pc)
<1> DEFINE one == [s EXCEPT !.r["a"] = result.byte]
<1>1. Quiet(s, one, {3}, s.pc)
  BY AccumulatorQuiet
<1>2. Accumulate(s, result) = [one EXCEPT !.cc = result.cc]
  BY DEF Accumulate, Whole, Processor
<1> HIDE DEF one
<1>3. Quiet(s, [one EXCEPT !.cc = result.cc], {3} \cup {3}, s.pc)
  BY <1>1, QuietFlags
<1>4. {3} \cup {3} = {3}
  OBVIOUS
<1> QED  BY <1>2, <1>3, <1>4, Zenon

LEMMA LogicQuiet ==
  ASSUME NEW s, Whole(s), NEW byte, NEW ac
  PROVE  Quiet(s, Logic(s, byte, ac), {3}, s.pc)
<1> DEFINE one == [s EXCEPT !.r["a"] = byte]
           flags == LogicFlagsA(s.cc, byte, ac)
<1>1. Quiet(s, one, {3}, s.pc)
  BY AccumulatorQuiet
<1>2. Logic(s, byte, ac) = [one EXCEPT !.cc = flags]
  BY DEF Logic, Whole, Processor
<1> HIDE DEF one, flags
<1>3. Quiet(s, [one EXCEPT !.cc = flags], {3} \cup {3}, s.pc)
  BY <1>1, QuietFlags
<1>4. {3} \cup {3} = {3}
  OBVIOUS
<1> QED  BY <1>2, <1>3, <1>4, Zenon

LEMMA SetWordQuiet ==
  ASSUME NEW s, Whole(s), NEW n \in 0 .. 2, NEW result
  PROVE  Quiet(s, SetWord(s, n, result), {n, 3}, s.pc)
<1>1. Quiet(s, SetPair(s, n, result.word), {n}, s.pc)
  BY SetPairQuiet
<1>2. Quiet(s, SetWord(s, n, result), {n} \cup {3}, s.pc)
  BY <1>1, QuietFlags DEF SetWord
<1>3. {n} \cup {3} = {n, 3}
  OBVIOUS
<1> QED  BY <1>2, <1>3, Zenon

LEMMA StepPairQuiet ==
  ASSUME NEW s, Whole(s), NEW n \in 0 .. 2, NEW by
  PROVE  Quiet(s, StepPair(s, n, by), {n, 3}, s.pc)
<1> DEFINE word == (Pair(s, n) + by) % 65536
           x5 == Set(word = IF by = 1 THEN 0 ELSE 65535)
<1>1. StepPair(s, n, by) = [SetPair(s, n, word) EXCEPT !.cc.x5 = x5]
  BY DEF StepPair
<1> HIDE DEF word, x5
<1>2. Quiet(s, SetPair(s, n, word), {n}, s.pc)
  BY SetPairQuiet
<1>3. Quiet(s, [SetPair(s, n, word) EXCEPT !.cc.x5 = x5], {n} \cup {3}, s.pc)
  BY <1>2, QuietFlags
<1>4. {n} \cup {3} = {n, 3}
  OBVIOUS
<1> QED  BY <1>1, <1>3, <1>4, Zenon

\* MOV and MVI to a register.
LEMMA AssignQuiet ==
  ASSUME NEW s, Whole(s), NEW n \in (0 .. 7) \ {6}, NEW byte
  PROVE  Quiet(s, Assign(s, n, byte), {PairWith(n)}, s.pc)
BY RegisterQuiet DEF Assign

\* INR and DCR of a register: flags, then the register.
LEMMA FlagsThenRegister ==
  ASSUME NEW s, Whole(s), NEW n \in (0 .. 7) \ {6}, NEW byte, NEW cc
  PROVE  Quiet(s, Assign([s EXCEPT !.cc = cc], n, byte), {PairWith(n), 3}, s.pc)
<1> DEFINE u == [s EXCEPT !.cc = cc]
<1>1. Quiet(s, u, {3}, s.pc)
  BY FlagsQuiet
<1> HIDE DEF u
<1>2. Whole(u) /\ u.pc = s.pc
  BY <1>1, QuietWhole
<1>3. Quiet(u, Assign(u, n, byte), {PairWith(n)}, s.pc)
  BY <1>2, AssignQuiet
<1>4. Quiet(s, Assign(u, n, byte), {3} \cup {PairWith(n)}, s.pc)
  BY <1>1, <1>3, QuietThen
<1>5. {3} \cup {PairWith(n)} = {PairWith(n), 3}
  OBVIOUS
<1> QED  BY <1>4, <1>5, Zenon DEF u

LEMMA CountQuiet ==
  ASSUME NEW s, Whole(s), NEW n \in (0 .. 7) \ {6}
  PROVE  /\ Quiet(s, Increment(s, n), {PairWith(n), 3}, s.pc)
         /\ Quiet(s, Decrement(s, n), {PairWith(n), 3}, s.pc)
<1> DEFINE up == PreserveCarry(s.cc, addByte(s.cc, Operand(s, n), 1))
           down == PreserveCarry(s.cc, subtractByte(s.cc, Operand(s, n), 1))
<1>1. Increment(s, n) = Assign([s EXCEPT !.cc = up.cc], n, up.byte)
  BY DEF Increment
<1>2. Decrement(s, n) = Assign([s EXCEPT !.cc = down.cc], n, down.byte)
  BY DEF Decrement
<1> HIDE DEF up, down
<1> QED  BY <1>1, <1>2, FlagsThenRegister

LEMMA AdjustQuiet ==
  ASSUME NEW s, Whole(s), NEW y \in 0 .. 7
  PROVE  Quiet(s, Adjust(s, y), {3}, s.pc)
<1>1. \A result : Quiet(s, Accumulate(s, result), {3}, s.pc)
  BY AccumulateQuiet
<1>2. \A v : Quiet(s, [s EXCEPT !.cc.cy = v], {3}, s.pc)
  BY FlagsQuiet
<1>3. Quiet(s, [s EXCEPT !.r["a"] = 255 - @], {3}, s.pc)
  BY AccumulatorQuiet
<1>4. CASE y \in 0 .. 4
  BY <1>1, <1>4 DEF Adjust
<1>5. CASE y = 5
  <2>1. Adjust(s, y) = [s EXCEPT !.r["a"] = 255 - @]
    BY <1>5 DEF Adjust
  <2> QED  BY <1>3, <2>1, Zenon
<1>6. CASE y = 6
  <2>1. Adjust(s, y) = [s EXCEPT !.cc.cy = 1]
    BY <1>6 DEF Adjust
  <2>2. Quiet(s, [s EXCEPT !.cc.cy = 1], {3}, s.pc)
    BY <1>2
  <2> QED  BY <2>1, <2>2, Zenon
<1>7. CASE y = 7
  <2> DEFINE v == 1 - s.cc.cy
  <2>1. Adjust(s, y) = [s EXCEPT !.cc.cy = v]
    BY <1>7 DEF Adjust
  <2> HIDE DEF v
  <2>2. Quiet(s, [s EXCEPT !.cc.cy = v], {3}, s.pc)
    BY <1>2
  <2> QED  BY <2>1, <2>2, Zenon
<1> QED  BY <1>4, <1>5, <1>6, <1>7

LEMMA ComputeQuiet ==
  ASSUME NEW s, Whole(s), NEW y \in 0 .. 7, NEW x
  PROVE  Quiet(s, Compute(s, y, x), {3}, s.pc)
<1>1. \A result : Quiet(s, Accumulate(s, result), {3}, s.pc)
  BY AccumulateQuiet
<1>2. \A byte, ac : Quiet(s, Logic(s, byte, ac), {3}, s.pc)
  BY LogicQuiet
<1>3. \A v : Quiet(s, [s EXCEPT !.cc = v], {3}, s.pc)
  BY FlagsQuiet
<1>4. CASE y \in 0 .. 3
  BY <1>1, <1>4 DEF Compute
<1>5. CASE y \in 4 .. 6
  BY <1>2, <1>5 DEF Compute
<1>6. CASE y = 7
  BY <1>3, <1>6 DEF Compute
<1> QED  BY <1>4, <1>5, <1>6

LEMMA ComputeImmediateQuiet ==
  ASSUME NEW s, Whole(s), NEW y \in 0 .. 7, NEW imm
  PROVE  Quiet(s, ComputeImmediate(s, y, imm), {3}, s.pc)
<1>1. CASE y = 0
  BY <1>1, AccumulateQuiet DEF ComputeImmediate
<1>2. CASE y = 7
  <2>1. \A v : Quiet(s, [s EXCEPT !.cc = v], {3}, s.pc)
    BY FlagsQuiet
  <2> QED  BY <1>2, <2>1 DEF ComputeImmediate
<1>3. CASE y \notin {0, 7}
  BY <1>3, ComputeQuiet DEF ComputeImmediate
<1> QED  BY <1>1, <1>2, <1>3


LEMMA SpecialQuiet ==
  ASSUME NEW s, Whole(s), NEW y \in 0 .. 7, NEW imm
  PROVE  Quiet(s, Special(s, y, imm), FirstQuarterChanges(y, 0), Ahead(s, IF y \in {5, 7} THEN 1 ELSE 0))
<1> DEFINE two == 2
           one == 1
<1>0. one \in 0 .. 2 /\ two \in 0 .. 2 /\ one \in 1 .. 2
  OBVIOUS
<1>1. /\ \A result : Quiet(s, SetWord(s, two, result), {two, 3}, s.pc)
      /\ \A result : Quiet(s, SetWord(s, one, result), {one, 3}, s.pc)
  <2> HIDE DEF one, two
  <2> QED  BY <1>0, SetWordQuiet
<1>2. \A word : Quiet(s, Skip(SetPair(s, one, word), one), {one}, Ahead(s, one))
  <2> HIDE DEF one
  <2> QED  BY <1>0, SetPairQuiet, QuietSkip
<1>3. CASE y \in {1, 2}
  BY <1>1, <1>3 DEF Special, FirstQuarterChanges, Ahead
<1>4. CASE y = 3
  BY <1>1, <1>4 DEF Special, FirstQuarterChanges, Ahead
<1>5. CASE y = 5
  <2> DEFINE word == (HL(s) + imm) % 65536
  <2>1. Special(s, y, imm) = Skip(SetPair(s, one, word), one)
    BY <1>5 DEF Special
  <2> HIDE DEF word
  <2>2. FirstQuarterChanges(y, 0) = {one} /\ (IF y \in {5, 7} THEN 1 ELSE 0) = one
    BY <1>5 DEF FirstQuarterChanges
  <2> QED  BY <1>2, <2>1, <2>2, Zenon
<1>6. CASE y = 7
  <2> DEFINE word == (s.sp + imm) % 65536
  <2>1. Special(s, y, imm) = Skip(SetPair(s, one, word), one)
    BY <1>6 DEF Special
  <2> HIDE DEF word
  <2>2. FirstQuarterChanges(y, 0) = {one} /\ (IF y \in {5, 7} THEN 1 ELSE 0) = one
    BY <1>6 DEF FirstQuarterChanges
  <2> QED  BY <1>2, <2>1, <2>2, Zenon
<1>7. CASE y \in {0, 4, 6}
  <2>1. /\ Special(s, y, imm) = s /\ FirstQuarterChanges(y, 0) = {}
        /\ Ahead(s, IF y \in {5, 7} THEN 1 ELSE 0) = s.pc
    BY <1>7 DEF Special, FirstQuarterChanges, Ahead
  <2> QED  BY <2>1, NothingQuiet, Zenon
<1> QED  BY <1>3, <1>4, <1>5, <1>6, <1>7

\* LDAX, LHLD, LDA.
LEMMA LoadQuiet ==
  ASSUME NEW s, Whole(s), NEW y \in {1, 3, 5, 7}, NEW word, NEW beyond
  PROVE  Quiet(s, LoadStore(s, y, word, beyond), FirstQuarterChanges(y, 2),
               Ahead(s, IF y \in {5, 7} THEN 2 ELSE 0))
<1> DEFINE two == 2
<1>0. two \in 0 .. 2 /\ two \in 1 .. 2
  OBVIOUS
<1>1. CASE y \in {1, 3}
  <2> DEFINE byte == Read(s, Pair(s, y \div 2))
  <2>1. LoadStore(s, y, word, beyond) = [s EXCEPT !.r["a"] = byte]
    BY <1>1 DEF LoadStore
  <2> HIDE DEF byte
  <2>2. FirstQuarterChanges(y, 2) = {3} /\ Ahead(s, IF y \in {5, 7} THEN 2 ELSE 0) = s.pc
    BY <1>1 DEF FirstQuarterChanges, Ahead
  <2>3. Quiet(s, [s EXCEPT !.r["a"] = byte], {3}, s.pc)
    BY AccumulatorQuiet
  <2> QED  BY <2>1, <2>2, <2>3, Zenon
<1>2. CASE y = 5
  <2> DEFINE read == PeekWord(s, word, beyond)
  <2>1. LoadStore(s, y, word, beyond) = Skip(SetPair(s, two, read), two)
    BY <1>2 DEF LoadStore
  <2> HIDE DEF read
  <2>2. FirstQuarterChanges(y, 2) = {two} /\ (IF y \in {5, 7} THEN 2 ELSE 0) = two
    BY <1>2 DEF FirstQuarterChanges
  <2>3. Quiet(s, Skip(SetPair(s, two, read), two), {two}, Ahead(s, two))
    <3> HIDE DEF two
    <3> QED  BY <1>0, SetPairQuiet, QuietSkip
  <2> QED  BY <2>1, <2>2, <2>3, Zenon
<1>3. CASE y = 7
  <2> DEFINE byte == Read(s, word)
  <2>1. LoadStore(s, y, word, beyond) = [Skip(s, two) EXCEPT !.r["a"] = byte]
    BY <1>3 DEF LoadStore
  <2> HIDE DEF byte
  <2>2. FirstQuarterChanges(y, 2) = {3} /\ (IF y \in {5, 7} THEN 2 ELSE 0) = two
    BY <1>3 DEF FirstQuarterChanges
  <2> HIDE DEF two
  <2>3. Quiet(s, Skip(s, two), {}, Ahead(s, two))
    BY <1>0, SkipQuiet
  <2>4. Whole(Skip(s, two)) /\ Skip(s, two).pc = Ahead(s, two)
    BY <2>3, QuietWhole
  <2>5. Quiet(Skip(s, two), [Skip(s, two) EXCEPT !.r["a"] = byte], {3}, Ahead(s, two))
    BY <2>4, AccumulatorQuiet
  <2>6. Quiet(s, [Skip(s, two) EXCEPT !.r["a"] = byte], {} \cup {3}, Ahead(s, two))
    BY <2>3, <2>5, QuietThen
  <2>7. {} \cup {3} = {3}
    OBVIOUS
  <2> QED  BY <2>1, <2>2, <2>6, <2>7, Zenon
<1> QED  BY <1>1, <1>2, <1>3

\* Not a store, nor SP, nor RIM or SIM.
FirstCalm(y, z) ==
  /\ z = 0 => y \notin {4, 6}
  /\ z = 1 => y # 6
  /\ z = 2 => y \in {1, 3, 5, 7}
  /\ z = 3 => y \notin {6, 7}
  /\ z \in {4, 5, 6} => y # 6

FirstLength(y, z) ==
  CASE (z = 1 /\ y % 2 = 0) \/ (z = 2 /\ y \in {5, 7}) -> 3
    [] z = 6 \/ (z = 0 /\ y \in {5, 7}) -> 2
    [] OTHER -> 1

LEMMA FirstQuarterQuiet ==
  ASSUME NEW s, Whole(s), NEW y \in 0 .. 7, NEW z \in 0 .. 7, NEW imm, NEW word, NEW beyond, FirstCalm(y, z)
  PROVE  Quiet(s, FirstQuarter(s, y, z, imm, word, beyond), FirstQuarterChanges(y, z),
               Ahead(s, FirstLength(y, z) - 1))
<1> DEFINE u == FirstQuarter(s, y, z, imm, word, beyond)
           one == 1
           two == 2
           pair == y \div 2
<1>0. one \in 1 .. 2 /\ two \in 0 .. 2 /\ two \in 1 .. 2
  OBVIOUS
<1>1. CASE z = 0
  <2>1. u = Special(s, y, imm)
    BY <1>1 DEF FirstQuarter
  <2>2. FirstLength(y, z) - 1 = IF y \in {5, 7} THEN 1 ELSE 0
    BY <1>1 DEF FirstLength
  <2> HIDE DEF u
  <2> QED  BY <1>1, <2>1, <2>2, SpecialQuiet DEF u
<1>2. CASE z = 1 /\ y % 2 = 0
  <2>1. u = Skip(SetPair(s, pair, word), two)
    BY <1>2 DEF FirstQuarter
  <2>2. pair \in 0 .. 2
    BY <1>2 DEF FirstCalm
  <2>3. FirstLength(y, z) - 1 = two /\ FirstQuarterChanges(y, z) = {pair}
    BY <1>2 DEF FirstLength, FirstQuarterChanges
  <2> HIDE DEF u, two, pair
  <2>4. Quiet(s, Skip(SetPair(s, pair, word), two), {pair}, Ahead(s, two))
    BY <1>0, <2>2, SetPairQuiet, QuietSkip
  <2> QED  BY <2>1, <2>3, <2>4 DEF u
<1>3. CASE z = 1 /\ y % 2 = 1
  <2> DEFINE result == AddWords(s.cc, HL(s), Pair(s, pair))
  <2>1. u = SetWord(s, two, result)
    BY <1>3 DEF FirstQuarter, DoubleAdd
  <2>2. FirstLength(y, z) - 1 = 0 /\ FirstQuarterChanges(y, z) = {two, 3}
    BY <1>3 DEF FirstLength, FirstQuarterChanges
  <2>3. Ahead(s, 0) = s.pc
    BY DEF Ahead
  <2> HIDE DEF u, two, result
  <2>4. Quiet(s, SetWord(s, two, result), {two, 3}, s.pc)
    BY <1>0, SetWordQuiet
  <2> QED  BY <2>1, <2>2, <2>3, <2>4 DEF u
<1>4. CASE z = 2
  <2>1. u = LoadStore(s, y, word, beyond)
    BY <1>4 DEF FirstQuarter
  <2>2. FirstLength(y, z) - 1 = IF y \in {5, 7} THEN 2 ELSE 0
    BY <1>4 DEF FirstLength
  <2>3. y \in {1, 3, 5, 7}
    BY <1>4 DEF FirstCalm
  <2> HIDE DEF u
  <2> QED  BY <1>4, <2>1, <2>2, <2>3, LoadQuiet DEF u
<1>5. CASE z = 3
  <2> DEFINE by == IF y % 2 = 0 THEN 1 ELSE -1
  <2>1. u = StepPair(s, pair, by)
    BY <1>5 DEF FirstQuarter
  <2>2. pair \in 0 .. 2
    BY <1>5 DEF FirstCalm
  <2>3. FirstLength(y, z) - 1 = 0 /\ FirstQuarterChanges(y, z) = {pair, 3}
    BY <1>5 DEF FirstLength, FirstQuarterChanges
  <2>4. Ahead(s, 0) = s.pc
    BY DEF Ahead
  <2> HIDE DEF u, by, pair
  <2>5. Quiet(s, StepPair(s, pair, by), {pair, 3}, s.pc)
    BY <2>2, StepPairQuiet
  <2> QED  BY <2>1, <2>3, <2>4, <2>5 DEF u
<1>6. CASE z \in {4, 5}
  <2>1. u = Increment(s, y) \/ u = Decrement(s, y)
    BY <1>6 DEF FirstQuarter
  <2>2. FirstLength(y, z) - 1 = 0 /\ FirstQuarterChanges(y, z) = {PairWith(y), 3} /\ y \in (0 .. 7) \ {6}
    BY <1>6 DEF FirstLength, FirstQuarterChanges, FirstCalm
  <2>3. Ahead(s, 0) = s.pc
    BY DEF Ahead
  <2> HIDE DEF u
  <2> QED  BY <2>1, <2>2, <2>3, CountQuiet DEF u
<1>7. CASE z = 6
  <2>1. u = Skip(Assign(s, y, imm), one)
    BY <1>7 DEF FirstQuarter
  <2>2. FirstLength(y, z) - 1 = one /\ FirstQuarterChanges(y, z) = {PairWith(y)} /\ y \in (0 .. 7) \ {6}
    BY <1>7 DEF FirstLength, FirstQuarterChanges, FirstCalm
  <2> HIDE DEF u, one
  <2>3. Quiet(s, Skip(Assign(s, y, imm), one), {PairWith(y)}, Ahead(s, one))
    BY <1>0, <2>2, AssignQuiet, QuietSkip
  <2> QED  BY <2>1, <2>2, <2>3 DEF u
<1>8. CASE z = 7
  <2>1. u = Adjust(s, y)
    BY <1>8 DEF FirstQuarter
  <2>2. FirstLength(y, z) - 1 = 0 /\ FirstQuarterChanges(y, z) = {3}
    BY <1>8 DEF FirstLength, FirstQuarterChanges
  <2>3. Ahead(s, 0) = s.pc
    BY DEF Ahead
  <2> HIDE DEF u
  <2> QED  BY <2>1, <2>2, <2>3, AdjustQuiet DEF u
<1> QED  BY <1>1, <1>2, <1>3, <1>4, <1>5, <1>6, <1>7, <1>8


LEMMA InnerRange ==
  ASSUME NEW p \in Inner
  PROVE  p \in Int /\ 0 <= p /\ p <= 65533
<1>1. p \in Word /\ p + 2 \in Word
  BY DEF Inner
<1>2. p \in Int /\ 0 <= p /\ p + 2 < 65536
  BY <1>1, WordRange
<1> QED  BY <1>2

LEMMA AheadIs ==
  ASSUME NEW s, Whole(s), NEW k \in 1 .. 3, s.pc \in Inner, s.pc + k \in Inner
  PROVE  Ahead(Skip(s, 1), k - 1) = s.pc + k
<1> DEFINE pc == Skip(s, 1).pc
           p == s.pc
           q == p + k
<1>1. pc = (p + 1) % 65536
  BY SMT DEF Skip, Whole, Processor
<1>2. Ahead(Skip(s, 1), k - 1) = IF k - 1 = 0 THEN pc ELSE (pc + (k - 1)) % 65536
  BY SMT DEF Ahead
<1>3. p \in Int /\ 0 <= p /\ p <= 65533
  BY InnerRange
<1>4. q \in Int /\ 0 <= q /\ q <= 65533
  BY InnerRange
<1> HIDE DEF pc, p
<1>5. pc = p + 1
  BY <1>1, <1>3, SMT
<1>6. pc + (k - 1) = q
  BY <1>3, <1>5, SMT
<1>7. q % 65536 = q
  <2> HIDE DEF q
  <2> QED  BY <1>4, SMT
<1>8. CASE k = 1
  BY <1>2, <1>5, <1>8, SMT DEF p
<1>9. CASE k # 1
  <2>1. k - 1 # 0
    BY <1>9, SMT
  <2> QED  BY <1>2, <1>6, <1>7, <2>1, SMT DEF p
<1> QED  BY <1>8, <1>9

\* The cases of a calm opcode.
CalmCase(opcode, y, z) ==
  \/ /\ opcode < 64 /\ FirstCalm(y, z)
     /\ Length(opcode) = FirstLength(y, z) /\ Changes(opcode) = FirstQuarterChanges(y, z)
  \/ opcode \in 64 .. 127 /\ y # 6 /\ Length(opcode) = 1 /\ Changes(opcode) = {PairWith(y)}
  \/ opcode \in 128 .. 191 /\ Length(opcode) = 1 /\ Changes(opcode) = {3}
  \/ opcode > 191 /\ z = 6 /\ Length(opcode) = 2 /\ Changes(opcode) = {3}
  \/ opcode > 191 /\ y = 5 /\ z = 3 /\ Length(opcode) = 1 /\ Changes(opcode) = {1, 2}
  \/ opcode > 191 /\ y = 5 /\ z = 5 /\ Length(opcode) = 1 /\ Changes(opcode) = {2}

LEMMA CalmFields ==
  ASSUME NEW opcode \in Byte, opcode \in Calm
  PROVE  CalmCase(opcode, (opcode \div 8) % 8, opcode % 8)
<1> DEFINE y == (opcode \div 8) % 8
           z == opcode % 8
<1> SUFFICES CalmCase(opcode, y, z)
  OBVIOUS
<1>1. MadeOf(opcode, y, z)
  BY OpcodeFields, Zenon
<1>2. opcode \in 0 .. 255
  BY DEF Byte
<1>3. Changes(opcode) = CASE opcode < 64 -> FirstQuarterChanges(y, z)
                          [] opcode \in 64 .. 127 -> {PairWith(y)}
                          [] opcode = 235 -> {1, 2}
                          [] opcode = 237 -> {2}
                          [] OTHER -> {3}
  BY DEF Changes
<1>4. Length(opcode) = CASE opcode \in {1, 17, 33, 42, 58} -> 3
                         [] opcode \in {40, 56} \/ (opcode \notin 64 .. 191 /\ z = 6) -> 2
                         [] OTHER -> 1
  BY DEF Length
<1>5. opcode > 191 => z = 6 \/ opcode \in {235, 237}
  BY DEF Calm
<1>6. opcode \notin {2, 18, 32, 34, 59} \cup 48 .. 54 \/ opcode > 63
  BY <1>2 DEF Calm
<1>7. opcode \notin 112 .. 119
  BY <1>2 DEF Calm
<1> HIDE DEF y, z
<1>8. y \in 0 .. 7 /\ z \in 0 .. 7
  BY <1>1 DEF MadeOf
<1>9. CASE opcode < 64
  <2>1. opcode = 8 * y + z
    BY <1>1, <1>9 DEF MadeOf
  <2>2. FirstCalm(y, z)
    BY <1>6, <1>8, <1>9, <2>1 DEF FirstCalm
  <2>3. Length(opcode) = FirstLength(y, z)
    <3>1. CASE z = 1
      <4>1. y % 2 = 0 <=> y \in {0, 2, 4, 6}
        BY <1>8
      <4>2. opcode \in {1, 17, 33} <=> y \in {0, 2, 4}
        BY <1>8, <2>1, <3>1
      <4>3. opcode \notin {42, 58, 40, 56}
        BY <1>8, <2>1, <3>1
      <4> QED  BY <1>4, <2>2, <3>1, <4>1, <4>2, <4>3 DEF FirstLength, FirstCalm
    <3>2. CASE z = 2
      <4>1. opcode \in {42, 58} <=> y \in {5, 7}
        BY <1>8, <2>1, <3>2
      <4>2. opcode \notin {1, 17, 33, 40, 56}
        BY <1>8, <2>1, <3>2
      <4> QED  BY <1>4, <3>2, <4>1, <4>2 DEF FirstLength
    <3>3. CASE z = 0
      <4>1. opcode \in {40, 56} <=> y \in {5, 7}
        BY <1>8, <2>1, <3>3
      <4>2. opcode \notin {1, 17, 33, 42, 58}
        BY <1>8, <2>1, <3>3
      <4> QED  BY <1>4, <3>3, <4>1, <4>2 DEF FirstLength
    <3>4. CASE z \in 3 .. 7
      <4>1. opcode \notin {1, 17, 33, 42, 58, 40, 56}
        BY <1>8, <2>1, <3>4
      <4> QED  BY <1>4, <1>9, <3>4, <4>1 DEF FirstLength
    <3> QED  BY <1>8, <3>1, <3>2, <3>3, <3>4
  <2> QED  BY <1>3, <1>9, <2>2, <2>3 DEF CalmCase
<1>10. CASE opcode \in 64 .. 127
  <2>1. opcode = 64 + 8 * y + z
    BY <1>1, <1>10 DEF MadeOf
  <2>2. y # 6
    BY <1>7, <1>8, <2>1
  <2> QED  BY <1>3, <1>4, <1>10, <2>2 DEF CalmCase
<1>11. CASE opcode \in 128 .. 191
  BY <1>3, <1>4, <1>11 DEF CalmCase
<1>12. CASE opcode > 191
  <2>1. opcode = 192 + 8 * y + z
    BY <1>1, <1>12 DEF MadeOf
  <2>2. CASE z = 6
    <3>1. opcode \notin {235, 237}
      BY <1>8, <2>1, <2>2
    <3>2. Changes(opcode) = {3} /\ Length(opcode) = 2
      BY <1>2, <1>3, <1>4, <1>12, <2>2, <3>1
    <3> QED  BY <1>12, <2>2, <3>2 DEF CalmCase
  <2>3. CASE opcode = 235
    <3>1. y = 5 /\ z = 3
      BY <1>8, <2>1, <2>3
    <3>2. Changes(opcode) = {1, 2} /\ Length(opcode) = 1
      BY <1>3, <1>4, <2>3, <3>1
    <3> QED  BY <1>12, <3>1, <3>2 DEF CalmCase
  <2>4. CASE opcode = 237
    <3>1. y = 5 /\ z = 5
      BY <1>8, <2>1, <2>4
    <3>2. Changes(opcode) = {2} /\ Length(opcode) = 1
      BY <1>3, <1>4, <2>4, <3>1
    <3> QED  BY <1>12, <3>1, <3>2 DEF CalmCase
  <2> QED  BY <1>5, <1>12, <2>2, <2>3, <2>4
<1> QED  BY <1>2, <1>9, <1>10, <1>11, <1>12


LEMMA MachineWhole == \A s : Machine(s) => Whole(s) /\ s.pc \in Word /\ s.sp \in Word
<1> TAKE s
<1> SUFFICES ASSUME Machine(s) PROVE Whole(s) /\ s.pc \in Word /\ s.sp \in Word
  OBVIOUS
<1>1. s.r \in [Register -> Byte] /\ s.pc \in Word /\ s.sp \in Word
  BY Fields
<1> QED  BY <1>1 DEF Machine, Processor, Whole

LEMMA CalmQuiet ==
  ASSUME NEW s, Machine(s), NEW beyond, s.pc \in Inner, Read(s, s.pc) \in Calm,
         s.pc + Length(Read(s, s.pc)) \in Inner
  PROVE  Quiet(s, Execute(s, beyond), Changes(Read(s, s.pc)), s.pc + Length(Read(s, s.pc)))
<1> DEFINE opcode == Read(s, s.pc)
           y == (opcode \div 8) % 8
           z == opcode % 8
           imm == Peek(s, s.pc + 1, beyond)
           word == PeekWord(s, s.pc + 1, beyond)
           fetched == Skip(s, 1)
           operand == Operand(s, z)
           k == Length(opcode)
           changes == Changes(opcode)
           u == Execute(s, beyond)
           one == 1
           two == 2
<1>1. u = CASE opcode < 64 -> FirstQuarter(fetched, y, z, imm, word, beyond)
            [] opcode \in 64 .. 127 -> Move(fetched, y, z)
            [] opcode \in 128 .. 191 -> Compute(fetched, y, operand)
            [] OTHER -> LastQuarter(fetched, y, z, imm, word, beyond)
  BY DEF Execute
<1>2. opcode \in Byte
  BY ReadType
<1>3. CalmCase(opcode, y, z) /\ y \in 0 .. 7 /\ z \in 0 .. 7
  <2> HIDE DEF opcode
  <2>1. MadeOf(opcode, y, z)
    BY <1>2, OpcodeFields, Zenon
  <2>2. CalmCase(opcode, y, z)
    BY <1>2, CalmFields DEF opcode
  <2> QED  BY <2>1, <2>2 DEF MadeOf
<1>4. k \in 1 .. 3
  BY DEF Length
<1>5. Quiet(s, fetched, {}, Ahead(s, 1))
  BY MachineWhole, SkipQuiet
<1>6. Whole(s) /\ Whole(fetched) /\ fetched.pc = Ahead(s, 1)
  BY <1>5, MachineWhole, QuietWhole
<1>7. Ahead(fetched, k - 1) = s.pc + k
  <2> HIDE DEF k
  <2> QED  BY <1>4, <1>6, AheadIs DEF k
<1>8. opcode \in 0 .. 255
  BY <1>2 DEF Byte
<1> HIDE DEF opcode, y, z, imm, word, fetched, operand, k, changes, u
<1>9. ASSUME NEW v, Quiet(fetched, v, changes, Ahead(fetched, k - 1))
      PROVE  Quiet(s, v, changes, s.pc + k)
  <2>1. Quiet(s, v, {} \cup changes, Ahead(fetched, k - 1))
    BY <1>5, <1>9, QuietThen
  <2>2. {} \cup changes = changes
    OBVIOUS
  <2> QED  BY <1>7, <2>1, <2>2
<1>a. Ahead(fetched, 0) = fetched.pc
  BY DEF Ahead
<1>10. CASE opcode < 64 /\ FirstCalm(y, z) /\ k = FirstLength(y, z) /\ changes = FirstQuarterChanges(y, z)
  <2>1. u = FirstQuarter(fetched, y, z, imm, word, beyond)
    BY <1>1, <1>10
  <2> QED  BY <1>3, <1>6, <1>9, <1>10, <2>1, FirstQuarterQuiet DEF u, changes, k, opcode
<1>11. CASE opcode \in 64 .. 127 /\ y # 6 /\ k = 1 /\ changes = {PairWith(y)}
  <2> DEFINE byte == Operand(fetched, z)
  <2>1. u = Assign(fetched, y, byte)
    BY <1>1, <1>11 DEF Move
  <2> HIDE DEF byte
  <2>2. y \in (0 .. 7) \ {6} /\ k - 1 = 0
    BY <1>3, <1>11
  <2>3. Quiet(fetched, u, changes, Ahead(fetched, k - 1))
    BY <1>6, <1>a, <1>11, <2>1, <2>2, AssignQuiet
  <2> QED  BY <1>9, <2>3 DEF u, changes, k, opcode
<1>12. CASE opcode \in 128 .. 191 /\ k = 1 /\ changes = {3}
  <2>1. u = Compute(fetched, y, operand)
    BY <1>1, <1>12
  <2>2. k - 1 = 0
    BY <1>12
  <2>3. Quiet(fetched, u, changes, Ahead(fetched, k - 1))
    BY <1>3, <1>6, <1>a, <1>12, <2>1, <2>2, ComputeQuiet
  <2> QED  BY <1>9, <2>3 DEF u, changes, k, opcode
<1>13. CASE opcode > 191 /\ z = 6 /\ k = 2 /\ changes = {3}
  <2>1. u = Skip(ComputeImmediate(fetched, y, imm), one)
    <3>1. u = LastQuarter(fetched, y, z, imm, word, beyond)
      BY <1>1, <1>8, <1>13
    <3> QED  BY <1>13, <3>1 DEF LastQuarter
  <2>2. k - 1 = one /\ one \in 1 .. 2
    BY <1>13
  <2> HIDE DEF one
  <2>3. Quiet(fetched, Skip(ComputeImmediate(fetched, y, imm), one), {3}, Ahead(fetched, one))
    BY <1>3, <1>6, <2>2, ComputeImmediateQuiet, QuietSkip
  <2>4. Quiet(fetched, u, changes, Ahead(fetched, k - 1))
    BY <1>13, <2>1, <2>2, <2>3
  <2> QED  BY <1>9, <2>4 DEF u, changes, k, opcode
<1>14. CASE opcode > 191 /\ y = 5 /\ z = 3 /\ k = 1 /\ changes = {1, 2}
  <2> DEFINE hl == HL(fetched)
             de == DE(fetched)
             v == SetPair(fetched, one, hl)
  <2>1. u = SetPair(v, two, de)
    <3>1. u = LastQuarter(fetched, y, z, imm, word, beyond)
      BY <1>1, <1>8, <1>14
    <3> QED  BY <1>14, <3>1 DEF LastQuarter, Control
  <2>2. k - 1 = 0 /\ one \in 0 .. 2 /\ two \in 0 .. 2 /\ {one} \cup {two} = changes
    BY <1>14
  <2> HIDE DEF one, two, hl, de
  <2>3. Quiet(fetched, v, {one}, fetched.pc)
    BY <1>6, <2>2, SetPairQuiet
  <2> HIDE DEF v
  <2>4. Whole(v) /\ v.pc = fetched.pc
    BY <2>3, QuietWhole
  <2>5. Quiet(v, u, {two}, fetched.pc)
    BY <2>1, <2>2, <2>4, SetPairQuiet
  <2>6. Quiet(fetched, u, {one} \cup {two}, fetched.pc)
    BY <2>3, <2>5, QuietThen
  <2>7. Quiet(fetched, u, changes, Ahead(fetched, k - 1))
    BY <1>a, <2>2, <2>6
  <2> QED  BY <1>9, <2>7 DEF u, changes, k, opcode
<1>15. CASE opcode > 191 /\ y = 5 /\ z = 5 /\ k = 1 /\ changes = {2}
  <2> DEFINE read == PeekWord(fetched, DE(fetched), beyond)
  <2>1. u = SetPair(fetched, two, read)
    <3>1. u = LastQuarter(fetched, y, z, imm, word, beyond)
      BY <1>1, <1>8, <1>15
    <3> QED  BY <1>15, <3>1 DEF LastQuarter, CallOrLoad
  <2>2. k - 1 = 0 /\ two \in 0 .. 2 /\ {two} = changes
    BY <1>15
  <2> HIDE DEF two, read
  <2>3. Quiet(fetched, u, changes, Ahead(fetched, k - 1))
    BY <1>6, <1>a, <2>1, <2>2, SetPairQuiet
  <2> QED  BY <1>9, <2>3 DEF u, changes, k, opcode
<1> QED
  BY <1>3, <1>10, <1>11, <1>12, <1>13, <1>14, <1>15 DEF CalmCase, k, changes


----------------------------------------------------------------------------
(* A handler at work: what it has saved, and what the registers hold.       *)

\* The k-th word under sp.
Saved(s, sp, k, word) ==
  Read(s, Below(sp, 1 + 2 * k)) = High(word) /\ Read(s, Below(sp, 2 + 2 * k)) = Low(word)

\* s serves an interrupt of the program at the point e of its trail: the return address
\* and "size" words are on its stack, and of these and the registers what is known is so.
ServingAs(s, c, e, size, stack, regs) ==
  /\ s.hlt_enable = e.at.hlt_enable
  /\ size \in 0 .. c.depth
  /\ s.sp = Below(e.at.sp, 2 + 2 * size)
  /\ Saved(s, e.at.sp, 0, e.at.pc)
  /\ \A k \in 1 .. size : stack[k] \in Names => Saved(s, e.at.sp, k, Stood(e.at, stack[k]))
  /\ \A n \in Names : regs[n] \in Names => Stood(s, n) = Stood(e.at, regs[n])
  /\ \A x : x \notin e.hidden => Read(s, x) = Read(e.at, x)

\* As Quiet, but for bytes in "where".
Gentle(s, u, changes, where, pc) ==
  /\ Whole(u) /\ u.sp = s.sp /\ u.hlt_enable = s.hlt_enable /\ u.pc = pc
  /\ \A x : x \notin where => Read(u, x) = Read(s, x)
  /\ \A n \in Names \ changes : Stood(u, n) = Stood(s, n)

LEMMA QuietGentle ==
  \A s, u, changes, pc : Quiet(s, u, changes, pc) => Gentle(s, u, changes, {}, pc)
BY DEF Quiet, Gentle

\* A job whose handler has a bounded stack, interrupted where there is room for it.
Roomy(c, e) == c.scratch \subseteq Word /\ c.depth \in 0 .. 1000 /\ Room(c, e) /\ Machine(e.at)

LEMMA DepthIs ==
  ASSUME NEW c, NEW e, Roomy(c, e)
  PROVE  c.depth \in Int /\ 0 <= c.depth /\ c.depth <= 1000
<1> DEFINE depth == c.depth
<1>1. depth \in 0 .. 1000
  BY DEF Roomy
<1> HIDE DEF depth
<1>2. depth \in Int /\ 0 <= depth /\ depth <= 1000
  BY <1>1
<1> QED  BY <1>2 DEF depth

LEMMA Slot ==
  ASSUME NEW c, NEW e, Roomy(c, e), NEW k \in 0 .. c.depth
  PROVE  /\ Below(e.at.sp, 1 + 2 * k) \notin c.scratch /\ Below(e.at.sp, 2 + 2 * k) \notin c.scratch
         /\ Below(e.at.sp, 1 + 2 * k) \in e.hidden /\ Below(e.at.sp, 2 + 2 * k) \in e.hidden
         /\ ~Protected(Below(e.at.sp, 1 + 2 * k)) /\ ~Protected(Below(e.at.sp, 2 + 2 * k))
         /\ Below(e.at.sp, 2 + 2 * k) # 65535
         /\ 1 + 2 * k \in Steps /\ 2 + 2 * k \in Steps /\ e.at.sp \in Word
<1>1. c.depth \in Int /\ 0 <= c.depth /\ c.depth <= 1000
  BY DepthIs
<1>2. /\ 1 + 2 * k \in 1 .. 2 + 2 * c.depth /\ 2 + 2 * k \in 1 .. 2 + 2 * c.depth
      /\ 1 + k \in 1 .. 1 + c.depth /\ 2 + 2 * k = 2 * (1 + k)
  BY <1>1
<1>3. 1 + 2 * k \in Steps /\ 2 + 2 * k \in Steps
  BY <1>1, InSteps, SMT
<1>4. Below(e.at.sp, 1 + 2 * k) \in Slots(c, e.at) /\ Below(e.at.sp, 2 + 2 * k) \in Slots(c, e.at)
  BY <1>2 DEF Slots
<1>5. Below(e.at.sp, 2 + 2 * k) # 65535
  <2>1. \A i \in 1 .. 1 + c.depth : Below(e.at.sp, 2 * i) # 65535
    BY SMT DEF Roomy, Room
  <2> QED  BY <1>2, <2>1, SMT
<1>6. \A x \in Slots(c, e.at) : x \notin c.scratch /\ x \in e.hidden /\ ~Protected(x)
  BY DEF Roomy, Room
<1>7. e.at.sp \in Word
  BY MachineWhole DEF Roomy
<1> QED  BY <1>3, <1>4, <1>5, <1>6, <1>7

LEMMA SizeIs ==
  ASSUME NEW s, NEW c, NEW e, NEW size, NEW stack, NEW regs, Roomy(c, e), ServingAs(s, c, e, size, stack, regs)
  PROVE  size \in 0 .. c.depth /\ size \in Int /\ c.depth \in Int
<1>1. c.depth \in 0 .. 1000
  BY DEF Roomy
<1>2. size \in 0 .. c.depth
  BY DEF ServingAs
<1> QED  BY <1>1, <1>2

\* What is not known of registers that change.
Forgotten(regs, changes) == [n \in Names |-> IF n \in changes THEN Unknown ELSE regs[n]]

LEMMA GentleServes ==
  ASSUME NEW s, NEW u, NEW c, NEW e, NEW size, NEW stack, NEW regs, NEW changes, NEW where, NEW pc,
         Roomy(c, e), ServingAs(s, c, e, size, stack, regs), Gentle(s, u, changes, where, pc),
         where \subseteq c.scratch
  PROVE  ServingAs(u, c, e, size, stack, Forgotten(regs, changes))
<1>1. size \in 0 .. c.depth /\ size \in Int /\ c.depth \in Int
  BY SizeIs
<1>2. c.scratch \subseteq e.hidden
  BY DEF Roomy, Room
<1>3. ASSUME NEW k \in 0 .. size, NEW word, Saved(s, e.at.sp, k, word)
      PROVE  Saved(u, e.at.sp, k, word)
  <2>1. k \in 0 .. c.depth
    BY <1>1
  <2>2. Below(e.at.sp, 1 + 2 * k) \notin where /\ Below(e.at.sp, 2 + 2 * k) \notin where
    BY <2>1, Slot
  <2> QED  BY <1>3, <2>2 DEF Saved, Gentle
<1>4. Saved(u, e.at.sp, 0, e.at.pc)
  <2>1. 0 \in 0 .. size
    BY <1>1
  <2> QED  BY <1>3, <2>1 DEF ServingAs
<1>5. \A k \in 1 .. size : stack[k] \in Names => Saved(u, e.at.sp, k, Stood(e.at, stack[k]))
  <2>1. \A k \in 1 .. size : k \in 0 .. size
    BY <1>1
  <2> QED  BY <1>3, <2>1 DEF ServingAs
<1>6. \A n \in Names : Forgotten(regs, changes)[n] \in Names => Stood(u, n) = Stood(e.at, Forgotten(regs, changes)[n])
  <2>1. Unknown \notin Names
    BY DEF Unknown, Names
  <2> QED  BY <2>1 DEF Forgotten, ServingAs, Gentle
<1>7. \A x : x \notin e.hidden => Read(u, x) = Read(e.at, x)
  BY <1>2 DEF ServingAs, Gentle
<1> QED  BY <1>4, <1>5, <1>6, <1>7 DEF ServingAs, Gentle

LEMMA QuietServes ==
  ASSUME NEW s, NEW u, NEW c, NEW e, NEW size, NEW stack, NEW regs, NEW pc,
         Roomy(c, e), ServingAs(s, c, e, size, stack, regs), Quiet(s, u, {}, pc)
  PROVE  ServingAs(u, c, e, size, stack, regs)
<1>1. Gentle(s, u, {}, {}, pc)
  BY QuietGentle
<1>2. ServingAs(u, c, e, size, stack, Forgotten(regs, {}))
  BY <1>1, GentleServes
<1>3. \A n \in Names : Forgotten(regs, {})[n] = regs[n]
  BY DEF Forgotten
<1> QED  BY <1>2, <1>3 DEF ServingAs

\* Where the handler goes on, its frame holds.
LEMMA Arrive ==
  ASSUME NEW s, NEW c, NEW e, NEW size, NEW stack, NEW regs,
         ServingAs(s, c, e, size, stack, regs), Leads(c, s.pc, size, stack, regs)
  PROVE  /\ s.pc \in DOMAIN c.frames
         /\ ServingAs(s, c, e, c.frames[s.pc].size, c.frames[s.pc].stack, c.frames[s.pc].regs)
<1>1. Unknown \notin Names
  BY DEF Unknown, Names
<1> QED  BY <1>1 DEF ServingAs, Leads


\* The bytes that PUSH leaves, and nothing else.
LEMMA PushBytes ==
  ASSUME NEW s, Machine(s), NEW word, ~Protected(Below(s.sp, 1)), ~Protected(Below(s.sp, 2)),
         Below(s.sp, 1) # Below(s.sp, 2)
  PROVE  LET u == Push(s, word)
         IN  /\ Whole(u) /\ u.r = s.r /\ u.cc = s.cc /\ u.pc = s.pc /\ u.hlt_enable = s.hlt_enable
             /\ u.sp = Below(s.sp, 2)
             /\ u.int_enable = s.int_enable /\ u.int_enable_delay = s.int_enable_delay
             /\ Read(u, Below(s.sp, 1)) = High(word) /\ Read(u, Below(s.sp, 2)) = Low(word)
             /\ \A x : x \notin {Below(s.sp, 1), Below(s.sp, 2)} => Read(u, x) = Read(s, x)
<1> DEFINE first == Below(s.sp, 1)
           second == Below(s.sp, 2)
           one == Store(s, first, High(word))
           two == Store(one, second, Low(word))
           u == Push(s, word)
<1>1. Processor(s) /\ Whole(s)
  BY MachineWhole DEF Whole
<1>2. mem_wr(s, s.sp - 1, High(word)) = one
  BY DEF mem_wr, Below
<1>3. mem_wr(one, s.sp - 2, Low(word)) = two
  BY DEF mem_wr, Below
<1>4. u = [two EXCEPT !.sp = (two.sp - 2) % 65536]
  BY <1>2, <1>3 DEF Push
<1> HIDE DEF u, first
<1>5. /\ \A x : Read(one, x) = IF x = first THEN High(word) ELSE Read(s, x)
      /\ Processor(one) /\ one.r = s.r /\ one.cc = s.cc /\ one.sp = s.sp /\ one.pc = s.pc
      /\ one.hlt_enable = s.hlt_enable
      /\ one.int_enable = s.int_enable /\ one.int_enable_delay = s.int_enable_delay
  BY <1>1, StoredBytes
<1> HIDE DEF one
<1>6. second = (s.sp - 2) % 65536
  BY DEF Below
<1> HIDE DEF second
<1>7. /\ \A x : Read(two, x) = IF x = second THEN Low(word) ELSE Read(one, x)
      /\ Processor(two) /\ two.r = one.r /\ two.cc = one.cc /\ two.sp = one.sp /\ two.pc = one.pc
      /\ two.hlt_enable = one.hlt_enable
      /\ two.int_enable = one.int_enable /\ two.int_enable_delay = one.int_enable_delay
  BY <1>5, StoredBytes
<1> HIDE DEF two
<1>8. u = [two EXCEPT !.sp = second]
  BY <1>4, <1>5, <1>6, <1>7
<1>9. /\ Processor(u) /\ u.r = two.r /\ u.cc = two.cc /\ u.sp = second /\ u.pc = two.pc
      /\ u.hlt_enable = two.hlt_enable /\ u.mem = two.mem
      /\ u.int_enable = two.int_enable /\ u.int_enable_delay = two.int_enable_delay
  BY <1>7, <1>8 DEF Processor
<1>10. \A x : Read(u, x) = Read(two, x)
  BY <1>9 DEF Read
<1>11. Read(u, first) = High(word) /\ Read(u, second) = Low(word)
  BY <1>5, <1>7, <1>10 DEF first, second
<1>12. \A x : x \notin {first, second} => Read(u, x) = Read(s, x)
  BY <1>5, <1>7, <1>10
<1> QED  BY <1>1, <1>5, <1>7, <1>9, <1>11, <1>12 DEF Whole, u, first, second

LEMMA StoodPushed == \A s, n : PushPair(s, n) = Push(s, Stood(s, n))
BY DEF PushPair, Stood

LEMMA SameStood ==
  ASSUME NEW s, NEW u, u.r = s.r, u.cc = s.cc
  PROVE  \A n \in Names : Stood(u, n) = Stood(s, n)
BY DEF Stood, Pair, A, Names

Pushing(stack, size, name) == [k \in 1 .. size + 1 |-> IF k > size THEN name ELSE stack[k]]

\* A handler saves another pair.
LEMMA PushServes ==
  ASSUME NEW s, Machine(s), NEW c, NEW e, NEW size, NEW stack, NEW regs,
         Roomy(c, e), ServingAs(s, c, e, size, stack, regs), size < c.depth, NEW n \in Names
  PROVE  LET u == PushPair(s, n)
         IN  /\ Whole(u) /\ u.pc = s.pc
             /\ ServingAs(u, c, e, size + 1, Pushing(stack, size, regs[n]), regs)
<1> DEFINE u == PushPair(s, n)
           word == Stood(s, n)
           sp == e.at.sp
           more == size + 1
           pushed == Pushing(stack, size, regs[n])
           first == Below(sp, 1 + 2 * more)
           second == Below(sp, 2 + 2 * more)
<1>1. size \in 0 .. c.depth /\ size \in Int /\ c.depth \in Int
  BY SizeIs
<1>2. more \in 0 .. c.depth /\ more \in Int
  BY <1>1
<1>3. /\ first \notin c.scratch /\ second \notin c.scratch
      /\ first \in e.hidden /\ second \in e.hidden
      /\ ~Protected(first) /\ ~Protected(second)
      /\ 1 + 2 * more \in Steps /\ 2 + 2 * more \in Steps /\ sp \in Word
  BY <1>2, Slot
<1>4. s.sp = Below(sp, 2 + 2 * size) /\ 2 + 2 * size \in Steps
  BY <1>1, Slot DEF ServingAs
<1>5. Below(s.sp, 1) = first /\ Below(s.sp, 2) = second
  <2> DEFINE one == 1
             two == 2
             down == 2 + 2 * size
  <2>1. down + one = 1 + 2 * more /\ down + two = 2 + 2 * more
    BY <1>1
  <2>2. one \in Steps /\ two \in Steps
    BY InSteps, SMT
  <2> HIDE DEF one, two, down
  <2>3. Below(Below(sp, down), one) = Below(sp, down + one) /\ Below(Below(sp, down), two) = Below(sp, down + two)
    BY <1>3, <1>4, <2>1, <2>2, BelowBelow DEF down
  <2> QED  BY <1>4, <2>1, <2>3 DEF one, two, down
<1>6. \A i \in Steps : i # 1 + 2 * more => Below(sp, i) # first
  BY <1>3, BelowApart
<1>7. \A i \in Steps : i # 2 + 2 * more => Below(sp, i) # second
  BY <1>3, BelowApart
<1>8. first # second
  BY <1>2, <1>3, <1>6
<1>9. u = Push(s, word)
  BY StoodPushed
<1> HIDE DEF u, word, first, second
<1>10. /\ Whole(u) /\ u.r = s.r /\ u.cc = s.cc /\ u.pc = s.pc /\ u.hlt_enable = s.hlt_enable
       /\ u.sp = second
       /\ Read(u, first) = High(word) /\ Read(u, second) = Low(word)
       /\ \A x : x \notin {first, second} => Read(u, x) = Read(s, x)
  BY <1>3, <1>5, <1>8, <1>9, PushBytes
<1>11. ASSUME NEW k \in 0 .. size, NEW w, Saved(s, sp, k, w)
       PROVE  Saved(u, sp, k, w)
  <2>1. k \in 0 .. c.depth /\ k # more /\ k \in Int
    BY <1>1, <1>11
  <2>2. 1 + 2 * k \in Steps /\ 2 + 2 * k \in Steps
    BY <2>1, Slot
  <2>3. 1 + 2 * k \notin {1 + 2 * more, 2 + 2 * more} /\ 2 + 2 * k \notin {1 + 2 * more, 2 + 2 * more}
    BY <1>2, <2>1
  <2>4. Below(sp, 1 + 2 * k) \notin {first, second} /\ Below(sp, 2 + 2 * k) \notin {first, second}
    BY <1>6, <1>7, <2>2, <2>3
  <2> QED  BY <1>10, <1>11, <2>4 DEF Saved
<1>12. Saved(u, sp, 0, e.at.pc)
  <2>1. 0 \in 0 .. size
    BY <1>1
  <2> QED  BY <1>11, <2>1 DEF ServingAs
<1>13. \A k \in 1 .. more : pushed[k] \in Names => Saved(u, sp, k, Stood(e.at, pushed[k]))
  <2> TAKE k \in 1 .. more
  <2>1. CASE k = more
    <3>1. pushed[k] = regs[n]
      BY <1>1, <2>1 DEF Pushing
    <3>2. regs[n] \in Names => word = Stood(e.at, regs[n])
      BY DEF ServingAs, word
    <3>3. Saved(u, sp, k, word)
      BY <1>10, <2>1 DEF Saved, first, second
    <3> QED  BY <3>1, <3>2, <3>3
  <2>2. CASE k # more
    <3>1. k \in 1 .. size /\ k \in 0 .. size /\ ~(k > size)
      BY <1>1, <2>2
    <3>2. pushed[k] = stack[k]
      BY <3>1 DEF Pushing
    <3> QED  BY <1>11, <3>1, <3>2 DEF ServingAs
  <2> QED  BY <2>1, <2>2
<1>14. \A k \in Names : regs[k] \in Names => Stood(u, k) = Stood(e.at, regs[k])
  BY <1>10, SameStood DEF ServingAs
<1>15. \A x : x \notin e.hidden => Read(u, x) = Read(e.at, x)
  BY <1>3, <1>10 DEF ServingAs
<1>16. ServingAs(u, c, e, more, pushed, regs)
  BY <1>2, <1>10, <1>12, <1>13, <1>14, <1>15 DEF ServingAs, second
<1> QED  BY <1>10, <1>16 DEF u


\* Where the last word a handler has saved is, and what reading it gives.
AtTop(s, sp, size, beyond) ==
  /\ s.sp = Below(sp, 2 + 2 * size)
  /\ s.sp + 1 = Below(sp, 1 + 2 * size) /\ (s.sp + 1) % 65536 = Below(sp, 1 + 2 * size)
  /\ s.sp % 65536 = s.sp
  /\ (s.sp + 2) % 65536 = Below(sp, 2 * size)
  /\ PeekWord(s, s.sp, beyond) = 256 * Read(s, s.sp + 1) + Read(s, s.sp)

LEMMA LastSaved ==
  ASSUME NEW s, Machine(s), NEW c, NEW e, NEW size, NEW stack, NEW regs, NEW beyond,
         Roomy(c, e), ServingAs(s, c, e, size, stack, regs)
  PROVE  AtTop(s, e.at.sp, size, beyond)
<1> DEFINE sp == e.at.sp
           down == 2 + 2 * size
           one == 1
           two == 2
           odd == 1 + 2 * size
           even == 2 * size
           x == s.sp
           y == Below(sp, odd)
<1>1. size \in 0 .. c.depth /\ size \in Int /\ c.depth \in Int
  BY SizeIs
<1>2. Below(sp, down) # 65535 /\ down \in Steps /\ odd \in Steps /\ sp \in Word
  BY <1>1, Slot
<1>3. down - one = odd /\ down - two = even /\ one <= down /\ two <= down
  BY <1>1
<1>4. one \in Steps /\ two \in Steps
  BY InSteps, SMT
<1>5. x = Below(sp, down)
  BY DEF ServingAs
<1> HIDE DEF one, two, down, odd, even
<1>6. (Below(sp, down) + one) % 65536 = Below(sp, odd)
  BY <1>2, <1>3, <1>4, BelowBack
<1>7. (Below(sp, down) + two) % 65536 = Below(sp, even)
  BY <1>2, <1>3, <1>4, BelowBack
<1>8. Below(sp, down) + one = Below(sp, odd)
  BY <1>2, <1>3, <1>4, BelowBack DEF one
<1>9. x \in Word /\ y \in Word
  <2>1. y \in Word
    BY <1>2, BelowIs DEF IsBelow
  <2> QED  BY <2>1, MachineWhole
<1>10. x + 1 = y /\ (x + 1) % 65536 = y /\ (x + 2) % 65536 = Below(sp, even)
  BY <1>5, <1>6, <1>7, <1>8 DEF one, two
<1> HIDE DEF x, y
<1>11. x \in Int /\ 0 <= x /\ x < 65536 /\ y < 65536 /\ y \in Int
  BY <1>9, WordRange
<1>12. x % 65536 = x /\ ~(x > 65535) /\ ~(y > 65535)
  BY <1>11, SMT
<1>13. PeekWord(s, x, beyond) = 256 * Read(s, y) + Read(s, x)
  BY <1>10, <1>12 DEF PeekWord, Peek
<1> QED  BY <1>5, <1>10, <1>12, <1>13 DEF x, y, odd, even, down, AtTop

\* A word whose bytes are those of a pair stands for that pair.
LEMMA StoodType ==
  ASSUME NEW t, Machine(t), NEW n \in Names
  PROVE  Stood(t, n) \in Word
<1>1. CASE n = 3
  BY <1>1, Fields, PswType, WordOf DEF Stood
<1>2. CASE n # 3
  BY <1>2, PairType DEF Stood, Names
<1> QED  BY <1>1, <1>2

HoldsWord(s, n, word) == Quiet(s, SetPair(s, n, word), {n}, s.pc) /\ Stood(SetPair(s, n, word), n) = word

LEMMA SetPairFields ==
  ASSUME NEW s, Whole(s), NEW n \in 0 .. 2, NEW h \in Byte, NEW l \in Byte
  PROVE  HoldsWord(s, n, 256 * h + l)
<1> DEFINE word == 256 * h + l
           u == SetPair(s, n, word)
           high == PairOf[n + 1].high
           low == PairOf[n + 1].low
           r == [s.r EXCEPT ![high] = h, ![low] = l]
<1>1. High(word) = h /\ Low(word) = l
  BY BytesBack
<1> HIDE DEF word
<1>2. Quiet(s, u, {n}, s.pc)
  BY SetPairQuiet
<1>3. high \in Register /\ low \in Register /\ high # low
  BY DEF PairOf, Register
<1>4. u = [s EXCEPT !.r[high] = h, !.r[low] = l]
  <2>1. n # 3
    OBVIOUS
  <2> QED  BY <1>1, <2>1 DEF SetPair
<1> HIDE DEF u, high, low
<1>5. u = [s EXCEPT !.r = r]
  BY <1>4 DEF Whole, Processor
<1>6. r[high] = h /\ r[low] = l
  BY <1>3 DEF Whole
<1>7. u.r = r
  BY <1>5 DEF Whole, Processor
<1> HIDE DEF r
<1>8. Stood(u, n) = 256 * u.r[high] + u.r[low]
  <2>1. n # 3
    OBVIOUS
  <2> QED  BY <2>1 DEF Stood, Pair, high, low
<1> QED  BY <1>2, <1>6, <1>7, <1>8 DEF u, word, HoldsWord

Popping(regs, n, word) == [regs EXCEPT ![n] = Popped(n, word)]

\* One word fewer on the stack.
LEMMA FewerServes ==
  ASSUME NEW s, NEW v, NEW c, NEW e, NEW size, NEW stack, NEW regs, NEW n, NEW left,
         Roomy(c, e), ServingAs(s, c, e, size, stack, regs), size > 0,
         left \in [Names -> Names \cup {Unknown}],
         v.hlt_enable = s.hlt_enable, v.sp = Below(e.at.sp, 2 * size),
         \A x : Read(v, x) = Read(s, x),
         \A k \in Names : left[k] \in Names => Stood(v, k) = Stood(e.at, left[k])
  PROVE  ServingAs(v, c, e, size - 1, stack, left)
<1>1. size \in 0 .. c.depth /\ size \in Int /\ c.depth \in Int
  BY SizeIs
<1>2. size - 1 \in 0 .. c.depth /\ 2 * size = 2 + 2 * (size - 1) /\ 1 .. size - 1 \subseteq 1 .. size
  BY <1>1
<1>3. \A sp, k, word : Saved(s, sp, k, word) => Saved(v, sp, k, word)
  BY DEF Saved
<1> QED  BY <1>2, <1>3 DEF ServingAs

LEMMA PopServes ==
  ASSUME NEW s, Machine(s), NEW c, NEW e, NEW size, NEW stack, NEW regs, NEW beyond,
         Roomy(c, e), ServingAs(s, c, e, size, stack, regs), size > 0, NEW n \in Names,
         stack \in [1 .. size -> Names \cup {Unknown}], regs \in [Names -> Names \cup {Unknown}]
  PROVE  LET u == Pop(s, n, beyond)
         IN  /\ Whole(u) /\ u.pc = s.pc
             /\ ServingAs(u, c, e, size - 1, stack, Popping(regs, n, stack[size]))
<1> DEFINE u == Pop(s, n, beyond)
           sp == e.at.sp
           h == Read(s, s.sp + 1)
           l == Read(s, s.sp)
           name == stack[size]
           left == Popping(regs, n, name)
           up == Below(sp, 2 * size)
<1>1. size \in 1 .. size
  <2>1. size \in Int
    BY SizeIs
  <2> QED  BY <2>1
<1>a. AtTop(s, sp, size, beyond)
  BY LastSaved, Zenon
<1>2. /\ s.sp = Below(sp, 2 + 2 * size)
      /\ s.sp + 1 = Below(sp, 1 + 2 * size) /\ (s.sp + 1) % 65536 = s.sp + 1
      /\ (s.sp + 2) % 65536 = up
      /\ PeekWord(s, s.sp, beyond) = 256 * h + l
  BY <1>a DEF AtTop
<1>3. Whole(s) /\ h \in Byte /\ l \in Byte /\ Machine(e.at)
  BY MachineWhole, ReadType DEF Roomy
<1>4. name \in Names \cup {Unknown} /\ (name \in Names => Saved(s, sp, size, Stood(e.at, name)))
  BY <1>1 DEF ServingAs
<1>5. name \in Names => h = High(Stood(e.at, name)) /\ l = Low(Stood(e.at, name))
  BY <1>2, <1>4 DEF Saved
<1>6. name \in Names => 256 * h + l = Stood(e.at, name)
  BY <1>3, <1>5, StoodType, WordBytes
<1>7. left \in [Names -> Names \cup {Unknown}] /\ left[n] = Popped(n, name)
      /\ \A k \in Names : k # n => left[k] = regs[k]
  BY <1>4 DEF Popping, Popped
<1>8. Unknown \notin Names
  BY DEF Unknown, Names
<1> HIDE DEF h, l, left, name, up
<1>9. CASE n = 3
  <2> DEFINE cc == FlagsOf(l)
             r == [s.r EXCEPT !["a"] = h]
  <2>1. u = [s EXCEPT !.cc = cc, !.r = r, !.sp = up]
    <3> DEFINE next == (s.sp + 2) % 65536
               byte == Read(s, (s.sp + 1) % 65536)
               low == Read(s, s.sp)
    <3>1. u = [s EXCEPT !.cc = FlagsOf(low), !.r["a"] = byte, !.sp = next]
      BY <1>9, <1>3 DEF Pop, Whole, Processor
    <3>2. next = up /\ byte = h /\ low = l
      BY <1>2 DEF h, l
    <3> HIDE DEF next, byte, low
    <3> QED  BY <1>3, <3>1, <3>2 DEF Whole, Processor
  <2>2. DOMAIN r = Register /\ r["a"] = h /\ \A x \in Register : x # "a" => r[x] = s.r[x]
    BY <1>3 DEF Whole, Register
  <2> HIDE DEF u, cc, r
  <2>3. /\ Processor(u) /\ u.cc = cc /\ u.r = r /\ u.sp = up /\ u.mem = s.mem
        /\ u.pc = s.pc /\ u.hlt_enable = s.hlt_enable
    BY <1>3, <2>1 DEF Whole, Processor
  <2>4. \A x : Read(u, x) = Read(s, x)
    BY <2>3 DEF Read
  <2>5. \A k \in Names : k # 3 => Stood(u, k) = Stood(s, k)
    <3> TAKE k \in Names
    <3> SUFFICES ASSUME k # 3 PROVE Stood(u, k) = Stood(s, k)
      OBVIOUS
    <3>1. k \in 0 .. 2
      BY DEF Names
    <3>2. /\ PairOf[k + 1].high \in Register /\ PairOf[k + 1].low \in Register
          /\ PairOf[k + 1].high # "a" /\ PairOf[k + 1].low # "a"
      BY <3>1 DEF PairOf, Register
    <3> QED  BY <2>2, <2>3, <3>2 DEF Stood, Pair
  <2>6. left[3] \in Names => Stood(u, 3) = Stood(e.at, left[3])
    <3> SUFFICES ASSUME left[3] \in Names PROVE Stood(u, 3) = Stood(e.at, left[3])
      OBVIOUS
    <3>1. left[3] = 3 /\ name = 3
      BY <1>7, <1>8, <1>9 DEF Popped
    <3>2. 3 \in Names
      BY DEF Names
    <3>3. /\ A(e.at) \in Byte /\ e.at.cc \in Flags /\ PswByte(e.at.cc) \in Byte
          /\ Stood(e.at, 3) = 256 * A(e.at) + PswByte(e.at.cc)
      BY <1>3, Fields, PswType DEF Stood
    <3>4. h = A(e.at) /\ l = PswByte(e.at.cc)
      BY <1>5, <3>1, <3>2, <3>3, BytesBack
    <3>5. cc = e.at.cc
      BY <3>3, <3>4, PswBack DEF cc
    <3> QED  BY <2>2, <2>3, <3>1, <3>4, <3>5 DEF Stood, A
  <2>7. \A k \in Names : left[k] \in Names => Stood(u, k) = Stood(e.at, left[k])
    BY <1>7, <1>9, <2>5, <2>6 DEF ServingAs
  <2>8. ServingAs(u, c, e, size - 1, stack, left)
    BY <1>7, <2>3, <2>4, <2>7, FewerServes DEF up
  <2>9. Whole(u)
    BY <2>2, <2>3 DEF Whole
  <2> QED  BY <2>3, <2>8, <2>9 DEF u, left, name
<1>10. CASE n # 3
  <2> DEFINE read == 256 * h + l
             v == SetPair(s, n, read)
  <2>1. u = [v EXCEPT !.sp = (v.sp + 2) % 65536]
    BY <1>2, <1>10 DEF Pop
  <2>2. n \in 0 .. 2
    BY <1>10 DEF Names
  <2>3. Quiet(s, v, {n}, s.pc) /\ Stood(v, n) = 256 * h + l
    <3> HIDE DEF u, v
    <3>1. HoldsWord(s, n, read)
      BY <1>3, <2>2, SetPairFields, Zenon
    <3> QED  BY <3>1 DEF HoldsWord, v
  <2> HIDE DEF u, v
  <2>4. u = [v EXCEPT !.sp = up]
    BY <1>2, <2>1, <2>3 DEF Quiet
  <2>5. /\ Processor(u) /\ u.cc = v.cc /\ u.r = v.r /\ u.sp = up /\ u.mem = v.mem
        /\ u.pc = s.pc /\ u.hlt_enable = s.hlt_enable
    BY <2>3, <2>4 DEF Quiet, Whole, Processor
  <2>6. \A x : Read(u, x) = Read(s, x)
    BY <2>3, <2>5 DEF Read, Quiet
  <2>7. \A k \in Names : Stood(u, k) = Stood(v, k)
    BY <2>5, SameStood
  <2>8. left[n] = name
    BY <1>7, <1>10 DEF Popped
  <2>9. \A k \in Names : left[k] \in Names => Stood(u, k) = Stood(e.at, left[k])
    BY <1>6, <1>7, <2>3, <2>7, <2>8 DEF ServingAs, Quiet
  <2>10. ServingAs(u, c, e, size - 1, stack, left)
    BY <1>7, <2>5, <2>6, <2>9, FewerServes DEF up
  <2>11. Whole(u)
    BY <2>3, <2>5 DEF Whole, Quiet
  <2> QED  BY <2>5, <2>10, <2>11 DEF u, left, name
<1> QED  BY <1>9, <1>10


LEMMA GentleThen ==
  ASSUME NEW s, NEW u, NEW v, NEW first, NEW second, NEW here, NEW there, NEW pc, NEW next,
         Gentle(s, u, first, here, pc), Gentle(u, v, second, there, next)
  PROVE  Gentle(s, v, first \cup second, here \cup there, next)
BY DEF Gentle

\* Where a write to addr goes.
Place(addr) == addr % 65536

\* A write through the plugins, which may veto it.
LEMMA MemWrGentle ==
  ASSUME NEW s, Whole(s), NEW addr, NEW val
  PROVE  Gentle(s, mem_wr(s, addr, val), {}, {Place(addr)}, s.pc)
<1> DEFINE at == addr % 65536
           u == mem_wr(s, addr, val)
<1>1. CASE Protected(at)
  <2>1. u = s
    BY <1>1 DEF mem_wr
  <2> HIDE DEF u, at
  <2>2. Gentle(s, u, {}, {at}, s.pc)
    BY <2>1 DEF Gentle
  <2> QED  BY <2>2 DEF u, at, Place
<1>2. CASE ~Protected(at)
  <2>1. u = Store(s, at, val)
    BY <1>2 DEF mem_wr
  <2> HIDE DEF u, at
  <2>2. /\ \A x : Read(u, x) = IF x = at THEN val ELSE Read(s, x)
        /\ Processor(u) /\ u.r = s.r /\ u.cc = s.cc /\ u.sp = s.sp /\ u.pc = s.pc
        /\ u.hlt_enable = s.hlt_enable
    BY <2>1, StoredBytes DEF Whole
  <2>3. \A n \in Names : Stood(u, n) = Stood(s, n)
    BY <2>2, SameStood
  <2>4. Gentle(s, u, {}, {at}, s.pc)
    BY <2>2, <2>3 DEF Gentle, Whole
  <2> QED  BY <2>4 DEF u, at, Place
<1> QED  BY <1>1, <1>2

LEMMA StoreWordGentle ==
  ASSUME NEW s, Whole(s), NEW addr, NEW word
  PROVE  Gentle(s, StoreWord(s, addr, word), {}, {Place(addr), Place(addr + 1)}, s.pc)
<1> DEFINE one == mem_wr(s, addr, Low(word))
           next == addr + 1
           here == Place(addr)
           there == Place(next)
<1>1. Gentle(s, one, {}, {here}, s.pc)
  BY MemWrGentle
<1>2. Whole(one) /\ one.pc = s.pc
  BY <1>1 DEF Gentle
<1>3. StoreWord(s, addr, word) = mem_wr(one, next, High(word))
  BY DEF StoreWord
<1> HIDE DEF one, next
<1>4. Gentle(one, mem_wr(one, next, High(word)), {}, {there}, s.pc)
  BY <1>2, MemWrGentle
<1> HIDE DEF here, there
<1>5. Gentle(s, mem_wr(one, next, High(word)), {} \cup {}, {here} \cup {there}, s.pc)
  BY <1>1, <1>4, GentleThen
<1>6. {here} \cup {there} = {here, there} /\ {} \cup {} = {}
  OBVIOUS
<1>7. Gentle(s, StoreWord(s, addr, word), {}, {here, there}, s.pc)
  BY <1>3, <1>5, <1>6, Zenon
<1> QED  BY <1>7 DEF here, there, next

\* The two bytes of a word stored in memory that is not protected.
LEMMA StoredWord ==
  ASSUME NEW s, Whole(s), NEW addr, NEW word, NEW lo, NEW hi, lo # hi,
         addr % 65536 = lo, (addr + 1) % 65536 = hi, ~Protected(lo), ~Protected(hi)
  PROVE  Read(StoreWord(s, addr, word), lo) = Low(word) /\ Read(StoreWord(s, addr, word), hi) = High(word)
<1> DEFINE one == Store(s, lo, Low(word))
           two == Store(one, hi, High(word))
<1>1. StoreWord(s, addr, word) = two
  BY DEF StoreWord, mem_wr
<1> HIDE DEF one
<1>2. Processor(one) /\ Read(one, lo) = Low(word)
  BY StoredBytes DEF one, Whole
<1>3. Read(two, hi) = High(word) /\ Read(two, lo) = Read(one, lo)
  BY <1>2, StoredBytes
<1> QED  BY <1>1, <1>2, <1>3

\* XTHL exchanges the last word that was saved with HL.
LEMMA ExchangeServes ==
  ASSUME NEW s, Machine(s), NEW c, NEW e, NEW size, NEW stack, NEW regs, NEW beyond,
         Roomy(c, e), ServingAs(s, c, e, size, stack, regs), size > 0,
         stack \in [1 .. size -> Names \cup {Unknown}], regs \in [Names -> Names \cup {Unknown}]
  PROVE  LET u == ExchangeTop(s, beyond)
         IN  /\ Whole(u) /\ u.pc = s.pc
             /\ ServingAs(u, c, e, size, [stack EXCEPT ![size] = regs[2]], [regs EXCEPT ![2] = stack[size]])
<1> DEFINE u == ExchangeTop(s, beyond)
           sp == e.at.sp
           h == Read(s, s.sp + 1)
           l == Read(s, s.sp)
           top == PeekWord(s, s.sp, beyond)
           read == 256 * h + l
           hl == HL(s)
           v == StoreWord(s, s.sp, hl)
           name == stack[size]
           held == regs[2]
           saved == [stack EXCEPT ![size] = held]
           left == [regs EXCEPT ![2] = name]
           lo == Below(sp, 2 + 2 * size)
           hi == Below(sp, 1 + 2 * size)
           two == 2
<1>1. size \in 1 .. size /\ size \in 0 .. c.depth /\ size \in Int /\ c.depth \in Int
  <2>1. size \in 0 .. c.depth /\ size \in Int /\ c.depth \in Int
    BY SizeIs
  <2> QED  BY <2>1
<1>2. AtTop(s, sp, size, beyond)
  BY LastSaved, Zenon
<1>3. /\ s.sp = lo /\ s.sp + 1 = hi /\ s.sp % 65536 = lo /\ (s.sp + 1) % 65536 = hi
      /\ top = read
  BY <1>2 DEF AtTop
<1>4. /\ lo \in e.hidden /\ hi \in e.hidden /\ ~Protected(lo) /\ ~Protected(hi)
      /\ 1 + 2 * size \in Steps /\ 2 + 2 * size \in Steps /\ sp \in Word
  BY <1>1, Slot
<1>5. lo # hi
  BY <1>1, <1>4, BelowApart
<1>6. Whole(s) /\ h \in Byte /\ l \in Byte /\ Machine(e.at)
  BY MachineWhole, ReadType DEF Roomy
<1>7. name \in Names \cup {Unknown} /\ (name \in Names => read = Stood(e.at, name))
  <2>1. name \in Names \cup {Unknown} /\ (name \in Names => Saved(s, sp, size, Stood(e.at, name)))
    BY <1>1 DEF ServingAs
  <2>2. name \in Names => h = High(Stood(e.at, name)) /\ l = Low(Stood(e.at, name))
    BY <1>3, <2>1 DEF Saved
  <2> QED  BY <1>6, <2>1, <2>2, StoodType, WordBytes
<1>8. hl = Stood(s, 2) /\ 2 \in Names
  BY DEF HL, Stood, Names
<1>9. held \in Names => hl = Stood(e.at, held)
  BY <1>8 DEF ServingAs
<1>10. u = SetPair(v, two, read)
  <2>1. u = SetPair(v, two, top)
    BY DEF ExchangeTop
  <2> HIDE DEF u, v, top, read
  <2> QED  BY <1>3, <2>1
<1>11. Gentle(s, v, {}, {lo, hi}, s.pc)
  <2>1. Gentle(s, v, {}, {Place(s.sp), Place(s.sp + 1)}, s.pc)
    BY <1>6, StoreWordGentle
  <2>2. Place(s.sp) = lo /\ Place(s.sp + 1) = hi
    BY <1>3 DEF Place
  <2> HIDE DEF v, lo, hi
  <2> QED  BY <2>1, <2>2
<1>12. Read(v, lo) = Low(hl) /\ Read(v, hi) = High(hl)
  <2> HIDE DEF lo, hi
  <2> QED  BY <1>3, <1>4, <1>5, <1>6, StoredWord
<1>13. Whole(v) /\ v.pc = s.pc
  BY <1>11 DEF Gentle
<1> HIDE DEF u, v, top, hl, h, l, lo, hi
<1>14. HoldsWord(v, two, read)
  <2>1. two \in 0 .. 2
    OBVIOUS
  <2> HIDE DEF two
  <2> QED  BY <1>6, <1>13, <2>1, SetPairFields, Zenon
<1>15. Quiet(v, u, {2}, s.pc) /\ Stood(u, 2) = read
  BY <1>10, <1>13, <1>14 DEF HoldsWord
<1> HIDE DEF read
<1>16. Whole(u) /\ u.pc = s.pc /\ u.sp = s.sp /\ u.hlt_enable = s.hlt_enable
  BY <1>11, <1>15 DEF Quiet, Gentle
<1>17. \A x : x \notin {lo, hi} => Read(u, x) = Read(s, x)
  BY <1>11, <1>15 DEF Quiet, Gentle
<1>18. Read(u, lo) = Low(hl) /\ Read(u, hi) = High(hl)
  BY <1>12, <1>15 DEF Quiet
<1>19. \A k \in Names : k # 2 => Stood(u, k) = Stood(s, k)
  BY <1>11, <1>15 DEF Quiet, Gentle
<1>20. \A i \in Steps : i \notin {1 + 2 * size, 2 + 2 * size} => Below(sp, i) \notin {lo, hi}
  BY <1>4, BelowApart DEF lo, hi
<1>21. ASSUME NEW k \in 0 .. size, k # size, NEW w, Saved(s, sp, k, w)
       PROVE  Saved(u, sp, k, w)
  <2>1. k \in 0 .. c.depth /\ k \in Int /\ size \in Int
    BY <1>1, <1>21
  <2>2. 1 + 2 * k \in Steps /\ 2 + 2 * k \in Steps
    BY <2>1, Slot
  <2>3. 1 + 2 * k \notin {1 + 2 * size, 2 + 2 * size} /\ 2 + 2 * k \notin {1 + 2 * size, 2 + 2 * size}
    BY <1>21, <2>1
  <2> QED  BY <1>17, <1>20, <1>21, <2>2, <2>3 DEF Saved
<1>22. Saved(u, sp, 0, e.at.pc)
  <2>1. 0 \in 0 .. size /\ 0 # size
    BY <1>1
  <2> QED  BY <1>21, <2>1 DEF ServingAs
<1>23. \A k \in 1 .. size : saved[k] \in Names => Saved(u, sp, k, Stood(e.at, saved[k]))
  <2> TAKE k \in 1 .. size
  <2>1. CASE k = size
    <3>1. saved[k] = held
      BY <1>1, <2>1
    <3>2. Saved(u, sp, k, hl)
      BY <1>18, <2>1 DEF Saved, lo, hi
    <3> QED  BY <1>9, <3>1, <3>2
  <2>2. CASE k # size
    <3>1. saved[k] = stack[k]
      BY <2>2
    <3>2. k \in 0 .. size
      BY <1>1
    <3> QED  BY <1>21, <2>2, <3>1, <3>2 DEF ServingAs
  <2> QED  BY <2>1, <2>2
<1>24. \A k \in Names : left[k] \in Names => Stood(u, k) = Stood(e.at, left[k])
  <2>1. left[2] = name /\ \A k \in Names : k # 2 => left[k] = regs[k]
    BY <1>8
  <2> QED  BY <1>7, <1>15, <1>19, <2>1 DEF ServingAs
<1>25. \A x : x \notin e.hidden => Read(u, x) = Read(e.at, x)
  BY <1>4, <1>17 DEF ServingAs
<1>26. ServingAs(u, c, e, size, saved, left)
  BY <1>16, <1>22, <1>23, <1>24, <1>25 DEF ServingAs
<1> QED  BY <1>16, <1>26 DEF u


\* The pairs hold all the registers and the flags.
LEMMA RegistersBack ==
  ASSUME NEW s, NEW t, Machine(s), Machine(t), \A n \in Names : Stood(s, n) = Stood(t, n)
  PROVE  s.r = t.r /\ s.cc = t.cc
<1>1. s.r \in [Register -> Byte] /\ t.r \in [Register -> Byte] /\ s.cc \in Flags /\ t.cc \in Flags
  BY Fields
<1>2. ASSUME NEW h \in Byte, NEW l \in Byte, NEW i \in Byte, NEW k \in Byte, 256 * h + l = 256 * i + k
      PROVE  h = i /\ l = k
  BY <1>2, BytesBack
<1>3. \A x \in Register : s.r[x] \in Byte /\ t.r[x] \in Byte
  BY <1>1
<1>4. {"a", "b", "c", "d", "e", "h", "l"} = Register
  BY DEF Register
<1>5. {0, 1, 2, 3} \subseteq Names
  BY DEF Names
<1>6. 256 * s.r["b"] + s.r["c"] = 256 * t.r["b"] + t.r["c"]
  <2>1. Stood(s, 0) = Stood(t, 0)
    BY <1>5
  <2> QED  BY <2>1 DEF Stood, Pair, PairOf
<1>7. 256 * s.r["d"] + s.r["e"] = 256 * t.r["d"] + t.r["e"]
  <2>1. Stood(s, 1) = Stood(t, 1)
    BY <1>5
  <2> QED  BY <2>1 DEF Stood, Pair, PairOf
<1>8. 256 * s.r["h"] + s.r["l"] = 256 * t.r["h"] + t.r["l"]
  <2>1. Stood(s, 2) = Stood(t, 2)
    BY <1>5
  <2> QED  BY <2>1 DEF Stood, Pair, PairOf
<1>9. 256 * s.r["a"] + PswByte(s.cc) = 256 * t.r["a"] + PswByte(t.cc)
  <2>1. Stood(s, 3) = Stood(t, 3)
    BY <1>5
  <2> QED  BY <2>1 DEF Stood, A
<1>10. PswByte(s.cc) \in Byte /\ PswByte(t.cc) \in Byte
  BY <1>1, PswType
<1>11. s.r["a"] = t.r["a"] /\ PswByte(s.cc) = PswByte(t.cc)
  BY <1>2, <1>3, <1>4, <1>9, <1>10
<1>12. s.r["b"] = t.r["b"] /\ s.r["c"] = t.r["c"]
  BY <1>2, <1>3, <1>4, <1>6
<1>13. s.r["d"] = t.r["d"] /\ s.r["e"] = t.r["e"]
  BY <1>2, <1>3, <1>4, <1>7
<1>14. s.r["h"] = t.r["h"] /\ s.r["l"] = t.r["l"]
  BY <1>2, <1>3, <1>4, <1>8
<1>15. \A x \in Register : s.r[x] = t.r[x]
  BY <1>4, <1>11, <1>12, <1>13, <1>14
<1>16. s.cc = t.cc
  BY <1>1, <1>11, PswBack
<1> QED  BY <1>1, <1>15, <1>16

\* The handler gives everything back and returns.
LEMMA ReturnServes ==
  ASSUME NEW s, Machine(s), NEW c, NEW e, NEW stack, NEW regs, NEW beyond,
         Roomy(c, e), ServingAs(s, c, e, 0, stack, regs), \A n \in Names : regs[n] = n, Open(e.at)
  PROVE  Alike(returnToCaller(s, beyond), e.at, e.hidden)
<1> DEFINE u == returnToCaller(s, beyond)
           t == e.at
           none == 0
           top == PeekWord(s, s.sp, beyond)
           up == (s.sp + 2) % 65536
<1>1. Machine(t) /\ t.pc \in Word /\ t.sp \in Word /\ Whole(s) /\ Processor(s) /\ Processor(t)
  BY MachineWhole DEF Roomy, Whole
<1>2. Saved(s, t.sp, none, t.pc)
  BY DEF ServingAs
<1>3. AtTop(s, t.sp, none, beyond)
  BY LastSaved, Zenon
<1>4. Read(s, s.sp + 1) = High(t.pc) /\ Read(s, s.sp) = Low(t.pc)
  BY <1>2, <1>3 DEF Saved, AtTop
<1>5. top = t.pc
  BY <1>1, <1>3, <1>4, WordBytes DEF AtTop
<1>6. up = t.sp
  <2>1. 2 * none = 0
    OBVIOUS
  <2> QED  BY <1>1, <1>3, <2>1, BelowNone DEF AtTop
<1>7. u = [s EXCEPT !.pc = top, !.sp = up]
  BY <1>1 DEF returnToCaller, Processor
<1> HIDE DEF u, top, up
<1>8. /\ Processor(u) /\ u.r = s.r /\ u.cc = s.cc /\ u.pc = t.pc /\ u.sp = t.sp
      /\ u.hlt_enable = s.hlt_enable /\ u.mem = s.mem
  BY <1>1, <1>5, <1>6, <1>7 DEF Processor
<1>9. s.r = t.r /\ s.cc = t.cc
  <2>1. \A n \in Names : Stood(s, n) = Stood(t, n)
    BY DEF ServingAs
  <2> QED  BY <1>1, <2>1, RegistersBack
<1>10. \A x : x \notin e.hidden => Read(u, x) = Read(t, x)
  BY <1>8 DEF Read, ServingAs
<1> QED  BY <1>1, <1>8, <1>9, <1>10 DEF Alike, ServingAs, u


----------------------------------------------------------------------------
(* The instructions of a handler.                                           *)

SaveOpcodes == {197, 213, 229, 245}
RestoreOpcodes == {193, 209, 225, 241}
JumpOpcodes == {221, 253} \cup {x \in 192 .. 255 : x % 8 = 2}

\* What they do once they are fetched.
Does(opcode, fetched, u, word, beyond) ==
  /\ opcode \in SaveOpcodes => u = PushPair(fetched, (opcode \div 16) % 4)
  /\ opcode \in RestoreOpcodes => u = Pop(fetched, (opcode \div 16) % 4, beyond)
  /\ opcode = 227 => u = ExchangeTop(fetched, beyond)
  /\ opcode = 34 => u = Skip(StoreWord(fetched, word, HL(fetched)), 2)
  /\ opcode = 50 => u = Skip(mem_wr(fetched, word, A(fetched)), 2)
  /\ opcode = 243 => u = Core!DisableInterrupts(fetched)
  /\ opcode = 251 => u = Core!EnableInterrupts(fetched)
  /\ opcode = 195 => u = Jump(fetched, TRUE, word)
  /\ opcode \in JumpOpcodes => u = Jump(fetched, TRUE, word) \/ u = Jump(fetched, FALSE, word)
  /\ opcode = 201 => u = returnToCaller(fetched, beyond)

LEMMA Decoded ==
  ASSUME NEW s, Machine(s), NEW beyond
  PROVE  Does(Read(s, s.pc), Skip(s, 1), Execute(s, beyond), PeekWord(s, s.pc + 1, beyond), beyond)
<1> DEFINE opcode == Read(s, s.pc)
           y == (opcode \div 8) % 8
           z == opcode % 8
           imm == Peek(s, s.pc + 1, beyond)
           word == PeekWord(s, s.pc + 1, beyond)
           fetched == Skip(s, 1)
           operand == Operand(s, z)
           u == Execute(s, beyond)
<1> SUFFICES Does(opcode, fetched, u, word, beyond)
  OBVIOUS
<1>1. u = CASE opcode < 64 -> FirstQuarter(fetched, y, z, imm, word, beyond)
            [] opcode \in 64 .. 127 -> Move(fetched, y, z)
            [] opcode \in 128 .. 191 -> Compute(fetched, y, operand)
            [] OTHER -> LastQuarter(fetched, y, z, imm, word, beyond)
  BY DEF Execute
<1>2. opcode \in Byte
  BY ReadType
<1>3. opcode \in 0 .. 255
  BY <1>2 DEF Byte
<1> HIDE DEF opcode, imm, word, fetched, operand, u
<1>4. opcode > 191 => u = LastQuarter(fetched, y, z, imm, word, beyond)
  <2> HIDE DEF y, z
  <2> QED  BY <1>1, <1>3
<1>5. ASSUME opcode \in SaveOpcodes PROVE u = PushPair(fetched, (opcode \div 16) % 4)
  <2>1. opcode > 191 /\ z = 5 /\ y % 2 = 0 /\ y \div 2 = (opcode \div 16) % 4
    BY <1>5 DEF SaveOpcodes
  <2> HIDE DEF y, z
  <2> QED  BY <1>4, <2>1 DEF LastQuarter
<1>6. ASSUME opcode \in RestoreOpcodes PROVE u = Pop(fetched, (opcode \div 16) % 4, beyond)
  <2>1. opcode > 191 /\ z = 1 /\ y % 2 = 0 /\ y \div 2 = (opcode \div 16) % 4
    BY <1>6 DEF RestoreOpcodes
  <2> HIDE DEF y, z
  <2> QED  BY <1>4, <2>1 DEF LastQuarter
<1>7. ASSUME opcode = 227 PROVE u = ExchangeTop(fetched, beyond)
  <2>1. opcode > 191 /\ z = 3 /\ y = 4
    BY <1>7
  <2> HIDE DEF y, z
  <2> QED  BY <1>4, <2>1 DEF LastQuarter, Control
<1>8. ASSUME opcode = 34 PROVE u = Skip(StoreWord(fetched, word, HL(fetched)), 2)
  <2>1. opcode < 64 /\ z = 2 /\ y = 4
    BY <1>8
  <2> HIDE DEF y, z
  <2>2. u = FirstQuarter(fetched, y, z, imm, word, beyond)
    BY <1>1, <2>1
  <2> QED  BY <2>1, <2>2 DEF FirstQuarter, LoadStore
<1>9. ASSUME opcode = 50 PROVE u = Skip(mem_wr(fetched, word, A(fetched)), 2)
  <2>1. opcode < 64 /\ z = 2 /\ y = 6
    BY <1>9
  <2> HIDE DEF y, z
  <2>2. u = FirstQuarter(fetched, y, z, imm, word, beyond)
    BY <1>1, <2>1
  <2> QED  BY <2>1, <2>2 DEF FirstQuarter, LoadStore
<1>10. ASSUME opcode \in {243, 251}
       PROVE  /\ opcode = 243 => u = Core!DisableInterrupts(fetched)
              /\ opcode = 251 => u = Core!EnableInterrupts(fetched)
  <2>1. opcode > 191 /\ z = 3 /\ y = IF opcode = 243 THEN 6 ELSE 7
    BY <1>10
  <2> HIDE DEF y, z
  <2> QED  BY <1>4, <1>10, <2>1 DEF LastQuarter, Control
<1>11. ASSUME opcode = 195 PROVE u = Jump(fetched, TRUE, word)
  <2>1. opcode > 191 /\ z = 3 /\ y = 0
    BY <1>11
  <2> HIDE DEF y, z
  <2> QED  BY <1>4, <2>1 DEF LastQuarter, Control
<1>12. ASSUME opcode \in JumpOpcodes PROVE u = Jump(fetched, TRUE, word) \/ u = Jump(fetched, FALSE, word)
  <2>1. opcode > 191 /\ (z = 2 \/ (z = 5 /\ y \in {3, 7}))
    BY <1>12 DEF JumpOpcodes
  <2> HIDE DEF y, z
  <2>2. u = LastQuarter(fetched, y, z, imm, word, beyond)
    BY <1>4, <2>1
  <2>3. CASE z = 2
    <3>1. u = Jump(fetched, Condition(fetched.cc, y), word)
      BY <2>2, <2>3 DEF LastQuarter
    <3> QED  BY <3>1 DEF Jump
  <2>4. CASE z = 5 /\ y = 3
    <3>1. u = Jump(fetched, fetched.cc.x5 = 0, word)
      BY <2>2, <2>4 DEF LastQuarter, CallOrLoad
    <3> QED  BY <3>1 DEF Jump
  <2>5. CASE z = 5 /\ y = 7
    <3>1. u = Jump(fetched, fetched.cc.x5 = 1, word)
      BY <2>2, <2>5 DEF LastQuarter, CallOrLoad
    <3> QED  BY <3>1 DEF Jump
  <2> QED  BY <2>1, <2>3, <2>4, <2>5
<1>13. ASSUME opcode = 201 PROVE u = returnToCaller(fetched, beyond)
  <2>1. opcode > 191 /\ z = 1 /\ y = 1
    BY <1>13
  <2> HIDE DEF y, z
  <2> QED  BY <1>4, <2>1 DEF LastQuarter, Return
<1> HIDE DEF y, z
<1> QED
  BY <1>5, <1>6, <1>7, <1>8, <1>9, <1>10, <1>11, <1>12, <1>13 DEF Does

\* How the discipline lets a handler go on.
KeepsCase(c, f, p, opcode, word, pair) ==
  \/ opcode \in Calm /\ Leads(c, p + Length(opcode), f.size, f.stack, Forgotten(f.regs, Changes(opcode)))
  \/ /\ opcode \in SaveOpcodes /\ f.size < c.depth
     /\ Leads(c, p + 1, f.size + 1, Pushing(f.stack, f.size, f.regs[pair]), f.regs)
  \/ /\ opcode \in RestoreOpcodes /\ f.size > 0
     /\ Leads(c, p + 1, f.size - 1, f.stack, Popping(f.regs, pair, f.stack[f.size]))
  \/ /\ opcode = 227 /\ f.size > 0
     /\ Leads(c, p + 1, f.size, [f.stack EXCEPT ![f.size] = f.regs[2]], [f.regs EXCEPT ![2] = f.stack[f.size]])
  \/ opcode = 34 /\ {word, word + 1} \subseteq c.scratch /\ Leads(c, p + 3, f.size, f.stack, f.regs)
  \/ opcode = 50 /\ word \in c.scratch /\ Leads(c, p + 3, f.size, f.stack, f.regs)
  \/ opcode \in {243, 251} /\ Leads(c, p + 1, f.size, f.stack, f.regs)
  \/ opcode = 195 /\ Leads(c, word, f.size, f.stack, f.regs)
  \/ opcode \in JumpOpcodes /\ Leads(c, word, f.size, f.stack, f.regs) /\ Leads(c, p + 3, f.size, f.stack, f.regs)
  \/ opcode = 201 /\ f.size = 0 /\ \A n \in Names : f.regs[n] = n

LEMMA KeepsCases ==
  ASSUME NEW c, NEW p, Keeps(c, p)
  PROVE  LET opcode == Read(Reset(c.job), p)
         IN  KeepsCase(c, c.frames[p], p, opcode,
                       256 * Read(Reset(c.job), p + 2) + Read(Reset(c.job), p + 1), (opcode \div 16) % 4)
<1> DEFINE f == c.frames[p]
           opcode == Read(Reset(c.job), p)
           word == 256 * Read(Reset(c.job), p + 2) + Read(Reset(c.job), p + 1)
           pair == (opcode \div 16) % 4
           forgotten == [n \in Names |-> IF n \in Changes(opcode) THEN Unknown ELSE f.regs[n]]
           pushed == [k \in 1 .. f.size + 1 |-> IF k > f.size THEN f.regs[pair] ELSE f.stack[k]]
           popped == [f.regs EXCEPT ![pair] = Popped(pair, f.stack[f.size])]
           calm == Leads(c, p + Length(opcode), f.size, f.stack, forgotten)
           save == f.size < c.depth /\ Leads(c, p + 1, f.size + 1, pushed, f.regs)
           restore == f.size > 0 /\ Leads(c, p + 1, f.size - 1, f.stack, popped)
           exchange == /\ f.size > 0
                       /\ Leads(c, p + 1, f.size, [f.stack EXCEPT ![f.size] = f.regs[2]],
                                [f.regs EXCEPT ![2] = f.stack[f.size]])
           word_store == {word, word + 1} \subseteq c.scratch /\ Leads(c, p + 3, f.size, f.stack, f.regs)
           byte_store == word \in c.scratch /\ Leads(c, p + 3, f.size, f.stack, f.regs)
           next == Leads(c, p + 1, f.size, f.stack, f.regs)
           jump == Leads(c, word, f.size, f.stack, f.regs)
           skip == Leads(c, p + 3, f.size, f.stack, f.regs)
           back == f.size = 0 /\ \A n \in Names : f.regs[n] = n
<1>1. Keeps(c, p) <=> CASE opcode \in Calm -> calm
                        [] opcode \in {197, 213, 229, 245} -> save
                        [] opcode \in {193, 209, 225, 241} -> restore
                        [] opcode = 227 -> exchange
                        [] opcode = 34 -> word_store
                        [] opcode = 50 -> byte_store
                        [] opcode \in {243, 251} -> next
                        [] opcode = 195 -> jump
                        [] opcode \in {221, 253} \cup {x \in 192 .. 255 : x % 8 = 2} -> jump /\ skip
                        [] opcode = 201 -> back
                        [] OTHER -> FALSE
  BY Zenon DEF Keeps
<1> HIDE DEF opcode, calm, save, restore, exchange, word_store, byte_store, next, jump, skip, back, f, word, pair
<1>3. \/ opcode \in Calm /\ calm
      \/ opcode \in SaveOpcodes /\ save
      \/ opcode \in RestoreOpcodes /\ restore
      \/ opcode = 227 /\ exchange
      \/ opcode = 34 /\ word_store
      \/ opcode = 50 /\ byte_store
      \/ opcode \in {243, 251} /\ next
      \/ opcode = 195 /\ jump
      \/ opcode \in JumpOpcodes /\ jump /\ skip
      \/ opcode = 201 /\ back
  BY <1>1 DEF SaveOpcodes, RestoreOpcodes, JumpOpcodes
<1>4. /\ forgotten = Forgotten(f.regs, Changes(opcode))
      /\ pushed = Pushing(f.stack, f.size, f.regs[pair])
      /\ popped = Popping(f.regs, pair, f.stack[f.size])
  BY DEF Forgotten, Pushing, Popping
<1> HIDE DEF forgotten, pushed, popped
<1>5. KeepsCase(c, f, p, opcode, word, pair)
  <2>1. CASE opcode \in Calm /\ calm
    BY <1>4, <2>1 DEF KeepsCase, calm
  <2>2. CASE opcode \in SaveOpcodes /\ save
    BY <1>4, <2>2 DEF KeepsCase, save
  <2>3. CASE opcode \in RestoreOpcodes /\ restore
    BY <1>4, <2>3 DEF KeepsCase, restore
  <2>4. CASE opcode = 227 /\ exchange
    BY <2>4 DEF KeepsCase, exchange
  <2>5. CASE opcode = 34 /\ word_store
    BY <2>5 DEF KeepsCase, word_store
  <2>6. CASE opcode = 50 /\ byte_store
    BY <2>6 DEF KeepsCase, byte_store
  <2>7. CASE opcode \in {243, 251} /\ next
    BY <2>7 DEF KeepsCase, next
  <2>8. CASE opcode = 195 /\ jump
    BY <2>8 DEF KeepsCase, jump
  <2>9. CASE opcode \in JumpOpcodes /\ jump /\ skip
    BY <2>9 DEF KeepsCase, jump, skip
  <2>10. CASE opcode = 201 /\ back
    BY <2>10 DEF KeepsCase, back
  <2> QED  BY <1>3, <2>1, <2>2, <2>3, <2>4, <2>5, <2>6, <2>7, <2>8, <2>9, <2>10
<1> QED  BY <1>5 DEF opcode, f, word, pair


LEMMA TouchServes ==
  ASSUME NEW s, NEW u, NEW c, NEW e, NEW size, NEW stack, NEW regs, NEW where, NEW pc,
         Roomy(c, e), ServingAs(s, c, e, size, stack, regs), Gentle(s, u, {}, where, pc),
         where \subseteq c.scratch
  PROVE  ServingAs(u, c, e, size, stack, regs)
<1>1. ServingAs(u, c, e, size, stack, Forgotten(regs, {}))
  BY GentleServes
<1>2. \A n \in Names : Forgotten(regs, {})[n] = regs[n]
  BY DEF Forgotten
<1> QED  BY <1>1, <1>2 DEF ServingAs

\* A handler's own variable is in memory.
LEMMA ScratchPlace ==
  ASSUME NEW c, NEW e, Roomy(c, e)
  PROVE  \A x \in c.scratch : Place(x) = x
<1> TAKE x \in c.scratch
<1>1. x \in Word
  BY DEF Roomy
<1>2. x \in Int /\ 0 <= x /\ x < 65536
  BY <1>1, WordRange
<1> QED  BY <1>2, SMT DEF Place

\* A jump, EI and DI change pc and the interrupt enables.
LEMMA ControlQuiet ==
  ASSUME NEW s, Whole(s), NEW word
  PROVE  /\ Quiet(s, Jump(s, TRUE, word), {}, word)
         /\ Quiet(s, Jump(s, FALSE, word), {}, Ahead(s, 2))
         /\ Quiet(s, Core!DisableInterrupts(s), {}, s.pc)
         /\ Quiet(s, Core!EnableInterrupts(s), {}, s.pc)
<1>1. ASSUME NEW u, Processor(u), u.r = s.r, u.cc = s.cc, u.sp = s.sp, u.hlt_enable = s.hlt_enable, u.mem = s.mem
      PROVE  Quiet(s, u, {}, u.pc)
  <2>1. \A n \in Names : Stood(u, n) = Stood(s, n)
    BY <1>1, SameStood
  <2>2. \A x : Read(u, x) = Read(s, x)
    BY <1>1 DEF Read
  <2> QED  BY <1>1, <2>1, <2>2 DEF Quiet, Whole
<1>2. Quiet(s, Jump(s, TRUE, word), {}, word)
  <2> DEFINE u == Jump(s, TRUE, word)
  <2>1. /\ Processor(u) /\ u.r = s.r /\ u.cc = s.cc /\ u.sp = s.sp /\ u.hlt_enable = s.hlt_enable
        /\ u.mem = s.mem /\ u.pc = word
    BY DEF Jump, Whole, Processor
  <2> HIDE DEF u
  <2>2. Quiet(s, u, {}, u.pc)
    BY <1>1, <2>1
  <2> QED  BY <2>1, <2>2 DEF u
<1>3. Quiet(s, Core!DisableInterrupts(s), {}, s.pc)
  <2> DEFINE u == Core!DisableInterrupts(s)
  <2>1. /\ Processor(u) /\ u.r = s.r /\ u.cc = s.cc /\ u.sp = s.sp /\ u.hlt_enable = s.hlt_enable
        /\ u.mem = s.mem /\ u.pc = s.pc
    BY DEF Core!DisableInterrupts, Whole, Processor
  <2> HIDE DEF u
  <2>2. Quiet(s, u, {}, u.pc)
    BY <1>1, <2>1
  <2> QED  BY <2>1, <2>2 DEF u
<1>4. Quiet(s, Core!EnableInterrupts(s), {}, s.pc)
  <2> DEFINE u == Core!EnableInterrupts(s)
  <2>1. /\ Processor(u) /\ u.r = s.r /\ u.cc = s.cc /\ u.sp = s.sp /\ u.hlt_enable = s.hlt_enable
        /\ u.mem = s.mem /\ u.pc = s.pc
    BY DEF Core!EnableInterrupts, Whole, Processor
  <2> HIDE DEF u
  <2>2. Quiet(s, u, {}, u.pc)
    BY <1>1, <2>1
  <2> QED  BY <2>1, <2>2 DEF u
<1>5. Quiet(s, Jump(s, FALSE, word), {}, Ahead(s, 2))
  <2> DEFINE two == 2
  <2>1. two \in 1 .. 2 /\ Jump(s, FALSE, word) = Skip(s, two)
    BY DEF Jump
  <2> HIDE DEF two
  <2>2. Quiet(s, Skip(s, two), {}, Ahead(s, two))
    BY <2>1, SkipQuiet
  <2> QED  BY <2>1, <2>2 DEF two
<1> QED  BY <1>2, <1>3, <1>4, <1>5

\* The handler is at an address that has a frame, and the frame holds.
Serves(s, c, e) ==
  /\ s.pc \in DOMAIN c.frames
  /\ ServingAs(s, c, e, c.frames[s.pc].size, c.frames[s.pc].stack, c.frames[s.pc].regs)

LEMMA FrameKeeps ==
  ASSUME NEW c, IsHandler(c), NEW q \in DOMAIN c.frames
  PROVE  q \in Inner /\ IsFrame(c.frames[q]) /\ Keeps(c, q)
BY DEF IsHandler

\* The code of the handler is what was loaded, and is in the middle of memory.
LEMMA HandlerCode ==
  ASSUME NEW c, IsHandler(c), NEW e, Roomy(c, e), NEW s, Machine(s), NEW beyond, Serves(s, c, e)
  PROVE  /\ s.pc \in Inner /\ s.pc + 1 \in Int
         /\ Read(s, s.pc) = Read(Reset(c.job), s.pc)
         /\ PeekWord(s, s.pc + 1, beyond) =
              256 * Read(Reset(c.job), s.pc + 2) + Read(Reset(c.job), s.pc + 1)
<1> DEFINE p == s.pc
<1>1. p \in DOMAIN c.frames
  BY DEF Serves
<1>2. p \in Inner
  <2> HIDE DEF p
  <2> QED  BY <1>1, FrameKeeps
<1>3. p \in Int /\ 0 <= p /\ p <= 65533
  BY <1>2, InnerRange
<1>4. ASSUME NEW x \in {p, p + 1, p + 2}
      PROVE  Read(s, x) = Read(Reset(c.job), x)
  <2>1. x \in Routine(c)
    BY <1>1 DEF Routine
  <2>2. x \notin e.hidden /\ Read(e.at, x) = Read(Reset(c.job), x)
    BY <2>1 DEF Roomy, Room
  <2> QED  BY <2>2 DEF Serves, ServingAs
<1>5. Read(s, p) = Read(Reset(c.job), p)
  BY <1>4
<1>6. (p + 1) + 1 = p + 2 /\ ~(p + 1 > 65535) /\ ~(p + 2 > 65535)
  BY <1>3, SMT
<1>7. PeekWord(s, p + 1, beyond) = 256 * Read(s, p + 2) + Read(s, p + 1)
  BY <1>6 DEF PeekWord, Peek
<1>8. Read(s, p + 1) = Read(Reset(c.job), p + 1) /\ Read(s, p + 2) = Read(Reset(c.job), p + 2)
  BY <1>4
<1> QED  BY <1>2, <1>3, <1>5, <1>7, <1>8

LEMMA HandlerExecutes ==
  ASSUME NEW c, IsHandler(c), NEW e, Roomy(c, e), Open(e.at), NEW s, Machine(s), NEW beyond,
         Serves(s, c, e)
  PROVE  LET u == Execute(s, beyond)
         IN  IF Read(s, s.pc) = 201 THEN Alike(u, e.at, e.hidden) ELSE Serves(u, c, e)
<1> DEFINE p == s.pc
           f == c.frames[p]
           opcode == Read(s, p)
           word == PeekWord(s, p + 1, beyond)
           pair == (opcode \div 16) % 4
           fetched == Skip(s, 1)
           u == Execute(s, beyond)
           one == 1
           two == 2
           three == 3
<1>1. p \in DOMAIN c.frames /\ ServingAs(s, c, e, f.size, f.stack, f.regs)
  BY DEF Serves
<1>2. p \in Inner /\ \A q \in DOMAIN c.frames : q \in Inner
  BY <1>1, FrameKeeps
<1>3. IsFrame(f) /\ Keeps(c, p)
  <2> HIDE DEF p
  <2> QED  BY <1>1, FrameKeeps
<1>4. KeepsCase(c, f, p, opcode, word, pair)
  <2>1. /\ opcode = Read(Reset(c.job), p)
        /\ word = 256 * Read(Reset(c.job), p + 2) + Read(Reset(c.job), p + 1)
    BY HandlerCode
  <2>2. LET code == Read(Reset(c.job), p)
        IN  KeepsCase(c, f, p, code,
                      256 * Read(Reset(c.job), p + 2) + Read(Reset(c.job), p + 1), (code \div 16) % 4)
    BY <1>3, KeepsCases
  <2> HIDE DEF f, opcode, word
  <2> QED  BY <2>1, <2>2 DEF pair
<1>5. Does(opcode, fetched, u, word, beyond)
  BY Decoded
<1>6. pair \in Names
  <2>1. opcode \in Byte
    BY ReadType
  <2> HIDE DEF opcode
  <2> QED  BY <2>1 DEF Byte, Names
<1>7. Quiet(s, fetched, {}, Ahead(s, 1)) /\ Machine(fetched)
  BY MachineWhole, SkipQuiet, SkipFormed
<1>8. ServingAs(fetched, c, e, f.size, f.stack, f.regs)
  <2> HIDE DEF f, fetched
  <2> QED  BY <1>1, <1>7, QuietServes
<1>9. fetched.pc = p + 1
  <2>1. Ahead(s, 1) = (p + 1) % 65536
    BY DEF Ahead
  <2>2. p \in Int /\ 0 <= p /\ p <= 65533
    BY <1>2, InnerRange
  <2>3. (p + 1) % 65536 = p + 1
    <3> HIDE DEF p
    <3> QED  BY <2>2, SMT
  <2>4. fetched.pc = Ahead(s, 1)
    BY <1>7, QuietWhole
  <2> QED  BY <2>1, <2>3, <2>4
<1>10. Whole(s) /\ Whole(fetched)
  BY <1>7, MachineWhole
<1>11. p + 3 \in Inner => Ahead(fetched, 2) = p + 3
  <2>1. three \in 1 .. 3 /\ three - 1 = 2
    OBVIOUS
  <2>2. p + three \in Inner => Ahead(fetched, three - 1) = p + three
    <3> HIDE DEF three
    <3> QED  BY <1>2, <1>10, <2>1, AheadIs
  <2> QED  BY <2>1, <2>2
<1>12. opcode \in {243, 251} \cup SaveOpcodes \cup RestoreOpcodes \cup JumpOpcodes \cup Calm => opcode # 201
  BY DEF SaveOpcodes, RestoreOpcodes, JumpOpcodes, Calm
<1> SUFFICES IF opcode = 201 THEN Alike(u, e.at, e.hidden) ELSE Serves(u, c, e)
  OBVIOUS
<1>13. CASE opcode \in Calm /\ Leads(c, p + Length(opcode), f.size, f.stack, Forgotten(f.regs, Changes(opcode)))
  <2> DEFINE changes == Changes(opcode)
             pc == p + Length(opcode)
  <2>1. pc \in Inner
    BY <1>2, <1>13 DEF Leads
  <2>2. Quiet(s, u, changes, pc)
    BY <1>2, <1>13, <2>1, CalmQuiet
  <2> HIDE DEF u, changes, pc
  <2>3. Gentle(s, u, changes, {}, pc) /\ u.pc = pc
    BY <2>2, QuietGentle, QuietWhole
  <2>4. ServingAs(u, c, e, f.size, f.stack, Forgotten(f.regs, changes))
    <3> HIDE DEF f
    <3> QED  BY <1>1, <2>3, GentleServes
  <2>5. Leads(c, u.pc, f.size, f.stack, Forgotten(f.regs, changes))
    BY <1>13, <2>3 DEF changes, pc
  <2>6. Serves(u, c, e)
    <3> HIDE DEF f
    <3> QED  BY <2>4, <2>5, Arrive DEF Serves
  <2> QED  BY <1>12, <1>13, <2>6
<1> HIDE DEF u, fetched, opcode, word, pair
<1>14. CASE /\ opcode \in SaveOpcodes /\ f.size < c.depth
            /\ Leads(c, p + 1, f.size + 1, Pushing(f.stack, f.size, f.regs[pair]), f.regs)
  <2>1. u = PushPair(fetched, pair)
    BY <1>5, <1>14 DEF Does, pair
  <2> HIDE DEF f
  <2>2. u.pc = p + 1 /\ ServingAs(u, c, e, f.size + 1, Pushing(f.stack, f.size, f.regs[pair]), f.regs)
    BY <1>6, <1>7, <1>8, <1>9, <1>14, <2>1, PushServes
  <2>3. Serves(u, c, e)
    BY <1>14, <2>2, Arrive DEF Serves
  <2> QED  BY <1>12, <1>14, <2>3
<1>15. CASE /\ opcode \in RestoreOpcodes /\ f.size > 0
            /\ Leads(c, p + 1, f.size - 1, f.stack, Popping(f.regs, pair, f.stack[f.size]))
  <2>1. u = Pop(fetched, pair, beyond)
    BY <1>5, <1>15 DEF Does, pair
  <2> HIDE DEF f
  <2>2. u.pc = p + 1 /\ ServingAs(u, c, e, f.size - 1, f.stack, Popping(f.regs, pair, f.stack[f.size]))
    BY <1>3, <1>6, <1>7, <1>8, <1>9, <1>15, <2>1, PopServes DEF IsFrame
  <2>3. Serves(u, c, e)
    BY <1>15, <2>2, Arrive DEF Serves
  <2> QED  BY <1>12, <1>15, <2>3
<1>16. CASE /\ opcode = 227 /\ f.size > 0
            /\ Leads(c, p + 1, f.size, [f.stack EXCEPT ![f.size] = f.regs[2]],
                     [f.regs EXCEPT ![2] = f.stack[f.size]])
  <2>1. u = ExchangeTop(fetched, beyond)
    BY <1>5, <1>16 DEF Does
  <2> HIDE DEF f
  <2>2. /\ u.pc = p + 1
        /\ ServingAs(u, c, e, f.size, [f.stack EXCEPT ![f.size] = f.regs[2]], [f.regs EXCEPT ![2] = f.stack[f.size]])
    BY <1>3, <1>7, <1>8, <1>9, <1>16, <2>1, ExchangeServes DEF IsFrame
  <2>3. Serves(u, c, e)
    BY <1>16, <2>2, Arrive DEF Serves
  <2> QED  BY <1>16, <2>3
<1>17. CASE opcode = 34 /\ {word, word + 1} \subseteq c.scratch /\ Leads(c, p + 3, f.size, f.stack, f.regs)
  <2> DEFINE hl == HL(fetched)
             next == word + 1
             v == StoreWord(fetched, word, hl)
  <2>1. u = Skip(v, two)
    BY <1>5, <1>17 DEF Does
  <2>2. Gentle(fetched, v, {}, {Place(word), Place(word + 1)}, fetched.pc)
    BY <1>10, StoreWordGentle
  <2> HIDE DEF f, hl, v
  <2>3. {Place(word), Place(word + 1)} \subseteq c.scratch
    <3>1. Place(word) = word /\ Place(next) = next
      BY <1>17, ScratchPlace
    <3> QED  BY <1>17, <3>1
  <2>4. ServingAs(v, c, e, f.size, f.stack, f.regs)
    BY <1>8, <2>2, <2>3, TouchServes
  <2>5. Whole(v) /\ v.pc = fetched.pc
    BY <2>2 DEF Gentle
  <2>6. Quiet(v, u, {}, Ahead(v, two)) /\ Ahead(v, two) = Ahead(fetched, two)
    <3>1. two \in 1 .. 2
      OBVIOUS
    <3> HIDE DEF two
    <3> QED  BY <2>1, <2>5, <3>1, SkipQuiet DEF Ahead
  <2>7. ServingAs(u, c, e, f.size, f.stack, f.regs)
    BY <2>4, <2>6, QuietServes
  <2>8. u.pc = p + 3
    BY <1>2, <1>11, <1>17, <2>6, QuietWhole DEF Leads
  <2>9. Serves(u, c, e)
    BY <1>17, <2>7, <2>8, Arrive DEF Serves
  <2> QED  BY <1>17, <2>9
<1>18. CASE opcode = 50 /\ word \in c.scratch /\ Leads(c, p + 3, f.size, f.stack, f.regs)
  <2> DEFINE byte == A(fetched)
             v == mem_wr(fetched, word, byte)
  <2>1. u = Skip(v, two)
    BY <1>5, <1>18 DEF Does
  <2>2. Gentle(fetched, v, {}, {Place(word)}, fetched.pc)
    BY <1>10, MemWrGentle
  <2> HIDE DEF f, byte, v
  <2>3. {Place(word)} \subseteq c.scratch
    <3>1. Place(word) = word
      BY <1>18, ScratchPlace
    <3> QED  BY <1>18, <3>1
  <2>4. ServingAs(v, c, e, f.size, f.stack, f.regs)
    BY <1>8, <2>2, <2>3, TouchServes
  <2>5. Whole(v) /\ v.pc = fetched.pc
    BY <2>2 DEF Gentle
  <2>6. Quiet(v, u, {}, Ahead(v, two)) /\ Ahead(v, two) = Ahead(fetched, two)
    <3>1. two \in 1 .. 2
      OBVIOUS
    <3> HIDE DEF two
    <3> QED  BY <2>1, <2>5, <3>1, SkipQuiet DEF Ahead
  <2>7. ServingAs(u, c, e, f.size, f.stack, f.regs)
    BY <2>4, <2>6, QuietServes
  <2>8. u.pc = p + 3
    BY <1>2, <1>11, <1>18, <2>6, QuietWhole DEF Leads
  <2>9. Serves(u, c, e)
    BY <1>18, <2>7, <2>8, Arrive DEF Serves
  <2> QED  BY <1>18, <2>9
<1>19. ASSUME NEW pc, Quiet(fetched, u, {}, pc), Leads(c, pc, f.size, f.stack, f.regs)
       PROVE  Serves(u, c, e)
  <2> HIDE DEF f
  <2>1. ServingAs(u, c, e, f.size, f.stack, f.regs)
    BY <1>8, <1>19, QuietServes
  <2>2. u.pc = pc
    BY <1>19, QuietWhole
  <2> QED  BY <1>19, <2>1, <2>2, Arrive DEF Serves
<1>20. CASE opcode \in {243, 251} /\ Leads(c, p + 1, f.size, f.stack, f.regs)
  <2>1. u = Core!DisableInterrupts(fetched) \/ u = Core!EnableInterrupts(fetched)
    BY <1>5, <1>20 DEF Does
  <2>2. Quiet(fetched, u, {}, fetched.pc)
    BY <1>10, <2>1, ControlQuiet
  <2> QED  BY <1>9, <1>12, <1>19, <1>20, <2>2
<1>21. CASE opcode = 195 /\ Leads(c, word, f.size, f.stack, f.regs)
  <2>1. Quiet(fetched, u, {}, word)
    BY <1>5, <1>10, <1>21, ControlQuiet DEF Does
  <2> QED  BY <1>19, <1>21, <2>1
<1>22. CASE opcode \in JumpOpcodes /\ Leads(c, word, f.size, f.stack, f.regs)
            /\ Leads(c, p + 3, f.size, f.stack, f.regs)
  <2>1. u = Jump(fetched, TRUE, word) \/ u = Jump(fetched, FALSE, word)
    BY <1>5, <1>22 DEF Does
  <2>2. Ahead(fetched, 2) = p + 3
    BY <1>2, <1>11, <1>22 DEF Leads
  <2>3. Quiet(fetched, u, {}, word) \/ Quiet(fetched, u, {}, p + 3)
    BY <1>10, <2>1, <2>2, ControlQuiet
  <2> QED  BY <1>12, <1>19, <1>22, <2>3
<1>23. CASE opcode = 201 /\ f.size = 0 /\ \A n \in Names : f.regs[n] = n
  <2>1. u = returnToCaller(fetched, beyond)
    BY <1>5, <1>23 DEF Does
  <2> HIDE DEF f
  <2>2. ServingAs(fetched, c, e, 0, f.stack, f.regs)
    BY <1>8, <1>23
  <2>3. Alike(u, e.at, e.hidden)
    BY <1>7, <1>23, <2>1, <2>2, ReturnServes
  <2> QED  BY <1>23, <2>3
<1> HIDE DEF f
<1> QED
  BY <1>4, <1>13, <1>14, <1>15, <1>16, <1>17, <1>18, <1>20, <1>21, <1>22, <1>23 DEF KeepsCase


LEMMA EndDelayQuiet ==
  ASSUME NEW s, Machine(s)
  PROVE  Quiet(s, Core!EndDelay(s), {}, s.pc)
<1> DEFINE u == Core!EndDelay(s)
<1>1. /\ Processor(u) /\ u.r = s.r /\ u.cc = s.cc /\ u.pc = s.pc /\ u.sp = s.sp
      /\ u.hlt_enable = s.hlt_enable /\ \A x : Read(u, x) = Read(s, x)
  BY EndDelayFields
<1>2. Whole(s)
  BY MachineWhole
<1> HIDE DEF u
<1>3. \A n \in Names : Stood(u, n) = Stood(s, n)
  BY <1>1, SameStood
<1>4. Quiet(s, u, {}, s.pc)
  BY <1>1, <1>2, <1>3 DEF Quiet, Whole
<1> QED  BY <1>4 DEF u

\* An instruction of the handler keeps to its frames, or is the RET that ends it.
LEMMA HandlerEmulates ==
  ASSUME NEW c, IsHandler(c), NEW e, Roomy(c, e), Open(e.at), NEW s, Machine(s), NEW beyond \in Beyond,
         Serves(s, c, e)
  PROVE  LET u == Emulate8085Op(s, beyond)
         IN  IF Read(s, s.pc) = 201 THEN Alike(u, e.at, e.hidden) ELSE Serves(u, c, e)
<1> DEFINE done == Execute(s, beyond)
           u == Emulate8085Op(s, beyond)
<1>1. IF Read(s, s.pc) = 201 THEN Alike(done, e.at, e.hidden) ELSE Serves(done, c, e)
  BY HandlerExecutes
<1>2. Machine(done)
  BY ExecuteFormed
<1>3. u = Core!EndDelay(done)
  BY DEF Emulate8085Op
<1> HIDE DEF done, u
<1>4. Quiet(done, u, {}, done.pc)
  BY <1>2, <1>3, EndDelayQuiet
<1>5. Serves(done, c, e) => Serves(u, c, e)
  <2> SUFFICES ASSUME Serves(done, c, e) PROVE Serves(u, c, e)
    OBVIOUS
  <2> DEFINE f == c.frames[done.pc]
  <2>1. done.pc \in DOMAIN c.frames /\ ServingAs(done, c, e, f.size, f.stack, f.regs)
    BY DEF Serves
  <2>2. u.pc = done.pc
    BY <1>4, QuietWhole
  <2>3. ServingAs(u, c, e, f.size, f.stack, f.regs)
    <3> HIDE DEF f
    <3> QED  BY <1>4, <2>1, QuietServes
  <2> QED  BY <2>1, <2>2, <2>3 DEF Serves
<1>6. Alike(done, e.at, e.hidden) => Alike(u, e.at, e.hidden)
  BY <1>2, <1>3, EndDelayFields DEF Alike
<1> QED  BY <1>1, <1>5, <1>6 DEF u

\* Acceptance leaves the return address on the stack and the registers as they are.
LEMMA AcceptServes ==
  ASSUME NEW c, IsHandler(c), NEW e, Roomy(c, e), NEW s, Machine(s), Alike(s, e.at, e.hidden)
  PROVE  Serves(Accept(s), c, e) /\ Read(Accept(s), Accept(s).pc) # 201
<1> DEFINE t == e.at
           sp == t.sp
           closed == [s EXCEPT !.int_enable = 0]
           vector == 60
           none == 0
           f == c.frames[vector]
           pushed == Push(closed, closed.pc)
           u == Accept(s)
           hi == Below(sp, 1 + 2 * none)
           lo == Below(sp, 2 + 2 * none)
<1>1. vector \in DOMAIN c.frames /\ f.size = 0 /\ (\A n \in Names : f.regs[n] = n)
      /\ Read(Reset(c.job), vector) # 201
  BY DEF IsHandler
<1>2. s.pc = t.pc /\ s.sp = sp /\ s.r = t.r /\ s.cc = t.cc /\ s.hlt_enable = t.hlt_enable
      /\ \A x : x \notin e.hidden => Read(s, x) = Read(t, x)
  BY DEF Alike
<1>3. u = [pushed EXCEPT !.pc = vector]
  BY DEF Accept, rst
<1>4. Machine(closed)
  BY DEF Machine, Formed, Flag
<1>5. /\ closed.pc = t.pc /\ closed.sp = sp /\ closed.r = t.r /\ closed.cc = t.cc
      /\ closed.hlt_enable = t.hlt_enable /\ closed.mem = s.mem
  BY <1>2 DEF Machine
<1>6. \A x : Read(closed, x) = Read(s, x)
  BY <1>5 DEF Read
<1>7. none \in 0 .. c.depth /\ c.depth \in Int
  <2>1. c.depth \in 0 .. 1000
    BY DEF Roomy
  <2> QED  BY <2>1
<1>8. /\ hi \in e.hidden /\ lo \in e.hidden /\ ~Protected(hi) /\ ~Protected(lo)
      /\ 1 + 2 * none \in Steps /\ 2 + 2 * none \in Steps /\ sp \in Word
  BY <1>7, Slot
<1>9. 1 + 2 * none = 1 /\ 2 + 2 * none = 2
  OBVIOUS
<1>10. hi # lo
  BY <1>8, <1>9, BelowApart
<1>11. hi = Below(closed.sp, 1) /\ lo = Below(closed.sp, 2)
  BY <1>5, <1>9
<1> HIDE DEF closed, u, f, none, hi, lo, vector
<1>12. /\ Whole(pushed) /\ pushed.r = t.r /\ pushed.cc = t.cc
       /\ pushed.hlt_enable = t.hlt_enable /\ pushed.sp = lo
       /\ Read(pushed, hi) = High(t.pc) /\ Read(pushed, lo) = Low(t.pc)
       /\ \A x : x \notin {hi, lo} => Read(pushed, x) = Read(s, x)
  BY <1>4, <1>5, <1>6, <1>8, <1>10, <1>11, PushBytes
<1> HIDE DEF pushed
<1>13. /\ u.pc = vector /\ u.r = t.r /\ u.cc = t.cc /\ u.hlt_enable = t.hlt_enable /\ u.sp = lo
       /\ u.mem = pushed.mem
  BY <1>3, <1>12 DEF Whole, Processor
<1>14. \A x : Read(u, x) = Read(pushed, x)
  BY <1>13 DEF Read
<1>15. Saved(u, sp, none, t.pc)
  BY <1>12, <1>14 DEF Saved, hi, lo
<1>16. \A n \in Names : Stood(u, n) = Stood(t, n)
  BY <1>13, SameStood
<1>17. \A x : x \notin e.hidden => Read(u, x) = Read(t, x)
  BY <1>2, <1>8, <1>12, <1>14
<1>18. ServingAs(u, c, e, none, f.stack, f.regs)
  <2>1. \A k \in 1 .. none : FALSE
    BY DEF none
  <2>2. u.sp = Below(e.at.sp, 2 + 2 * none)
    BY <1>13 DEF lo
  <2>3. Saved(u, sp, 0, t.pc)
    BY <1>15 DEF none
  <2> QED  BY <1>1, <1>7, <1>13, <1>16, <1>17, <2>1, <2>2, <2>3 DEF ServingAs
<1>19. Serves(u, c, e)
  BY <1>1, <1>13, <1>18 DEF Serves, none, f
<1>20. Read(u, u.pc) = Read(Reset(c.job), vector)
  <2>1. vector \in Routine(c)
    BY <1>1 DEF Routine
  <2>2. vector \notin e.hidden /\ Read(t, vector) = Read(Reset(c.job), vector)
    BY <2>1 DEF Roomy, Room
  <2> QED  BY <1>13, <1>17, <2>2
<1> QED  BY <1>1, <1>19, <1>20 DEF u


----------------------------------------------------------------------------
(* Careful jobs.  The undisturbed run is at a point of the trail; outside   *)
(* of the handler the two differ in what is hidden there, and in it the     *)
(* handler's frames hold.                                                   *)

\* The interrupted machine at the point e of the trail.
Follows(c, e) ==
  IF resume = None THEN Alike(m, e.at, e.hidden)
  ELSE /\ resume = [pc |-> e.at.pc, sp |-> e.at.sp] /\ e.at.hlt_enable = 0
       /\ Open(e.at) /\ Room(c, e) /\ Serves(m, c, e)

GuidedBy(c) == \E e \in c.trail : e.at = plain /\ Follows(c, e)

Guided == \A c \in Careful : c.job = job => GuidedBy(c)

LEMMA CarefulParts ==
  ASSUME NEW c \in Careful
  PROVE  c.scratch \subseteq Word /\ c.depth \in 0 .. 1000 /\ IsHandler(c) /\ IsTrail(c)
BY CarefulAssumption DEF IsCareful

LEMMA TrailStep ==
  ASSUME NEW c, IsTrail(c), NEW e \in c.trail
  PROVE  /\ e.at.hlt_enable = 0 => e.at.pc \notin e.hidden
         /\ e.at.hlt_enable = 0 /\ Read(e.at, e.at.pc) \notin Elsewhere =>
              \A beyond \in Beyond : GoesOn(c, e, beyond)
         /\ Open(e.at) => Room(c, e)
         /\ e.at.hlt_enable = 1 => DOMAIN c.job.want \cap e.hidden = {}
         /\ \A x \in e.hidden : x \in c.job.private \/ (e.at.sp - 1 - x) % 65536 < StackReach
BY DEF IsTrail

LEMMA GuidedInit == Init => Guided
<1> SUFFICES ASSUME Init, NEW c \in Careful, c.job = job
             PROVE  \E e \in c.trail : e.at = plain /\ Follows(c, e)
  BY DEF Guided, GuidedBy
<1>1. PICK e \in c.trail : e.at = Reset(c.job)
  BY CarefulParts DEF IsTrail
<1>2. e.at = plain /\ e.at = m /\ resume = None
  BY <1>1 DEF Init
<1>3. Processor(m)
  BY WidthInit, MachineWhole DEF WidthInv, Whole
<1>4. Alike(m, m, e.hidden)
  BY <1>3 DEF Alike
<1>5. Follows(c, e)
  BY <1>2, <1>4 DEF Follows
<1> QED  BY <1>2, <1>5

\* The stack pointer of a handler at work is not the program's.
LEMMA HandlerBelow ==
  ASSUME NEW c, NEW e, Roomy(c, e), NEW s, Serves(s, c, e)
  PROVE  s.sp # e.at.sp
<1> DEFINE f == c.frames[s.pc]
           size == f.size
           used == 2 + 2 * size
           none == 0
           sp == e.at.sp
<1>1. ServingAs(s, c, e, size, f.stack, f.regs)
  BY DEF Serves
<1>2. s.sp = Below(sp, used)
  BY <1>1 DEF ServingAs
<1> HIDE DEF f, size
<1>3. size \in 0 .. c.depth /\ size \in Int
  BY <1>1, SizeIs
<1>4. used \in Steps /\ sp \in Word
  BY <1>3, Slot
<1>5. none \in Steps /\ used # none
  BY <1>3, InSteps, SMT
<1>6. Below(sp, none) = sp
  BY <1>4, BelowNone
<1> HIDE DEF used, none, sp
<1>7. Below(sp, used) # Below(sp, none)
  BY <1>4, <1>5, BelowApart
<1> QED  BY <1>2, <1>6, <1>7 DEF sp

LEMMA ProceedGuided ==
  ASSUME WidthInv, NEW c \in Careful, c.job = job, GuidedBy(c), Proceed
  PROVE  GuidedBy(c)'
<1>1. PICK e \in c.trail : e.at = plain /\ Follows(c, e)
  BY DEF GuidedBy
<1>2. PICK beyond \in Beyond :
        m' = Emulate8085Op(m, beyond) /\ plain' = Emulate8085Op(plain, beyond)
  BY DEF Proceed
<1>3. Machine(m) /\ Machine(plain)
  BY DEF WidthInv
<1>4. Alike(m, plain, e.hidden) /\ resume = None /\ resume' = None
  BY <1>1 DEF Proceed, Follows
<1>5. m.hlt_enable = 0 /\ Read(m, m.pc) \notin Elsewhere
  BY DEF Proceed, Executes
<1>6. plain.hlt_enable = 0 /\ plain.pc = m.pc
  BY <1>4, <1>5 DEF Alike
<1>7. plain.pc \notin e.hidden
  BY <1>1, <1>6, CarefulParts, TrailStep
<1>8. Read(plain, plain.pc) = Read(m, m.pc)
  BY <1>4, <1>6, <1>7 DEF Alike
<1>9. GoesOn(c, e, beyond)
  BY <1>1, <1>5, <1>6, <1>8, CarefulParts, TrailStep
<1>10. PICK f \in c.trail : /\ f.at = plain'
                            /\ e.hidden \ Pushed(plain, plain') \subseteq f.hidden
  BY <1>1, <1>2, <1>9 DEF GoesOn
<1>11. Alike(m', plain', e.hidden \ Pushed(plain, plain'))
  <2>1. Reads(plain, beyond) \cap e.hidden = {}
    BY <1>1, <1>9 DEF GoesOn
  <2> QED  BY <1>2, <1>3, <1>4, <2>1, EmulateAlike
<1>12. Alike(m', f.at, f.hidden)
  BY <1>10, <1>11, LessHidden
<1>13. Follows(c, f)'
  BY <1>4, <1>12 DEF Follows
<1> QED  BY <1>10, <1>13 DEF GuidedBy

LEMMA InterruptGuided ==
  ASSUME WidthInv, NEW c \in Careful, c.job = job, GuidedBy(c), Interrupt
  PROVE  GuidedBy(c)'
<1>1. PICK e \in c.trail : e.at = plain /\ Follows(c, e)
  BY DEF GuidedBy
<1>2. PICK beyond \in Beyond : m' = Emulate8085Op(Accept(m), beyond)
  BY DEF Interrupt
<1>3. Machine(m) /\ Machine(plain)
  BY DEF WidthInv
<1>4. Alike(m, e.at, e.hidden)
  BY <1>1 DEF Interrupt, Follows
<1>5. m.hlt_enable = 0 /\ m.int_enable = 1 /\ plain' = plain
  BY DEF Interrupt, Executes
<1>6. Open(e.at) /\ e.at.hlt_enable = 0 /\ e.at.pc = m.pc /\ e.at.sp = m.sp
  BY <1>4, <1>5 DEF Alike, Open
<1>7. Room(c, e)
  BY <1>6, CarefulParts, TrailStep
<1>8. Roomy(c, e)
  BY <1>1, <1>3, <1>7, CarefulParts DEF Roomy
<1>9. Serves(Accept(m), c, e) /\ Read(Accept(m), Accept(m).pc) # 201
  BY <1>3, <1>4, <1>8, CarefulParts, AcceptServes
<1>10. Serves(m', c, e)
  BY <1>2, <1>3, <1>6, <1>8, <1>9, CarefulParts, AcceptFormed, HandlerEmulates
<1>11. resume' = [pc |-> e.at.pc, sp |-> e.at.sp]
  BY <1>6 DEF Interrupt
<1>12. resume' # None
  <2>1. m.pc \in Int /\ 0 <= m.pc
    BY <1>3, Fields, WordRange
  <2>2. resume'.pc # None.pc
    BY <1>6, <1>11, <2>1 DEF None
  <2> QED  BY <2>2
<1>13. Follows(c, e)'
  BY <1>6, <1>7, <1>10, <1>11, <1>12 DEF Follows
<1> QED  BY <1>1, <1>5, <1>13 DEF GuidedBy

LEMMA HandleGuided ==
  ASSUME WidthInv, NEW c \in Careful, c.job = job, GuidedBy(c), Handle
  PROVE  GuidedBy(c)'
<1>1. PICK e \in c.trail : e.at = plain /\ Follows(c, e)
  BY DEF GuidedBy
<1>2. PICK beyond \in Beyond : m' = Emulate8085Op(m, beyond)
  BY DEF Handle
<1>3. Machine(m) /\ Machine(plain)
  BY DEF WidthInv
<1>4. /\ resume = [pc |-> e.at.pc, sp |-> e.at.sp] /\ e.at.hlt_enable = 0
      /\ Open(e.at) /\ Room(c, e) /\ Serves(m, c, e)
  BY <1>1 DEF Handle, Follows
<1>5. /\ resume # None /\ plain' = plain
      /\ resume' = IF m'.pc = resume.pc /\ m'.sp = resume.sp THEN None ELSE resume
  BY DEF Handle
<1>6. Roomy(c, e)
  BY <1>1, <1>3, <1>4, CarefulParts DEF Roomy
<1>7. IF Read(m, m.pc) = 201 THEN Alike(m', e.at, e.hidden) ELSE Serves(m', c, e)
  BY <1>2, <1>3, <1>4, <1>6, CarefulParts, HandlerEmulates
<1>8. Follows(c, e)'
  <2>1. CASE Read(m, m.pc) = 201
    <3>1. Alike(m', e.at, e.hidden)
      BY <1>7, <2>1
    <3>2. resume' = None
      BY <1>4, <1>5, <3>1 DEF Alike
    <3> QED  BY <3>1, <3>2 DEF Follows
  <2>2. CASE Read(m, m.pc) # 201
    <3>1. Serves(m', c, e)
      BY <1>7, <2>2
    <3>2. m'.sp # e.at.sp
      BY <1>6, <3>1, HandlerBelow
    <3>3. resume' = resume
      BY <1>4, <1>5, <3>2
    <3> QED  BY <1>4, <1>5, <3>1, <3>3 DEF Follows
  <2> QED  BY <2>1, <2>2
<1> QED  BY <1>1, <1>5, <1>8 DEF GuidedBy

LEMMA GuidedNext == WidthInv /\ Guided /\ [Next]_vars => Guided'
<1> SUFFICES ASSUME WidthInv, Guided, [Next]_vars, NEW c \in Careful, c.job = job'
             PROVE  GuidedBy(c)'
  BY DEF Guided
<1>1. job' = job
  BY DEF Next, Step, Proceed, Interrupt, Handle, Halted, vars
<1>2. GuidedBy(c)
  BY <1>1 DEF Guided
<1>3. CASE Proceed
  BY <1>1, <1>2, <1>3, ProceedGuided
<1>4. CASE Interrupt
  BY <1>1, <1>2, <1>4, InterruptGuided
<1>5. CASE Handle
  BY <1>1, <1>2, <1>5, HandleGuided
<1>6. CASE UNCHANGED vars
  BY <1>2, <1>6 DEF vars, GuidedBy, Follows
<1> QED  BY <1>3, <1>4, <1>5, <1>6 DEF Next, Step, Halted

\* For a careful job no interrupt can be told from none: however often and wherever it is
\* interrupted, after every handler the registers, the flags with their undocumented bits,
\* the pointers and all memory but the handler's own and dead stack are those of the
\* undisturbed run.
THEOREM HandlerInvisible == Spec => []((\E c \in Careful : c.job = job) => Transparent)
<1>1. WidthInv /\ Guided => ((\E c \in Careful : c.job = job) => Transparent)
  <2> SUFFICES ASSUME WidthInv, Guided, NEW c \in Careful, c.job = job, resume = None
               PROVE  /\ m.r = plain.r /\ m.cc = plain.cc
                      /\ m.pc = plain.pc /\ m.sp = plain.sp /\ m.hlt_enable = plain.hlt_enable
                      /\ \A x \in (DOMAIN m.mem \cup DOMAIN plain.mem) \ job.private :
                           Dead(x) \/ Read(m, x) = Read(plain, x)
    BY DEF Transparent
  <2>1. PICK e \in c.trail : e.at = plain /\ Alike(m, e.at, e.hidden)
    BY DEF Guided, GuidedBy, Follows
  <2>2. \A x \in e.hidden : x \in job.private \/ Dead(x)
    BY <2>1, CarefulParts, TrailStep DEF Dead
  <2> QED  BY <2>1, <2>2 DEF Alike
<1> QED  BY <1>1, WidthInit, WidthNext, GuidedInit, GuidedNext, PTL DEF Spec

\* A careful job that computes what it has to when nothing interrupts it does so with
\* interrupts: at its HLT everything it was to leave in memory is there.
THEOREM ResultsRight ==
  Spec => []((\E c \in Careful : c.job = job /\ RightAlone(c)) => JobsRight)
<1>1. WidthInv /\ Guided => ((\E c \in Careful : c.job = job /\ RightAlone(c)) => JobsRight)
  <2> SUFFICES ASSUME WidthInv, Guided, NEW c \in Careful, c.job = job, RightAlone(c), m.hlt_enable = 1,
                      NEW x \in DOMAIN job.want
               PROVE  Read(m, x) = job.want[x]
    BY DEF JobsRight
  <2>1. PICK e \in c.trail : e.at = plain /\ Follows(c, e)
    BY DEF Guided, GuidedBy
  <2>2. resume = None
    BY <2>1 DEF Follows, Serves, ServingAs
  <2>3. Alike(m, e.at, e.hidden)
    BY <2>1, <2>2 DEF Follows
  <2>4. e.at.hlt_enable = 1
    BY <2>3 DEF Alike
  <2>5. x \notin e.hidden /\ Read(e.at, x) = job.want[x]
    BY <2>1, <2>4, CarefulParts, TrailStep DEF RightAlone
  <2> QED  BY <2>3, <2>5 DEF Alike
<1> QED  BY <1>1, WidthInit, WidthNext, GuidedInit, GuidedNext, PTL DEF Spec
=============================================================================
