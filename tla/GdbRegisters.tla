---------------------------- MODULE GdbRegisters ----------------------------
(***************************************************************************)
(* The debugger's view of the processor (gdb_stub.cpp): its registers as   *)
(* numbers, in the order of the i8085 or, with --gdb-arch=z80, of a z80.   *)
(* A request g or G has a value for every register; the hexadecimal form   *)
(* of a value is left out, its width in bytes is kept.                     *)
(***************************************************************************)
EXTENDS InstructionSet, SequencesExt

Arch == {"i8085", "z80"}

pack_flags(cc) == 128 * cc.s + 64 * cc.z + 16 * cc.ac + 4 * cc.p + 2 + cc.cy

\* Fault: the auxiliary carry is left out.
unpack_flags_NoAc(s, f) ==
  [s EXCEPT !.cc.s = (f \div 128) % 2, !.cc.z = (f \div 64) % 2,
            !.cc.p = (f \div 4) % 2, !.cc.cy = f % 2]

\* V and X5 keep what they have.
unpack_flags(s, f) ==
  [s EXCEPT !.cc.s = (f \div 128) % 2, !.cc.z = (f \div 64) % 2, !.cc.ac = (f \div 16) % 2,
            !.cc.p = (f \div 4) % 2, !.cc.cy = f % 2]

Psw(s) == 256 * A(s) + pack_flags(s.cc)
SetPsw(s, val) == unpack_flags([s EXCEPT !.r["a"] = High(val)], Low(val))

reg_size(n) == IF n \in 0 .. 7 \cup {9} THEN 1 ELSE 2

\* B C D E H L M A as in an opcode, SP, flags, PSW, PC, BC, DE, HL.
read_reg(s, n) ==
  CASE n \in 0 .. 7 -> Operand(s, n)
    [] n = 8 -> s.sp
    [] n = 9 -> pack_flags(s.cc)
    [] n = 10 -> Psw(s)
    [] n = 11 -> s.pc
    [] OTHER -> Pair(s, n - 12)

\* Unlike the processor's writes, one to M is not offered to the memory plugins.
write_reg(s, n, val) ==
  CASE n = 6 -> Store(s, HL(s), Low(val))
    [] n \in 0 .. 5 \cup {7} -> [s EXCEPT !.r[RegisterOf[n + 1]] = Low(val)]
    [] n = 8 -> [s EXCEPT !.sp = val]
    [] n = 9 -> unpack_flags(s, Low(val))
    [] n = 10 -> SetPsw(s, val)
    [] n = 11 -> [s EXCEPT !.pc = val]
    [] OTHER -> SetPair(s, n - 12, val)

\* af bc de hl sp pc, and others the 8085 has not.
z80_read(s, n) ==
  CASE n = 0 -> Psw(s)
    [] n \in 1 .. 3 -> Pair(s, n - 1)
    [] n = 4 -> s.sp
    [] n = 5 -> s.pc
    [] OTHER -> 0

z80_write(s, n, val) ==
  CASE n = 0 -> SetPsw(s, val)
    [] n \in 1 .. 3 -> SetPair(s, n - 1, val)
    [] n = 4 -> [s EXCEPT !.sp = val]
    [] n = 5 -> [s EXCEPT !.pc = val]
    [] OTHER -> s

reg_count(arch) == IF arch = "z80" THEN 13 ELSE 15
reg_bytes(arch, n) == IF arch = "z80" THEN 2 ELSE reg_size(n)
reg_get(arch, s, n) == IF arch = "z80" THEN z80_read(s, n) ELSE read_reg(s, n)
reg_set(arch, s, n, val) == IF arch = "z80" THEN z80_write(s, n, val) ELSE write_reg(s, n, val)

Shown(arch, n, val) == val % (256 ^ reg_bytes(arch, n))

\* p and P, of a register there is.
ReadRegister(arch, s, n) == Shown(arch, n, reg_get(arch, s, n))
WriteRegister(arch, s, n, val) == reg_set(arch, s, n, Shown(arch, n, val))

\* g, and G with a value for every register, which are written in order.  G has the
\* widths of the architecture but writes with write_reg in either.
ReadAll(arch, s) == [i \in 1 .. reg_count(arch) |-> ReadRegister(arch, s, i - 1)]
WriteAll(arch, s, values) ==
  FoldLeft(LAMBDA x, i : write_reg(x, i - 1, values[i]), s, [i \in 1 .. reg_count(arch) |-> i])

----------------------------------------------------------------------------
(* Properties *)

\* Register n of the i8085 is made of these.
Parts(n) ==
  CASE n = 6 -> {"h", "l", "m"}
    [] n \in 0 .. 5 \cup {7} -> {RegisterOf[n + 1]}
    [] n = 9 -> {"flags"}
    [] n = 10 -> {"a", "flags"}
    [] n \in 12 .. 14 -> {PairOf[n - 11].high, PairOf[n - 11].low}
    [] n = 8 -> {"sp"}
    [] OTHER -> {"pc"}

\* Values whose low byte is one of flags, with bit 1 set and bits 3 and 5 clear.
Samples == {514, 32786, 55255}

SameState(s, t) ==
  /\ s.r = t.r /\ s.cc = t.cc /\ s.sp = t.sp /\ s.pc = t.pc
  /\ \A x \in DOMAIN s.mem \cup DOMAIN t.mem : Read(s, x) = Read(t, x)

Restores(arch) == SameState(WriteAll(arch, m, ReadAll(arch, m)), m)

\* The registers of the i8085: one that was written reads as written, a write changes no
\* register it has no part in common with, and G puts back what g has shown, undocumented
\* flags and memory included, though it writes most of it twice (gdb_stub.cpp 228-388).
RegistersExact ==
  m.hlt_enable = 1 =>
    /\ Restores("i8085")
    /\ \A n \in 0 .. 14, val \in Samples :
         \E s \in {WriteRegister("i8085", m, n, val)} :
           \A k \in 0 .. 14 :
             IF k = n THEN ReadRegister("i8085", s, k) = Shown("i8085", k, val)
             ELSE Parts(k) \cap Parts(n) = {} =>
                    ReadRegister("i8085", s, k) = ReadRegister("i8085", m, k)

\* "Mode-aware register accessors used by the g/G/p/P packet handlers" (453): in
\* either mode G puts back what g has shown.
SavedRestores ==
  m.hlt_enable = 1 => \A arch \in Arch : Restores(arch)
=============================================================================
