------------------------------ MODULE DiskEmu ------------------------------
(***************************************************************************)
(* The disk emulator (disk_emu.cpp): files of the host behind four ports,  *)
(* as operators on a record of the emulator's own state and the files of   *)
(* its directory.                                                          *)
(*                                                                         *)
(* A file name is a sequence of characters in the processor's memory, of   *)
(* which a command takes as many as the data byte says, but none from a 0  *)
(* on.  The host may refuse to open a file or to take a byte; it does not  *)
(* fail to read one or to close one.  A byte is taken or refused when it   *)
(* is written: the host library's buffer is left out, and with it the      *)
(* flush that loses bytes answered "ok" before, of which a later write     *)
(* tells, or nobody, for what fclose returns is ignored (disk_emu.cpp 112, *)
(* 154, 171).  No file is open for reading and for writing at once, so     *)
(* that the buffer cannot be seen in what is read, either.                 *)
(***************************************************************************)
EXTENDS Sequences, Integers
LOCAL INSTANCE SequencesExt

CONSTANTS
  Memory     \* the names in memory: the characters at some addresses

\* A FILE pointer that is null.
NoFile == [name |-> <<>>, pos |-> -1]
IsOpen(fp) == fp.pos >= 0

Commands == {"open_read", "open_write", "read", "write", "close", "rewind", "unknown"}

\* disk_emu_init.  files has what is in the files there are; pos is the number of
\* bytes that were read.
disk_emu_init(files) ==
  [files |-> files, readFp |-> NoFile, writeFp |-> NoFile,
   addrLo |-> 0, addrHi |-> 0, dataByte |-> 0, status |-> "ok"]

\* Behind the characters of a name memory is cleared.
extractFilename(addr, len) ==
  LET text == IF addr \in DOMAIN Memory THEN Memory[addr] ELSE <<>>
      end == SelectInSeq(text, LAMBDA c : c = 0)
      chars == IF end = 0 THEN Len(text) ELSE end - 1
  IN  SubSeq(text, 1, IF len < chars THEN len ELSE chars)

NameOf(d) == extractFilename(256 * d.addrHi + d.addrLo, d.dataByte)

\* An empty name opens the directory, in which there is nothing to read.
Contents(d, name) == IF name = <<>> THEN <<>> ELSE d.files[name]

Answer(d, status) == [d EXCEPT !.status = status]

\* Fault: the file that was open stays open when the new one cannot be opened.
OpenRead_KeepsOpen(d, refused) ==
  LET name == NameOf(d)
  IN  IF refused \/ (name # <<>> /\ name \notin DOMAIN d.files) THEN Answer(d, "error")
      ELSE Answer([d EXCEPT !.readFp = [name |-> name, pos |-> 0]], "ok")

\* The file that was open is closed first, whether the new one can be opened or not.
OpenRead(d, refused) ==
  LET name == NameOf(d)
  IN  IF refused \/ (name # <<>> /\ name \notin DOMAIN d.files)
      THEN Answer([d EXCEPT !.readFp = NoFile], "error")
      ELSE Answer([d EXCEPT !.readFp = [name |-> name, pos |-> 0]], "ok")

\* Opening for writing leaves the file empty.
OpenWrite(d, refused) ==
  LET name == NameOf(d)
  IN  IF refused \/ name = <<>> THEN Answer([d EXCEPT !.writeFp = NoFile], "error")
      ELSE Answer([d EXCEPT !.writeFp = [name |-> name, pos |-> 0],
                            !.files = [x \in DOMAIN @ \cup {name} |->
                                         IF x = name THEN <<>> ELSE @[x]]], "ok")

\* Without a byte to read the data byte becomes 0.
ReadByte(d) ==
  LET fp == d.readFp
  IN  CASE ~IsOpen(fp) -> Answer([d EXCEPT !.dataByte = 0], "error")
        [] IsOpen(fp) /\ fp.pos = Len(Contents(d, fp.name)) ->
             Answer([d EXCEPT !.dataByte = 0], "eof")
        [] OTHER -> Answer([d EXCEPT !.dataByte = Contents(d, fp.name)[fp.pos + 1],
                                     !.readFp.pos = @ + 1], "ok")

WriteByte(d, refused) ==
  IF refused \/ ~IsOpen(d.writeFp) THEN Answer(d, "error")
  ELSE Answer([d EXCEPT !.files[d.writeFp.name] = Append(@, d.dataByte)], "ok")

Close(d) == Answer([d EXCEPT !.readFp = NoFile, !.writeFp = NoFile], "ok")

Rewind(d) ==
  IF IsOpen(d.readFp) THEN Answer([d EXCEPT !.readFp.pos = 0], "ok") ELSE Answer(d, "error")

diskCommand(d, cmd, refused) ==
  CASE cmd = "open_read" -> OpenRead(d, refused)
    [] cmd = "open_write" -> OpenWrite(d, refused)
    [] cmd = "read" -> ReadByte(d)
    [] cmd = "write" -> WriteByte(d, refused)
    [] cmd = "close" -> Close(d)
    [] cmd = "rewind" -> Rewind(d)
    [] OTHER -> Answer(d, "error")

disk_emu_on_io_write(d, i, value, refused) ==
  CASE i = 0 -> diskCommand(d, value, refused)
    [] i = 1 -> [d EXCEPT !.dataByte = value]
    [] i = 2 -> [d EXCEPT !.addrLo = value]
    [] OTHER -> [d EXCEPT !.addrHi = value]

\* The ports of the address are not written before a read: they keep what they had.
disk_emu_on_io_pre_read(d, i) == IF i = 0 THEN d.status ELSE d.dataByte
=============================================================================
