-------------------------------- MODULE Files --------------------------------
(***************************************************************************)
(* OPEN, CLOSE, LOF, POF, SEEK, INFILE$ and the record statements in the   *)
(* three back ends, side by side on the same program:                      *)
(*   "interp"  call.rs: a table `files` in the state of EACH call,         *)
(*   "c"       c_runtime.rs: one table xb_files for the process, whose     *)
(*             numbers are never used again,                               *)
(*   "llvm"    lib.rs: one table, three entries longer, and no test of the *)
(*             number a program hands in.                                  *)
(* The interpreter runs beside one compiled program, its rival.  The       *)
(* program keeps the numbers it got; a variable holds what OPEN gave in    *)
(* both.  When it does what the rival does not support in the same way,    *)
(* the comparison ends, and `left` says why.                               *)
(***************************************************************************)
EXTENDS Integers, Sequences, SequencesExt

CONSTANTS Name,          \* file names
          Modes,         \* second arguments of OPEN
          Text,          \* contents a file may have when the program starts
          Counts,        \* record sizes
          Offsets,       \* second arguments of SEEK
          Slots,         \* 256: the size of both tables
          LineMax,       \* 65536: the buffer of xb_infile
          MaxOpens,      \* bound on the numbers a program keeps
          MaxLen,        \* bound on the length of a file
          MaxDepth       \* bound on nested calls

ASSUME BoundsAssumption ==
  /\ {Slots, LineMax, MaxOpens, MaxLen, MaxDepth} \subseteq Nat
  /\ LineMax > 1 /\ MaxDepth > 0 /\ Slots > 3
  /\ Counts \subseteq Int /\ Offsets \subseteq Int

Byte    == {"x", "cr", "lf", "nul"}

ASSUME TextAssumption == Text \subseteq Seq(Byte)

Rivals  == {"c", "llvm"}
Engine  == Rivals \cup {"interp"}
Reason  == {"stray", "full", "denied", "text", "invalid", "missing",
            "shared", "turn"}

\* Option types: <<>> is None, <<v>> is Some(v).
Option(S) == [1..0 -> S] \cup [1..1 -> S]

\* input: a FILE* has been read from since it was last positioned.
Handle == [name : Name, pos : Nat, read : BOOLEAN, write : BOOLEAN,
           input : BOOLEAN]

VARIABLES rival,         \* the compiled program
          st,            \* per engine: the disk, and the handle tables
          held,          \* the numbers in the program's variables
          left,          \* why the comparison has ended
          same           \* the rival's last answer was the interpreter's

vars == <<rival, st, held, left, same>>

Both == {"interp", rival}

\* What is kept of a comparison that has ended.
Over == [e \in Engine |-> [disk |-> [n \in Name |-> <<>>], tabs |-> << <<>> >>]]

Init ==
  /\ rival \in Rivals
  /\ \E d \in [Name -> Option(Text)] :
       st = [e \in Engine |-> IF e \in Both THEN [Over[e] EXCEPT !.disk = d]
                              ELSE Over[e]]
  /\ held = <<>>
  /\ left = {}
  /\ same = TRUE

Depth == Len(st["interp"].tabs)

\* The number k written in the program itself.
Literal(k) == [num |-> [e \in Engine |-> k], home |-> Depth]

Numbers == {held[i] : i \in DOMAIN held} \cup {Literal(-1), Literal(2)}

-----------------------------------------------------------------------------
(***************************************************************************)
(* Decoding the mode: three tables for the same documented values.         *)
(***************************************************************************)
Base(mode) == IF (mode \div 2048) % 2 = 1 THEN mode - 2048 ELSE mode

Access(r, w, c, t) == [read |-> r, write |-> w, create |-> c, truncate |-> t]

\* Mutant: $$WRSHARE truncates.
ShareTruncates(mode) ==
  CASE Base(mode) \in {1, 3, 32} -> Access(FALSE, TRUE, TRUE, TRUE)
    [] Base(mode) \in {2, 48}    -> Access(TRUE, TRUE, TRUE, FALSE)
    [] Base(mode) = 4            -> Access(TRUE, TRUE, TRUE, TRUE)
    [] OTHER                     -> Access(TRUE, FALSE, FALSE, FALSE)

decode_open_mode(mode) ==
  CASE Base(mode) \in {0, 16} -> Access(TRUE, FALSE, FALSE, FALSE)
    [] Base(mode) \in {1, 3}  -> Access(FALSE, TRUE, TRUE, TRUE)
    [] Base(mode) = 2         -> Access(TRUE, TRUE, TRUE, FALSE)
    [] Base(mode) = 4         -> Access(TRUE, TRUE, TRUE, TRUE)
    [] Base(mode) = 32        -> Access(FALSE, TRUE, TRUE, FALSE)
    [] Base(mode) = 48        -> Access(TRUE, TRUE, TRUE, FALSE)
    [] OTHER                  -> Access(TRUE, FALSE, FALSE, FALSE)

\* xb_open: flags of open(2), then fdopen with a mode that never truncates.
xb_open_flags(mode) ==
  LET base  == Base(mode)
      flags == CASE base \in {0, 16} -> {"rd"}
                 [] base \in {1, 3}  -> {"wr", "creat", "trunc"}
                 [] base = 2         -> {"rd", "wr", "creat"}
                 [] base = 4         -> {"rd", "wr", "creat", "trunc"}
                 [] base = 32        -> {"wr", "creat"}
                 [] base = 48        -> {"rd", "wr", "creat"}
                 [] OTHER            -> {"rd"}
  IN  Access("rd" \in flags, "wr" \in flags, "creat" \in flags, "trunc" \in flags)

\* xb_file_open_mode: flags put together with selects.
xb_file_open_mode(mode) ==
  LET base        == Base(mode)
      rd          == base \in {0, 16}
      wr_trunc    == base \in {1, 3}
      rw_preserve == base \in {2, 48}
      rw_trunc    == base = 4
      wr_preserve == base = 32
      valid       == rd \/ wr_trunc \/ rw_preserve \/ rw_trunc \/ wr_preserve
      read_only   == rd \/ ~valid
      rdwr        == rw_preserve \/ rw_trunc
      trunc       == wr_trunc \/ rw_trunc
  IN  Access(read_only \/ rdwr, ~read_only, trunc \/ rw_preserve \/ wr_preserve,
             trunc)

Decode(e, mode) == CASE e = "interp" -> decode_open_mode(mode)
                     [] e = "c"      -> xb_open_flags(mode)
                     [] e = "llvm"   -> xb_file_open_mode(mode)

-----------------------------------------------------------------------------
(***************************************************************************)
(* Tables and bytes.                                                       *)
(***************************************************************************)
\* The table the running code of engine e uses.
Table(e) == Last(st[e].tabs)

\* The file with number k, None if there is none: numbers start at 3.
File(e, k) == IF k - 2 \in DOMAIN Table(e) THEN Table(e)[k - 2] ELSE <<>>

Store(e, k, f) == [st[e] EXCEPT !.tabs[Len(st[e].tabs)][k - 2] = f]

Moved(e, k, p, in) ==
  Store(e, k, <<[File(e, k)[1] EXCEPT !.pos = p, !.input = in]>>)

\* xb_file_count counts from 3, so C has room for three files less.
Full(e) == CASE e = "interp" -> FALSE
             [] e = "c"      -> Len(Table(e)) + 3 >= Slots
             [] e = "llvm"   -> Len(Table(e)) >= Slots

Content(e, k) == st[e].disk[File(e, k)[1].name][1]

Min2(a, b) == IF a < b THEN a ELSE b

\* c with n zero bytes written at offset p; a gap before p reads as zeros.
Overwritten(c, p, n) ==
  IF n = 0 THEN c
  ELSE [i \in 1..(IF p + n > Len(c) THEN p + n ELSE Len(c)) |->
          IF i \in DOMAIN c /\ i \notin (p+1)..(p+n) THEN c[i] ELSE "nul"]

\* What is left to read at offset p, and its first line, LF included.
Rest(c, p) == SubSeq(c, p + 1, Len(c))

LineOf(c) == LET lfs == {i \in DOMAIN c : c[i] = "lf"}
             IN  IF lfs = {} THEN c
                 ELSE SubSeq(c, 1, CHOOSE i \in lfs : \A j \in lfs : i <= j)

WithoutLf(l) == IF l # <<>> /\ Last(l) = "lf" THEN Front(l) ELSE l

WithoutCrs(l) ==
  LET kept[i \in 0..Len(l)] == IF i = 0 THEN <<>>
                               ELSE IF l[i] = "cr" THEN kept[i - 1]
                               ELSE Append(kept[i - 1], l[i])
  IN  kept[Len(l)]

UpToNul(l) == LET nuls == {i \in DOMAIN l : l[i] = "nul"}
              IN  IF nuls = {} THEN l
                  ELSE SubSeq(l, 1, (CHOOSE i \in nuls : \A j \in nuls : i <= j) - 1)

-----------------------------------------------------------------------------
(***************************************************************************)
(* Each operation on engine e: the state it leaves and what it answers.    *)
(***************************************************************************)
Result(s, a) == [st |-> s, ans |-> a]

\* The file is created or truncated before the table turns out to be full.
Open(e, n, mode) ==
  LET m      == Decode(e, mode)
      exists == st[e].disk[n] # <<>>
      opened == [st[e] EXCEPT !.disk[n] = IF exists /\ ~m.truncate THEN @
                                          ELSE << <<>> >>]
      file   == [name |-> n, pos |-> 0, read |-> m.read, write |-> m.write,
                 input |-> FALSE]
  IN  IF ~exists /\ ~m.create THEN Result(st[e], -1)
      ELSE IF Full(e) THEN Result(opened, -1)
      ELSE Result([opened EXCEPT !.tabs[Len(opened.tabs)] = Append(@, <<file>>)],
                  Len(Table(e)) + 3)

Close(e, k) == IF File(e, k) = <<>> THEN Result(st[e], -1)
               ELSE Result(Store(e, k, <<>>), 0)

\* Only the number of bytes is significant.  The interpreter and LLVM code
\* answer the count even when nothing could be written.
WriteRecord(e, k, count) ==
  LET f == File(e, k)
      c == Overwritten(Content(e, k), f[1].pos, count)
  IN  IF f = <<>> \/ count < 0 THEN Result(st[e], -1)
      ELSE IF ~f[1].write
      THEN Result(st[e], IF e = "c" /\ count > 0 THEN -1 ELSE count)
      ELSE Result([Moved(e, k, f[1].pos + count, FALSE) EXCEPT !.disk[f[1].name] = <<c>>],
                  count)

ReadRecord(e, k, count) ==
  LET f   == File(e, k)
      got == Min2(count, Len(Rest(Content(e, k), f[1].pos)))
  IN  IF f = <<>> \/ count < 0 THEN Result(st[e], -1)
      ELSE IF ~f[1].read THEN Result(st[e], 0)
      ELSE Result(Moved(e, k, f[1].pos + got, TRUE), got)

\* To the end and back.
Lof(e, k) == IF File(e, k) = <<>> THEN Result(st[e], -1)
             ELSE Result(Moved(e, k, File(e, k)[1].pos, FALSE), Len(Content(e, k)))

Pof(e, k) == Result(st[e], IF File(e, k) = <<>> THEN -1 ELSE File(e, k)[1].pos)

\* Mutant: no test of the offset.
SeekAnywhere(e, k, p) == IF File(e, k) = <<>> THEN Result(st[e], -1)
                         ELSE Result(Moved(e, k, p, FALSE), p)

Seek(e, k, p) == IF File(e, k) = <<>> \/ p < 0 THEN Result(st[e], -1)
                 ELSE Result(Moved(e, k, p, FALSE), p)

\* INFILE$: read byte by byte up to LF, CRs dropped; or fgets into a buffer
\* whose text ends at the first NUL.
InFile(e, k) ==
  LET f    == File(e, k)
      line == LineOf(Rest(Content(e, k), f[1].pos))
      took == IF e = "c" THEN SubSeq(line, 1, Min2(Len(line), LineMax - 1)) ELSE line
      text == IF e = "c" THEN WithoutLf(UpToNul(took))
              ELSE WithoutCrs(WithoutLf(took))
  IN  IF f = <<>> \/ ~f[1].read THEN Result(st[e], <<>>)
      ELSE Result(Moved(e, k, f[1].pos + Len(took), TRUE), text)

-----------------------------------------------------------------------------
(***************************************************************************)
(* What takes a back end out of the comparison.                            *)
(***************************************************************************)
\* A number is good in the call that got it: files are closed at its end and
\* its callees have tables of their own.
Stray(h) == IF h.home = Depth THEN {} ELSE {"stray"}

\* LLVM code uses the number unseen: no file is undefined behaviour.
Invalid(h, count) ==
  IF rival = "llvm" /\ (File(rival, h.num[rival]) = <<>> \/ count < 0)
  THEN {"invalid"} ELSE {}

\* POF, SEEK and INFILE$ are not translated by the LLVM back end.
Missing == IF rival = "llvm" THEN {"missing"} ELSE {}

\* A FILE* buffers what it reads: a second number for an open file may show
\* what the file held before.
Shared(n) ==
  IF \E i \in DOMAIN st["interp"].tabs : \E j \in DOMAIN st["interp"].tabs[i] :
       LET f == st["interp"].tabs[i][j] IN f # <<>> /\ f[1].name = n
  THEN {"shared"} ELSE {}

\* ISO C: no output right after input on a stream without positioning it.
Turn(h) ==
  LET f == File(rival, h.num[rival])
  IN  IF f # <<>> /\ f[1].input THEN {"turn"} ELSE {}

\* A record written to a file that was opened for reading.
Denied(h, count) ==
  LET f == File(rival, h.num[rival])
  IN  IF count > 0 /\ f # <<>> /\ ~f[1].write THEN {"denied"} ELSE {}

\* A line that fgets and strlen do not see as the interpreter does.
NotPlain(h) ==
  LET k    == h.num[rival]
      f    == File(rival, k)
      line == LineOf(Rest(Content(rival, k), f[1].pos))
  IN  IF /\ f # <<>> /\ f[1].read
         /\ \/ \E i \in DOMAIN line : line[i] \in {"cr", "nul"}
            \/ Len(line) >= LineMax
      THEN {"text"} ELSE {}

\* One statement of the program in both; agree says whether the rival's answer
\* is as good as the interpreter's, why what rules a comparison out.
Step(R(_), agree, why) ==
  /\ left = {}
  /\ st' = IF why # {} THEN Over
           ELSE [e \in Engine |-> IF e \in Both THEN R(e).st ELSE st[e]]
  /\ left' = why
  /\ same' = agree
  /\ UNCHANGED rival

\* A number is an answer of its own in each; success or failure is compared.
DoOpen ==
  \E n \in Name, mode \in Modes :
    LET R(e)   == Open(e, n, mode)
        opened == R("interp").ans >= 0
        why    == Shared(n) \cup IF opened /\ Full(rival) THEN {"full"} ELSE {}
    IN  /\ Len(held) < MaxOpens
        /\ Step(R, opened = (R(rival).ans >= 0), why)
        /\ held' = IF opened /\ why = {}
                   THEN Append(held, [num  |-> [e \in Engine |->
                                        IF e \in Both THEN R(e).ans ELSE -1],
                                      home |-> Depth])
                   ELSE IF why = {} THEN held ELSE <<>>

\* A statement with a file number.
WithNumber(h, R(_, _), why) ==
  LET Re(e) == R(e, h.num[e])
      ends  == Stray(h) \cup why
  IN  /\ Step(Re, Re("interp").ans = Re(rival).ans, ends)
      /\ held' = IF ends = {} THEN held ELSE <<>>

DoClose == \E h \in Numbers : WithNumber(h, Close, Invalid(h, 0))

DoWriteRecord ==
  \E h \in Numbers, count \in Counts :
    LET f       == File("interp", h.num["interp"])
        R(e, k) == WriteRecord(e, k, count)
    IN  /\ f # <<>> => f[1].pos + count <= MaxLen
        /\ WithNumber(h, R, Invalid(h, count) \cup Denied(h, count) \cup Turn(h))

DoReadRecord ==
  \E h \in Numbers, count \in Counts :
    LET R(e, k) == ReadRecord(e, k, count)
    IN  WithNumber(h, R, Invalid(h, count))

DoLof == \E h \in Numbers : WithNumber(h, Lof, Invalid(h, 0))

DoPof == \E h \in Numbers : WithNumber(h, Pof, Missing)

DoSeek == \E h \in Numbers, p \in Offsets :
            LET R(e, k) == Seek(e, k, p) IN WithNumber(h, R, Missing)

DoInFile == \E h \in Numbers : WithNumber(h, InFile, Missing \cup NotPlain(h))

\* call_function gives the callee `files: Vec::new()`; the compiled programs
\* have one table.
DoCall ==
  /\ left = {} /\ Depth < MaxDepth
  /\ st' = [st EXCEPT !["interp"].tabs = Append(@, <<>>)]
  /\ UNCHANGED <<rival, held, left, same>>

\* Dropping the callee's state closes its files; no number of it is good now.
DoReturn ==
  /\ left = {} /\ Depth > 1
  /\ st' = [st EXCEPT !["interp"].tabs = Front(@)]
  /\ held' = [i \in DOMAIN held |->
                IF held[i].home = Depth THEN [held[i] EXCEPT !.home = 0]
                ELSE held[i]]
  /\ UNCHANGED <<rival, left, same>>

Next == \/ DoOpen \/ DoClose \/ DoWriteRecord \/ DoReadRecord \/ DoLof
        \/ DoPof \/ DoSeek \/ DoInFile \/ DoCall \/ DoReturn

Spec == Init /\ [][Next]_vars

-----------------------------------------------------------------------------
\* Types of the five variables.
TypeOK ==
  /\ rival \in Rivals
  /\ st \in [Engine -> [disk : [Name -> Option(Seq(Byte))],
                       tabs : Seq(Seq(Option(Handle)))]]
  /\ held \in Seq([num : [Engine -> Int], home : Nat])
  /\ left \subseteq Reason
  /\ same \in BOOLEAN

\* The file a number in scope names in engine e.
Named(e, h) == LET tab == IF e = "interp" THEN h.home ELSE 1
               IN  st[e].tabs[tab][h.num[e] - 2]

(***************************************************************************)
(* One program, three back ends: as long as the program keeps to what the  *)
(* compiled one supports, each answer is the interpreter's, the disks are  *)
(* the same, and every number in scope, of the running function and of its *)
(* callers, names the same file at the same position, although the tables  *)
(* are laid out differently and callees open files of their own.           *)
(***************************************************************************)
EnginesInStep ==
  left = {} =>
    /\ same
    /\ st[rival].disk = st["interp"].disk
    /\ \A i \in DOMAIN held :
         held[i].home > 0 => Named(rival, held[i]) = Named("interp", held[i])
=============================================================================
