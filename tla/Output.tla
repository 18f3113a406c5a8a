-------------------------------- MODULE Output --------------------------------
(***************************************************************************)
(* Standard output of the interpreter: PRINT (exec_print in                *)
(* interpreter_select.rs), the prompt of INLINE$ and the kernel32          *)
(* WriteFile (call.rs), and line_pending, which calls copy in and not out. *)
(*                                                                         *)
(* The interpreter collects entries, each one line without its LF; a       *)
(* partial line left by WriteFile is marked by line_pending.  The C        *)
(* backend writes bytes: stream is what it has written after the same      *)
(* steps (xb_print_str, xb_inline, xb_write_file in c_runtime.rs).         *)
(*                                                                         *)
(* WriteFile takes handle 1 or 2.  The interpreter puts both into the same *)
(* entries, which are its standard output; C writes handle 2 to standard   *)
(* error.  That is a difference the model does not judge: stream holds     *)
(* what C writes to either, in the order it is written.                    *)
(***************************************************************************)
EXTENDS Naturals, Sequences, SequencesExt

CONSTANTS Char,       \* bytes other than LF
          LF,         \* the line feed
          MaxBytes,   \* longest text printed or written at once
          MaxOut,     \* bound on the bytes written in all
          MaxDepth    \* bound on the depth of calls

ASSUME OutputAssumption == /\ LF \notin Char
                           /\ MaxBytes \in Nat /\ MaxOut \in Nat
                           /\ MaxDepth \in Nat \ {0}

VARIABLES output,     \* the entries
          pending,    \* line_pending of every active call, innermost last
          stream      \* history: the bytes the C program has written

vars == <<output, pending, stream>>

Byte == Char \cup {LF}

Text == BoundedSeq(Char, MaxBytes)
Data == BoundedSeq(Byte, MaxBytes)

Init == output = <<>> /\ pending = <<FALSE>> /\ stream = <<>>

Top == pending[Len(pending)]

SetPending(p) == [pending EXCEPT ![Len(pending)] = p]

\* `output.last_mut()` gets text at its end; without an entry, a new one.
Splice(out, text) == IF out = <<>> THEN <<text>>
                     ELSE [out EXCEPT ![Len(out)] = @ \o text]

Written(bytes) == /\ Len(stream) + Len(bytes) <= MaxOut
                  /\ stream' = stream \o bytes

\* PRINT completes a pending line or makes a line of its own.
ExecPrint(text) ==
  /\ output' = IF Top THEN Splice(output, text) ELSE Append(output, text)
  /\ pending' = SetPending(FALSE)
  /\ Written(Append(text, LF))

\* INLINE$: the prompt becomes an entry; line_pending is left alone.
Inline(prompt) == /\ output' = Append(output, prompt)
                  /\ Written(Append(prompt, LF))
                  /\ UNCHANGED pending

-----------------------------------------------------------------------------
(***************************************************************************)
(* WriteFile splits its data at the LFs.                                   *)
(***************************************************************************)
\* Mutant: the parts keep their LF (split_inclusive).
SplitInclusive(data) ==
  LET Step(parts, c) == LET longer == [parts EXCEPT ![Len(parts)] = Append(@, c)]
                        IN  IF c = LF THEN Append(longer, <<>>) ELSE longer
  IN  FoldLeft(Step, << <<>> >>, data)

\* data.split('\n'): the parts between the LFs, one more than there are LFs.
Split(data) ==
  LET split[d \in Seq(Byte)] ==
        IF d = <<>> THEN << <<>> >>
        ELSE LET parts == split[Front(d)]
             IN  IF Last(d) = LF THEN Append(parts, <<>>)
                 ELSE [parts EXCEPT ![Len(parts)] = Append(@, Last(d))]
  IN  split[data]

\* A part that an LF follows; here a pending line without an entry would be
\* dropped.
WholeLine(st, part) ==
  [out |-> IF ~st.open THEN Append(st.out, part)
           ELSE IF st.out = <<>> THEN <<>> ELSE Splice(st.out, part),
   open |-> FALSE]

\* Mutant: a trailing part replaces the line instead of joining it.
RestReplaces(st, part) ==
  IF part = <<>> THEN [out |-> st.out, open |-> FALSE]
  ELSE [out |-> Append(IF st.out = <<>> THEN <<>> ELSE Front(st.out), part),
        open |-> TRUE]

\* The part after the last LF; all three branches of the code that have an
\* entry to extend extend it.
Rest(st, part) ==
  IF part = <<>> THEN [out |-> st.out, open |-> FALSE]
  ELSE [out |-> Splice(st.out, part), open |-> TRUE]

\* All the parts that an LF follows, one after the other.
WholeLines(st, parts) ==
  LET after[p \in Seq(Seq(Byte))] ==
        IF p = <<>> THEN st ELSE WholeLine(after[Front(p)], Last(p))
  IN  after[parts]

\* The data written to handle 1 or 2 (`data[..n]`, n > 0).
WriteFile(data) ==
  LET parts == Split(data)
      whole == WholeLines([out |-> output, open |-> Top], Front(parts))
      done  == Rest(whole, Last(parts))
  IN  /\ data # <<>>
      /\ output' = done.out
      /\ pending' = SetPending(done.open)
      /\ Written(data)

-----------------------------------------------------------------------------
\* call_function copies line_pending in ...
CallFunction == /\ Len(pending) < MaxDepth
                /\ pending' = Append(pending, Top)
                /\ UNCHANGED <<output, stream>>

\* ... and the caller goes on with its own.
ReturnFromFunction == /\ Len(pending) > 1
                      /\ pending' = Front(pending)
                      /\ UNCHANGED <<output, stream>>

Next == \/ \E text \in Text : ExecPrint(text)
        \/ \E text \in Text : Inline(text)
        \/ \E data \in Data : WriteFile(data)
        \/ CallFunction
        \/ ReturnFromFunction

Spec == Init /\ [][Next]_vars

-----------------------------------------------------------------------------
\* Types of the variables.
TypeOK == /\ output \in Seq(Seq(Char))
          /\ pending \in Seq(BOOLEAN) /\ Len(pending) \in 1..MaxDepth
          /\ stream \in Seq(Byte)

\* The entries, one after the other.
Joined(out) ==
  LET joined[o \in Seq(Seq(Byte))] ==
        IF o = <<>> THEN <<>> ELSE joined[Front(o)] \o Last(o)
  IN  joined[out]

WithoutLF(bytes) ==
  LET kept[b \in Seq(Byte)] ==
        IF b = <<>> THEN <<>>
        ELSE IF Last(b) = LF THEN kept[Front(b)]
        ELSE Append(kept[Front(b)], Last(b))
  IN  kept[bytes]

(***************************************************************************)
(* Whatever becomes of the line breaks, no byte is lost, doubled or moved: *)
(* the entries hold, in order, exactly the bytes other than LF that the C  *)
(* program writes, to either handle.  A line marked pending always has an  *)
(* entry to extend.                                                        *)
(***************************************************************************)
NoByteLost == Joined(output) = WithoutLF(stream)
=============================================================================
