---------------------------- MODULE BinaryCString ----------------------------
(***************************************************************************)
(* BufferToBinaryC of src/keyb2joypad-yml-to-c.js (lines 322-351): a       *)
(* compressed blob written as a C string literal.  Bytes that are not     *)
(* printable become escapes; a digit after an octal escape is escaped      *)
(* too (mode 1), a '?' after a '?' is escaped to stop trigraphs (mode 2);  *)
(* the literal is split into "..." pieces once a line is long enough.     *)
(* One step handles one byte.  Characters of the output are ASCII codes.   *)
(***************************************************************************)
EXTENDS Integers, Sequences, SequencesExt

CONSTANTS
  Bufs,         \* the buffers handed to BufferToBinaryC
  LineBreakAt,  \* lineBreakAt (code: 950)
  MaxBufLen     \* longest buffer accepted (code: 65510)

QUOTE == 34
BACKSLASH == 92

\* p.toString(8) for a byte p.
Octal(p) ==
  IF p < 8 THEN <<48 + p>>
  ELSE IF p < 64 THEN <<48 + p \div 8, 48 + (p % 8)>>
  ELSE <<48 + p \div 64, 48 + ((p \div 8) % 8), 48 + (p % 8)>>

\* case 8, 12, 10, 13, 9, 11, 34, 92: the escape letter.
SimpleEscape == (8 :> 98) @@ (12 :> 102) @@ (10 :> 110) @@ (13 :> 114)
                @@ (9 :> 116) @@ (11 :> 118) @@ (34 :> 34) @@ (92 :> 92)

IsDigit(p) == p \in 48..57

VARIABLES
  buf,          \* buf
  i,            \* loop index
  mode,         \* 0, 1 (in octal), 2 (in trigraph)
  codeLineLen,  \* codeLineLen
  res,          \* res
  status        \* "start" | "run" | "done" | "error"

vars == <<buf, i, mode, codeLineLen, res, status>>

Init ==
  /\ buf \in Bufs
  /\ i = 0
  /\ mode = 0
  /\ codeLineLen = 0
  /\ res = <<>>
  /\ status = "start"

\* Line 324: the length check; line 325: res = '"'.
Start ==
  /\ status = "start"
  /\ \/ Len(buf) > MaxBufLen /\ status' = "error" /\ UNCHANGED res
     \/ Len(buf) <= MaxBufLen /\ status' = "run" /\ res' = <<QUOTE>>
  /\ UNCHANGED <<buf, i, mode, codeLineLen>>

\* Mutant: a digit is never escaped, whatever precedes it.
PieceNoOctalGuard(p, m, last) ==
  CASE p \in DOMAIN SimpleEscape ->
         [a |-> <<BACKSLASH, SimpleEscape[p]>>, mode |-> 0]
    [] p = 63 ->
         [a |-> (IF m = 2 THEN <<BACKSLASH>> ELSE <<>>) \o <<63>>, mode |-> 2]
    [] IsDigit(p) -> [a |-> <<p>>, mode |-> m]
    [] p \in 32..126 -> [a |-> <<p>>, mode |-> 0]
    [] p = 0 /\ last -> [a |-> <<>>, mode |-> m]
    [] OTHER -> [a |-> <<BACKSLASH>> \o Octal(p), mode |-> 1]

\* The text a byte p at index i becomes and the mode after it (lines
\* 328-343).
Piece(p, m, last) ==
  CASE p \in DOMAIN SimpleEscape ->
         [a |-> <<BACKSLASH, SimpleEscape[p]>>, mode |-> 0]
    [] p = 63 ->
         [a |-> (IF m = 2 THEN <<BACKSLASH>> ELSE <<>>) \o <<63>>, mode |-> 2]
    [] IsDigit(p) ->
         [a |-> IF m = 1 THEN <<BACKSLASH>> \o Octal(p) ELSE <<p>>, mode |-> m]
    [] p \in 32..126 -> [a |-> <<p>>, mode |-> 0]
    [] p = 0 /\ last -> [a |-> <<>>, mode |-> m]
    [] OTHER -> [a |-> <<BACKSLASH>> \o Octal(p), mode |-> 1]

\* '"\n\t\t"'
LINE_BREAK == <<QUOTE, 10, 9, 9, QUOTE>>

\* Mutant: codeLineLen is not reset when the line is broken.
EncodeByteNoReset ==
  /\ status = "run"
  /\ i < Len(buf)
  /\ LET pc == Piece(buf[i + 1], mode, i = Len(buf) - 1)
         len == codeLineLen + Len(pc.a)
     IN  /\ res' = res \o (IF len > LineBreakAt THEN LINE_BREAK ELSE <<>>)
                       \o pc.a
         /\ codeLineLen' = len
         /\ mode' = pc.mode
  /\ i' = i + 1
  /\ UNCHANGED <<buf, status>>

\* One iteration of the loop (lines 326-346).
EncodeByte ==
  /\ status = "run"
  /\ i < Len(buf)
  /\ LET pc == Piece(buf[i + 1], mode, i = Len(buf) - 1)
         len == codeLineLen + Len(pc.a)
     IN  /\ res' = res \o (IF len > LineBreakAt THEN LINE_BREAK ELSE <<>>)
                       \o pc.a
         /\ codeLineLen' = IF len > LineBreakAt THEN 0 ELSE len
         /\ mode' = pc.mode
  /\ i' = i + 1
  /\ UNCHANGED <<buf, status>>

\* Lines 348-349: the closing quote.
Finish ==
  /\ status = "run"
  /\ i = Len(buf)
  /\ res' = res \o <<QUOTE>>
  /\ status' = "done"
  /\ UNCHANGED <<buf, i, mode, codeLineLen>>

Next == Start \/ EncodeByte \/ Finish

Spec == Init /\ [][Next]_vars

-----------------------------------------------------------------------------
(* How a C compiler reads the literal back: trigraph replacement (phase   *)
(* 1), line splicing (phase 2), escapes (phase 5) and the concatenation of *)
(* adjacent literals (phase 6).  BAD marks source it rejects.              *)

BAD == <<-1>>

TRIGRAPH == (61 :> 35) @@ (40 :> 91) @@ (47 :> 92) @@ (41 :> 93) @@ (39 :> 94)
            @@ (60 :> 123) @@ (33 :> 124) @@ (62 :> 125) @@ (45 :> 126)

RECURSIVE Trigraphs(_)
Trigraphs(t) ==
  IF Len(t) < 3 THEN t
  ELSE IF t[1] = 63 /\ t[2] = 63 /\ t[3] \in DOMAIN TRIGRAPH
  THEN <<TRIGRAPH[t[3]]>> \o Trigraphs(SubSeq(t, 4, Len(t)))
  ELSE <<t[1]>> \o Trigraphs(Tail(t))

RECURSIVE Splice(_)
Splice(t) ==
  IF Len(t) < 2 THEN t
  ELSE IF t[1] = BACKSLASH /\ t[2] = 10 THEN Splice(SubSeq(t, 3, Len(t)))
  ELSE <<t[1]>> \o Splice(Tail(t))

\* The escape letters of C and their values (\' \" \? \\ \a \b \f \n \r
\* \t \v).
C_ESCAPES == (39 :> 39) @@ (34 :> 34) @@ (63 :> 63) @@ (92 :> 92)
             @@ (97 :> 7) @@ (98 :> 8) @@ (102 :> 12) @@ (110 :> 10)
             @@ (114 :> 13) @@ (116 :> 9) @@ (118 :> 11)

IsOct(c) == c \in 48..55

\* Number of octal digits (at most three) from index k of t.
OctLen(t, k) ==
  Cardinality({n \in 1..3 : \A j \in 0..(n - 1) : k + j <= Len(t) /\ IsOct(t[k + j])})

OctVal(t, k, n) == FoldLeft(LAMBDA v, c : v * 8 + c - 48, 0, SubSeq(t, k, k + n - 1))

\* Decode from index k, inside a literal or not, with the bytes so far.
RECURSIVE Dec(_, _, _, _)
Dec(t, k, in, acc) ==
  IF k > Len(t) THEN (IF in THEN BAD ELSE acc)
  ELSE IF ~in
  THEN CASE t[k] \in {9, 10, 32} -> Dec(t, k + 1, FALSE, acc)
         [] t[k] = QUOTE -> Dec(t, k + 1, TRUE, acc)
         [] OTHER -> BAD
  ELSE CASE t[k] = QUOTE -> Dec(t, k + 1, FALSE, acc)
         [] t[k] = 10 -> BAD
         [] t[k] # BACKSLASH -> Dec(t, k + 1, TRUE, Append(acc, t[k]))
         [] k = Len(t) -> BAD
         [] t[k + 1] \in DOMAIN C_ESCAPES ->
              Dec(t, k + 2, TRUE, Append(acc, C_ESCAPES[t[k + 1]]))
         [] IsOct(t[k + 1]) ->
              LET n == OctLen(t, k + 1)
              IN  Dec(t, k + 1 + n, TRUE, Append(acc, OctVal(t, k + 1, n)))
         [] OTHER -> BAD

CompilerReads(t) == Dec(Trigraphs(Splice(t)), 1, FALSE, <<>>)

-----------------------------------------------------------------------------

TypeOK ==
  /\ i \in 0..Len(buf)
  /\ mode \in {0, 1, 2}
  /\ codeLineLen \in 0..(LineBreakAt + 4)
  /\ res \in Seq(0..127)
  /\ status \in {"start", "run", "done", "error"}

(* The C literal line 348 returns holds the buffer: a compiler reading it *)
(* (trigraphs, escapes with maximal octal munch, concatenation of the     *)
(* pieces split at line 345) gets back every byte, the last one if it is  *)
(* 0 coming from the implicit terminator, whatever bytes follow an octal  *)
(* escape or a '?', and wherever the line breaks fall.                     *)
LiteralDecodesToBuffer ==
  status = "done" => CompilerReads(res) \o <<0>> \in {buf, buf \o <<0>>}

=============================================================================
