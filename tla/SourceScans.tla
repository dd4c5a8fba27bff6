---------------------------- MODULE SourceScans -----------------------------
(***************************************************************************)
(* The scans of a source text in ferro-airflow-dag-parser: the two that    *)
(* come before the Python parser and refuse what is too deep               *)
(* (panic_safe.rs), and the index of its lines (line_index.rs).  A source  *)
(* is a sequence of classes of tokens; "text" is a string or a comment     *)
(* with a bracket in it, which only the scan of bytes counts.  The index   *)
(* of the lines takes one token for one byte.                              *)
(***************************************************************************)
EXTENDS Integers, Sequences, FiniteSets, SequencesExt

CONSTANTS
  MAX_PARSE_NESTING_DEPTH,  \* 256 in the code
  MAX_PARSE_RECURSION,      \* 1024 in the code
  MaxTokens                 \* bound: tokens of a source

VARIABLE source

Classes ==
  {"open", "close", "text",  \* ( [ {   ) ] }   "("
   "op", "right",            \* not - + ~ * / and or await yield ...   ** if else lambda
   "operand", "trivia",      \* names, literals, ...   line breaks in brackets, comments
   "newline", "indent", "dedent", "tstring"}

Init == source = <<>>

\* One more token.
Next == /\ Len(source) < MaxTokens
        /\ \E c \in Classes : source' = Append(source, c)

Spec == Init /\ [][Next]_source

-----------------------------------------------------------------------------
AtLeastZero(n) == IF n < 0 THEN 0 ELSE n
Larger(a, b) == IF a > b THEN a ELSE b

\* Bytes: brackets in text count, and are not closed.
nesting_depth_exceeds(s) ==
  LET scan(acc, c) ==
        LET d == IF c \in {"open", "text"} THEN acc.depth + 1
                 ELSE IF c = "close" THEN AtLeastZero(acc.depth - 1)
                 ELSE acc.depth
        IN  [depth |-> d, max |-> Larger(acc.max, d)]
  IN  FoldLeft(scan, [depth |-> 0, max |-> 0], s).max > MAX_PARSE_NESTING_DEPTH

\* A line break inside brackets ends a run of operators.
Mut_lex_step(a, c) ==
  LET n == CASE c = "indent"  -> [a EXCEPT !.indent = @ + 1, !.op_run = 0]
             [] c = "dedent"  -> [a EXCEPT !.indent = AtLeastZero(@ - 1), !.op_run = 0]
             [] c = "open"    -> [a EXCEPT !.brackets = @ + 1, !.op_run = 0]
             [] c = "close"   -> [a EXCEPT !.brackets = AtLeastZero(@ - 1), !.op_run = 0]
             [] c = "newline" -> [a EXCEPT !.op_run = 0, !.right = IF a.brackets = 0 THEN 0 ELSE @]
             [] c = "op"      -> [a EXCEPT !.op_run = @ + 1]
             [] c = "right"   -> [a EXCEPT !.op_run = @ + 1, !.right = @ + 1]
             [] c \in {"operand", "text", "trivia"} -> [a EXCEPT !.op_run = 0]
             [] c = "tstring" -> [a EXCEPT !.reject = TRUE]
  IN  IF a.reject THEN a
      ELSE [n EXCEPT !.reject = @ \/ n.brackets + n.op_run + n.right + n.indent > MAX_PARSE_RECURSION]

\* One turn of the loop over the tokens.
lex_step(a, c) ==
  LET n == CASE c = "indent"  -> [a EXCEPT !.indent = @ + 1, !.op_run = 0]
             [] c = "dedent"  -> [a EXCEPT !.indent = AtLeastZero(@ - 1), !.op_run = 0]
             [] c = "open"    -> [a EXCEPT !.brackets = @ + 1, !.op_run = 0]
             [] c = "close"   -> [a EXCEPT !.brackets = AtLeastZero(@ - 1), !.op_run = 0]
             [] c = "newline" -> [a EXCEPT !.op_run = 0, !.right = IF a.brackets = 0 THEN 0 ELSE @]
             [] c = "trivia"  -> a
             [] c = "op"      -> [a EXCEPT !.op_run = @ + 1]
             [] c = "right"   -> [a EXCEPT !.op_run = @ + 1, !.right = @ + 1]
             [] c \in {"operand", "text"} -> [a EXCEPT !.op_run = 0]
             [] c = "tstring" -> [a EXCEPT !.reject = TRUE]
  IN  IF a.reject THEN a
      ELSE [n EXCEPT !.reject = @ \/ n.brackets + n.op_run + n.right + n.indent > MAX_PARSE_RECURSION]

lex_reject_reason(s) ==
  FoldLeft(lex_step, [brackets |-> 0, op_run |-> 0, right |-> 0, indent |-> 0, reject |-> FALSE],
           s).reject

\* shield_parser_panic, before the parser is started.
Refused(s) == nesting_depth_exceeds(s) \/ lex_reject_reason(s)

-----------------------------------------------------------------------------
(* line_index.rs: offsets count from 0, lines from 1 *)

Smaller(a, b) == IF a < b THEN a ELSE b

\* LineIndex::new
line_starts(s) ==
  <<0>> \o SelectSeq([i \in 1..Len(s) |-> i], LAMBDA i : s[i] = "newline")

\* The line of an offset: the binary search for the last start that is not after it.
line_col(s, offset) ==
  LET clamped == Smaller(offset, Len(s))
      starts == line_starts(s)
      before == {i \in DOMAIN starts : starts[i] <= clamped}
  IN  AtLeastZero(Cardinality(before) - 1) + 1

span_of(s, start, end) ==
  LET first == line_col(s, start)
      last == line_col(s, AtLeastZero(end - 1))
  IN  [start_line |-> first, end_line |-> Larger(last, first)]

-----------------------------------------------------------------------------
(* What the counts mean, without the loops *)

Count(s, i, j, C) == Len(SelectSeq(SubSeq(s, i, j), LAMBDA c : c \in C))

\* Openings of s[1..n] that nothing has closed.
Unclosed(s, n, Opening, Closing) ==
  LET excess == {Count(s, i, n, Opening) - Count(s, i, n, Closing) : i \in 1..(n + 1)}
  IN  CHOOSE m \in excess : \A e \in excess : e <= m

\* Operators at the end of s[1..n] with nothing but trivia between them.
Run(s, n) ==
  LET starts == {i \in 1..(n + 1) : \A j \in i..n : s[j] \in {"op", "right", "trivia"}}
      first == CHOOSE i \in starts : \A j \in starts : i <= j
  IN  Count(s, first, n, {"op", "right"})

\* Right-recursive operators since the last line that ended outside brackets.
OnLine(s, n) ==
  LET ends == {0} \cup {j \in 1..n : s[j] = "newline"
                                     /\ Unclosed(s, j, {"open"}, {"close"}) = 0}
      last == CHOOSE j \in ends : \A k \in ends : k <= j
  IN  Count(s, last + 1, n, {"right"})

Depth(s, n) ==
  Unclosed(s, n, {"open"}, {"close"}) + Unclosed(s, n, {"indent"}, {"dedent"})
  + Run(s, n) + OnLine(s, n)

\* A source is refused exactly when it has a t-string or is somewhere deeper than
\* the caps: comments and line breaks inside brackets do not hide a chain of
\* operators, and operands and the ends of lines keep ordinary code from adding
\* up (lex_reject_reason, nesting_depth_exceeds).
RefusedIffDeep ==
  Refused(source) <=>
    \/ \E i \in DOMAIN source : source[i] = "tstring"
    \/ \E n \in DOMAIN source :
         \/ Depth(source, n) > MAX_PARSE_RECURSION
         \/ Unclosed(source, n, {"open", "text"}, {"close"}) > MAX_PARSE_NESTING_DEPTH

\* The lines of a range are those its bytes are on: of its first byte, and of its
\* last one even where the range ends on a line break, after the end of the
\* source, or is empty (LineIndex::span_of).
SpansExact ==
  \A start \in 0..Len(source), end \in 0..(Len(source) + 1) :
    start <= end =>
      LET lineOf(i) == 1 + Count(source, 1, i, {"newline"})
          lastByte == Smaller(Larger(end - 1, start), Len(source))
      IN  span_of(source, start, end) = [start_line |-> lineOf(start), end_line |-> lineOf(lastByte)]

=============================================================================
