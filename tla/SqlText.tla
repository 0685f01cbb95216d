------------------------------ MODULE SqlText ------------------------------
(* The light scanner of the completion engine (sql_text_scanner.cpp) and the *)
(* choice of the statement under the cursor (current_statement_extractor.cpp).*)
(* A buffer is a sequence of characters, one character for each class the    *)
(* scanner tells apart; offsets count from 0 as in the code, so the          *)
(* character at offset i is s[i + 1].                                        *)
EXTENDS Integers, Sequences, FiniteSets, FiniteSetsExt, SequencesExt

CONSTANTS Fragments,    \* what one keystroke or one paste adds to the buffer
          MaxFragments  \* bound on the number of them

VARIABLES buffer, typed
textVars == <<buffer, typed>>

----------------------------------------------------------------------------
WordStarts == {"a", "_"}
Digits == {"1"}
Spaces == {" ", "\n"}
Quotes == {"'", "\""}
TwoCharOperators == {<<">", "=">>, <<"<", "=">>, <<"!", "=">>, <<"<", ">">>, <<"=", "=">>}

At(s, i) == IF i \in 0 .. Len(s) - 1 THEN s[i + 1] ELSE "end"
\* the first offset from i on at which the characters of C stop
SkipWhile(s, i, C) ==
    LET out == {j \in i .. Len(s) - 1 : At(s, j) \notin C} IN IF out = {} THEN Len(s) ELSE Min(out)

LineCommentEnd(s, i) ==
    LET breaks == {j \in i .. Len(s) - 1 : At(s, j) = "\n"} IN IF breaks = {} THEN Len(s) ELSE Min(breaks)
BlockCommentEnd(s, i) ==
    LET ends == {j \in i + 2 .. Len(s) - 1 : At(s, j) = "*" /\ At(s, j + 1) = "/"}
    IN  IF ends = {} THEN Len(s) ELSE Min(ends) + 2

\* a string ends at its quote; a backslash hides the next character and a
\* doubled quote is one character of the string
RECURSIVE StringEnd(_, _, _)
StringEnd(s, i, quote) ==
    CASE i >= Len(s)                                    -> Len(s)
      [] At(s, i) = "\\" /\ i + 1 < Len(s)              -> StringEnd(s, i + 2, quote)
      [] At(s, i) = quote /\ At(s, i + 1) = quote       -> StringEnd(s, i + 2, quote)
      [] At(s, i) = quote /\ At(s, i + 1) # quote       -> i + 1
      [] OTHER                                          -> StringEnd(s, i + 1, quote)

NumberEnd(s, i) ==
    LET j == SkipWhile(s, i, Digits)
    IN  IF At(s, j) = "." /\ At(s, j + 1) \in Digits THEN SkipWhile(s, j + 1, Digits) ELSE j

\* kind and end of the token that begins at i
TokenAt(s, i) ==
    LET c == At(s, i) IN
    CASE c = "-" /\ At(s, i + 1) = "-" -> [kind |-> "Comment", begin |-> i, end |-> LineCommentEnd(s, i)]
      [] c = "/" /\ At(s, i + 1) = "*" -> [kind |-> "Comment", begin |-> i, end |-> BlockCommentEnd(s, i)]
      [] c \in Quotes                  -> [kind |-> "String", begin |-> i, end |-> StringEnd(s, i + 1, c)]
      [] c \in Digits                  -> [kind |-> "Number", begin |-> i, end |-> NumberEnd(s, i)]
      [] c \in WordStarts                -> [kind |-> "Word", begin |-> i,
                                           end |-> SkipWhile(s, i, WordStarts \cup Digits)]
      [] OTHER                         -> [kind |-> "Symbol", begin |-> i,
                                           end |-> i + (IF <<c, At(s, i + 1)>> \in TwoCharOperators THEN 2 ELSE 1)]

RECURSIVE ScanFrom(_, _)
ScanFrom(s, i) ==
    LET j == SkipWhile(s, i, Spaces)
    IN  IF j >= Len(s) THEN <<>> ELSE LET token == TokenAt(s, j) IN <<token>> \o ScanFrom(s, token.end)
scan_sql_text(s) == ScanFrom(s, 0)

TextOf(s, token) == SubSeq(s, token.begin + 1, token.end)

----------------------------------------------------------------------------
\* the mutant takes every string to be closed
ClosedTokenMut(s, token) == token.kind = "String" \/ TextOf(s, token)[1] = "/"
\* The code's test for a closed token looks at its first and last characters.
ClosedToken(s, token) ==
    LET text == TextOf(s, token) IN
    IF token.kind = "String" THEN Len(text) >= 2 /\ text[1] = text[Len(text)]
    ELSE Len(text) >= 4 /\ SubSeq(text, 1, 2) = <<"/", "*">> /\ SubSeq(text, Len(text) - 1, Len(text)) = <<"*", "/">>

cursor_in_string_or_comment(s, cursor) ==
    \E token \in Range(scan_sql_text(s)) :
        /\ token.kind \in {"String", "Comment"}
        /\ token.begin < cursor
        /\ \/ IF ClosedToken(s, token) THEN cursor < token.end ELSE cursor <= token.end
           \/ token.kind = "Comment" /\ cursor = token.end

\* the mutant splits at every semicolon character
SeparatorsMut(s) == {i \in 0 .. Len(s) - 1 : At(s, i) = ";"}
Separators(s) ==
    {t.begin : t \in {t \in Range(scan_sql_text(s)) : t.kind = "Symbol" /\ TextOf(s, t) = <<";">>}}

find_statement_at_cursor(s, cursor) ==
    LET separators == Separators(s)
        before == {i \in separators : i < cursor}
        after  == {i \in separators : cursor <= i}
    IN  [begin |-> IF before = {} THEN 0 ELSE Max(before) + 1,
         end   |-> IF after = {} THEN Len(s) ELSE Min(after)]

----------------------------------------------------------------------------
TextInit == buffer = <<>> /\ typed = 0
Type == typed < MaxFragments /\ \E f \in Fragments : buffer' = buffer \o f /\ typed' = typed + 1
TextNext == Type

----------------------------------------------------------------------------
(* What the scanner is checked against: one character at a time, the state a *)
(* reader of SQL is in. "quoted" carries the quote, "escape" follows a       *)
(* backslash, "doubt" a quote that a second one would turn into a character. *)
Step(state, c) ==
    CASE state.in = "line"                        -> IF c = "\n" THEN [in |-> "out", by |-> c] ELSE state
      [] state.in = "block"                       -> [in |-> IF c = "*" THEN "star" ELSE "block", by |-> c]
      [] state.in = "star"                        -> [in |-> IF c = "/" THEN "out" ELSE IF c = "*" THEN "star" ELSE "block", by |-> " "]
      [] state.in = "escape"                      -> [state EXCEPT !.in = "quoted"]
      [] state.in = "quoted"                      -> IF c = "\\" THEN [state EXCEPT !.in = "escape"]
                                                     ELSE IF c = state.by THEN [state EXCEPT !.in = "doubt"] ELSE state
      [] state.in = "doubt" /\ c = state.by       -> [state EXCEPT !.in = "quoted"]
      [] state.in = "out" /\ state.by = "-" /\ c = "-" -> [in |-> "line", by |-> c]
      [] state.in = "out" /\ state.by = "/" /\ c = "*" -> [in |-> "block", by |-> " "]
      [] c \in Quotes                             -> [in |-> "quoted", by |-> c]
      [] OTHER                                    -> [in |-> "out", by |-> c]
Reading(s) == FoldLeft(Step, [in |-> "out", by |-> " "], s)
LeftOpen(s) == Reading(s).in \in {"line", "block", "star", "quoted", "escape"}

(* A string left open whose last character is its own quote, hidden by a     *)
(* backslash or doubled: the scanner's test takes it to be closed            *)
(* (sql_text_scanner.cpp:234).                                               *)
LooksClosed(s) ==
    /\ s # <<>> /\ LeftOpen(s)
    /\ Reading(Front(s)).in \in {"escape", "doubt"} /\ Last(s) = Reading(Front(s)).by

(* No completion is offered where the text before the cursor leaves a string *)
(* or a comment open (completion_engine.cpp:210), except behind an open      *)
(* string that looks closed.                                                 *)
NothingOfferedInOpenText ==
    \A cursor \in 0 .. Len(buffer) :
        (LeftOpen(SubSeq(buffer, 1, cursor)) /\ ~(cursor = Len(buffer) /\ LooksClosed(buffer)))
            => cursor_in_string_or_comment(buffer, cursor)

Shift(tokens, by) == [k \in DOMAIN tokens |-> [tokens[k] EXCEPT !.begin = @ + by, !.end = @ + by]]

(* The statement under the cursor can be read on its own: outside comments,  *)
(* scanning the slice gives the tokens the scan of the whole buffer has      *)
(* there, and none of them is a separator, however strings, comments and     *)
(* semicolons nest (current_statement_extractor.cpp:36).                     *)
SliceReadsAlone ==
    \A cursor \in 0 .. Len(buffer) :
        LET slice == find_statement_at_cursor(buffer, cursor)
            alone == scan_sql_text(SubSeq(buffer, slice.begin + 1, slice.end))
        IN  /\ cursor \in slice.begin .. slice.end
            /\ Shift(alone, slice.begin)
                 = SelectSeq(scan_sql_text(buffer), LAMBDA t : slice.begin <= t.begin /\ t.begin < slice.end)
            /\ \A k \in DOMAIN alone : SubSeq(buffer, slice.begin + alone[k].begin + 1, slice.begin + alone[k].end) # <<";">>

(* At every cursor the scanner sees the strings, comments and statements     *)
(* that a reader of SQL sees.                                                *)
TextIsReadRight == NothingOfferedInOpenText /\ SliceReadsAlone
============================================================================
