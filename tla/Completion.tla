----------------------------- MODULE Completion -----------------------------
(* What the completion engine offers for a statement: grammar, catalogue and *)
(* scope, and the checks a continuation proposed by the model must pass. A   *)
(* statement is the sequence of tokens SqlText's scanner finds; a word's     *)
(* text stands for its upper-cased form and style for how it was typed. The  *)
(* parser is a witness: what it expects at the cursor, which keywords it     *)
(* takes there and how much of a continuation it reads.                      *)
EXTENDS Integers, Sequences, FiniteSets, FiniteSetsExt, SequencesExt

CONSTANTS Vocabulary,     \* tokens the editor adds
          Starts,         \* statements it begins with
          Endings,        \* what may stand behind the cursor
          MaxTokens,      \* bound on the tokens added
          Partials,       \* half-typed words at the cursor
          PrefixOf,       \* <<half-typed text, name>> pairs that match
          ParserViews,    \* what the parser says at the cursor
          ItemLimits,     \* max_items of a request
          Catalog,        \* function from tables to sequences of columns
          TableOrder,     \* the order all_tables lists them in
          NameOrder,      \* names in alphabetical order
          Continuations,  \* what the model may return
          MaxAnswered,    \* bound on the tokens added to a statement the model answers
          MaxModelTokens, \* the length a continuation is cut to
          MaxSchemaTables

VARIABLES lead, added, request, response
completionVars == <<lead, added, request, response>>

Word(t) == t.kind = "Word"
Is(t, symbol) == t.kind = "Symbol" /\ t.text = symbol
Distinct(s) == FoldLeft(LAMBDA seen, x : IF x \in Range(seen) THEN seen ELSE Append(seen, x), <<>>, s)

----------------------------------------------------------------------------
(* The dialect: sql_capabilities.cpp.                                        *)
Keywords == {"SELECT", "FROM", "WHERE", "AND", "OR", "NOT", "INSERT", "INTO", "VALUES", "DELETE", "UPDATE", "SET",
             "CREATE", "DROP", "TABLE", "TABLES", "INDEX", "SHOW", "DESC", "SYNC", "GROUP", "ORDER", "BY", "JOIN",
             "INNER", "ON", "NULL", "IS", "PRIMARY", "KEY", "ANALYZE", "EXPLAIN", "LOAD", "DATA", "INFILE", "FIELDS",
             "TERMINATED", "ENCLOSED", "STORAGE", "FORMAT", "BEGIN", "COMMIT", "ROLLBACK", "CALC", "HELP", "EXIT", "ASC"}
Types == {"INT", "CHAR", "FLOAT", "VECTOR", "DATE"}
Forbidden == {"HAVING", "LIMIT", "OFFSET", "UNION", "INTERSECT", "EXCEPT", "ALTER", "TRUNCATE", "DISTINCT", "WITH",
              "WINDOW", "OVER", "PARTITION", "RECURSIVE", "CASE", "WHEN", "THEN", "ELSE", "END", "USING", "NATURAL",
              "LEFT", "RIGHT", "FULL", "OUTER", "CROSS", "EXISTS", "ANY", "ALL", "BETWEEN", "LIKE", "IN", "GRANT",
              "REVOKE", "VARCHAR", "BOOLEAN", "BOOL", "TEXT", "DECIMAL", "NUMERIC", "DOUBLE", "BIGINT", "SMALLINT",
              "TIMESTAMP", "DATETIME", "BLOB", "JSON", "AUTO_INCREMENT", "DEFAULT", "REFERENCES", "FOREIGN", "CHECK",
              "CONSTRAINT", "VIEW", "TRIGGER", "PROCEDURE", "FUNCTION", "DATABASE", "SCHEMA", "REPLACE", "MERGE"}

(* Grammar symbols, with the text and the kind they are shown with: a        *)
(* keyword is its own symbol but for NULL, types and signs have others.      *)
OwnSymbols == {"SELECT", "FROM", "WHERE", "AND", "OR", "NOT", "INSERT", "INTO", "VALUES", "DELETE", "UPDATE", "SET",
               "CREATE", "DROP", "TABLE", "TABLES", "INDEX", "SHOW", "DESC", "ASC", "SYNC", "GROUP", "ORDER", "BY",
               "JOIN", "INNER", "ON", "IS", "PRIMARY", "KEY", "ANALYZE", "EXPLAIN", "HELP", "EXIT"}
TypeSymbols == [INT_T |-> "INT", STRING_T |-> "CHAR", FLOAT_T |-> "FLOAT", VECTOR_T |-> "VECTOR", DATE |-> "DATE"]
SignSymbols == [LBRACE |-> "(", RBRACE |-> ")", COMMA |-> ",", SEMICOLON |-> ";", DOT |-> ".", EQ |-> "=", NE |-> "!=",
                LT |-> "<", GT |-> ">", LE |-> "<=", GE |-> ">=", PLUS |-> "+", MINUS |-> "-", STAR |-> "*", SLASH |-> "/"]
DisplayTable ==
    [s \in OwnSymbols |-> [text |-> s, kind |-> "Keyword"]]
    @@ [NULL_T |-> [text |-> "NULL", kind |-> "Keyword"]]
    @@ [s \in DOMAIN TypeSymbols |-> [text |-> TypeSymbols[s], kind |-> "Type"]]
    @@ [s \in DOMAIN SignSymbols |-> [text |-> SignSymbols[s], kind |-> "Operator"]]

\* keywords tried against the parser besides the ones it says it expects
Structural ==
    <<"SELECT", "INSERT", "DELETE", "UPDATE", "CREATE", "DROP", "SHOW", "DESC", "EXPLAIN", "ANALYZE", "SYNC", "HELP",
      "EXIT", "CALC", "LOAD", "BEGIN", "COMMIT", "ROLLBACK", "FROM", "WHERE", "GROUP", "ORDER", "JOIN", "INNER", "SET",
      "VALUES", "INTO", "TABLE", "TABLES", "AND", "OR", "NOT", "BY", "ON", "IS", "NULL", "PRIMARY", "KEY", "ASC">>

----------------------------------------------------------------------------
(* The tables a statement names: completion_scope.cpp.                       *)
ClauseBoundary == {"WHERE", "GROUP", "ORDER", "JOIN", "INNER", "ON", "SET", "VALUES", "LIMIT"}

\* the mutant reads past the clause that ends the list
RECURSIVE NamesFromMut(_, _, _)
NamesFromMut(tokens, j, one) ==
    IF j > Len(tokens) THEN <<>>
    ELSE LET t == tokens[j] IN
         CASE Word(t) -> <<t.text>> \o (IF one THEN <<>> ELSE NamesFromMut(tokens, j + 1, one))
           [] t.kind = "Symbol" /\ t.text # "," -> <<>>
           [] OTHER -> NamesFromMut(tokens, j + 1, one)
\* the words behind FROM, separated by commas, or the one behind JOIN
RECURSIVE NamesFrom(_, _, _)
NamesFrom(tokens, j, one) ==
    IF j > Len(tokens) THEN <<>>
    ELSE LET t == tokens[j] IN
         CASE Word(t) /\ t.text \in ClauseBoundary -> <<>>
           [] Word(t) /\ t.text \notin ClauseBoundary ->
                <<t.text>> \o (IF one THEN <<>> ELSE NamesFrom(tokens, j + 1, one))
           [] t.kind = "Symbol" /\ t.text # "," -> <<>>
           [] OTHER -> NamesFrom(tokens, j + 1, one)

NamesAt(tokens, i) ==
    CASE ~Word(tokens[i]) -> <<>>
      [] tokens[i].text = "INTO" -> IF i < Len(tokens) /\ Word(tokens[i + 1]) THEN <<tokens[i + 1].text>> ELSE <<>>
      [] tokens[i].text \in {"FROM", "JOIN"} -> NamesFrom(tokens, i + 1, tokens[i].text = "JOIN")
      [] OTHER -> <<>>
build_completion_scope(tokens) == Distinct(FlattenSeq([i \in DOMAIN tokens |-> NamesAt(tokens, i)]))

----------------------------------------------------------------------------
(* What stands at the cursor: resolve_context, catalog_completion_provider.  *)
\* the mutant lets a stray bracket leave the depth below zero
InsertStepMut(state, t) ==
    LET saw == state.saw \/ (Word(t) /\ t.text = "VALUES") IN
    CASE Is(t, "(") -> [saw |-> saw, list |-> state.list \/ ~saw, depth |-> state.depth + 1]
      [] Is(t, ")") -> [saw |-> saw, list |-> state.list /\ state.depth > 1, depth |-> state.depth - 1]
      [] OTHER      -> [state EXCEPT !.saw = saw]
InsertStep(state, t) ==
    LET saw == state.saw \/ (Word(t) /\ t.text = "VALUES") IN
    CASE Is(t, "(") -> [saw |-> saw, list |-> state.list \/ ~saw, depth |-> state.depth + 1]
      [] Is(t, ")") -> [saw |-> saw, list |-> state.list /\ state.depth > 1,
                        depth |-> IF state.depth > 1 THEN state.depth - 1 ELSE 0]
      [] OTHER      -> [state EXCEPT !.saw = saw]
Insert(tokens) == FoldLeft(InsertStep, [saw |-> FALSE, list |-> FALSE, depth |-> 0], tokens)

ClauseWords == {"SELECT", "FROM", "JOIN", "WHERE", "ON", "GROUP", "ORDER", "VALUES", "SET", "UPDATE", "CREATE", "DELETE"}
LastOf(tokens, texts) == Max({0} \cup {i \in DOMAIN tokens : Word(tokens[i]) /\ tokens[i].text \in texts})

\* behind FROM or JOIN: a table is due when none is there yet or a comma ended
TableDue(tokens) ==
    LET listed == SelectInSeq(tokens, LAMBDA t : Word(t) /\ t.text \in {"WHERE", "GROUP", "ORDER", "JOIN", "INNER", "ON"})
        list   == IF listed = 0 THEN tokens ELSE SubSeq(tokens, 1, listed - 1)
        marks  == SelectSeq(list, LAMBDA t : Word(t) \/ Is(t, ","))
    IN  (\A i \in DOMAIN list : ~Word(list[i])) \/ (marks # <<>> /\ Is(Last(marks), ","))

resolve_context(tokens, partial) ==
    LET into   == LastOf(tokens, {"INTO"})
        state  == Insert(SubSeq(tokens, into + 2, Len(tokens)))
        clause == LastOf(tokens, ClauseWords)
        word   == IF clause = 0 THEN "" ELSE tokens[clause].text
    IN  CASE partial.qualifier # "" -> [kind |-> "ColumnName", table |-> partial.qualifier]
          [] partial.qualifier = "" /\ into > 0 /\ into < Len(tokens) /\ Word(tokens[into + 1]) ->
               [kind  |-> IF state.list THEN "InsertColumns"
                          ELSE IF state.depth > 0 /\ state.saw THEN "InsertValues" ELSE "TableName",
                table |-> tokens[into + 1].text]
          [] OTHER ->
               [kind  |-> CASE word = "VALUES" -> "InsertValues"
                            [] word \in {"FROM", "JOIN"} ->
                                 IF TableDue(SubSeq(tokens, clause + 1, Len(tokens))) THEN "TableName" ELSE "Unknown"
                            [] word \in {"SELECT", "WHERE", "ON", "GROUP", "ORDER", "SET"} -> "ColumnName"
                            [] OTHER -> "Unknown",
                table |-> ""]

----------------------------------------------------------------------------
(* Candidates. A text is a sequence of one name, or of two when a column is  *)
(* qualified by its table.                                                   *)
Matches(partial, name) == partial.text = "" \/ <<partial.text, name>> \in PrefixOf
\* a half-typed word with a qualifier matches no keyword
MatchesKeyword(partial, name) == partial.qualifier = "" /\ Matches(partial, name)

Item(text, kind, score) == [text |-> text, kind |-> kind, score |-> score]
\* the mutant forgets that the same name may have been added before
add_itemMut(items, item) == Append(items, item)
add_item(items, item) ==
    IF \E i \in DOMAIN items : items[i].text = item.text /\ items[i].kind = item.kind THEN items ELSE Append(items, item)
AddAll(items, new) == FoldLeft(LAMBDA acc, item : add_item(acc, item), items, new)

Gate(d) ==
    /\ d.kind \in {"Keyword", "Type"} => d.text \notin Forbidden
    /\ d.kind = "Type" => d.text \in Types
    /\ d.kind = "Keyword" => d.text \in Keywords \cup {"NULL"}

complete_grammar(expected, extra, partial) ==
    LET known == SelectSeq(expected, LAMBDA s : s \in DOMAIN DisplayTable)
        shown == SelectSeq([i \in DOMAIN known |-> DisplayTable[known[i]]],
                           LAMBDA d : Gate(d) /\ MatchesKeyword(partial, d.text))
        first == [i \in DOMAIN shown |-> Item(<<shown[i].text>>, shown[i].kind, 10)]
        more  == SelectSeq(extra, LAMBDA w : w \notin Forbidden /\ w \in Keywords /\ MatchesKeyword(partial, w))
        seen  == {first[i].text : i \in DOMAIN first}
        rest  == SelectSeq(more, LAMBDA w : <<w>> \notin seen)
    IN  Distinct(first) \o Distinct([i \in DOMAIN rest |-> Item(<<rest[i]>>, "Keyword", 12)])

ColumnsOf(table, partial, qualify) ==
    IF table \notin DOMAIN Catalog THEN <<>>
    ELSE LET columns == SelectSeq(Catalog[table], LAMBDA c : Matches(partial, c))
         IN  [i \in DOMAIN columns |->
                 Item(IF qualify THEN <<table, columns[i]>> ELSE <<columns[i]>>, "Column", 22)]

complete_catalog(tokens, scope, expected, partial, items) ==
    LET at == resolve_context(tokens, partial) IN
    CASE "ID" \notin Range(expected) /\ at.kind # "ColumnName" -> items
      [] OTHER ->
         CASE at.kind = "TableName" ->
                LET named == SelectSeq(TableOrder, LAMBDA t : Matches(partial, t))
                IN  AddAll(items, [i \in DOMAIN named |-> Item(<<named[i]>>, "Table", 20)])
           [] at.kind = "InsertColumns" -> AddAll(items, ColumnsOf(at.table, partial, FALSE))
           [] at.kind = "InsertValues" ->
                AddAll(items, <<Item(<<"NULL">>, "Literal", 15), Item(<<"''">>, "Literal", 14)>>)
           [] at.kind = "ColumnName" ->
                IF at.table # "" THEN AddAll(items, ColumnsOf(at.table, partial, FALSE))
                ELSE AddAll(items, FlattenSeq([i \in DOMAIN scope |-> ColumnsOf(scope[i], partial, Len(scope) > 1)]))
           [] OTHER -> items

Position(name) == CHOOSE i \in DOMAIN NameOrder : NameOrder[i] = name
TextBefore(a, b) ==
    \/ Position(a[1]) < Position(b[1])
    \/ a[1] = b[1] /\ Len(a) < Len(b)
    \/ a[1] = b[1] /\ Len(a) = 2 /\ Len(b) = 2 /\ Position(a[2]) < Position(b[2])
ItemBefore(a, b) == a.score > b.score \/ (a.score = b.score /\ TextBefore(a.text, b.text))
\* the mutant trims before it sorts
sort_and_trimMut(items, max) == SortSeq(SubSeq(items, 1, IF max < Len(items) THEN max ELSE Len(items)), ItemBefore)
sort_and_trim(items, max) ==
    LET sorted == SortSeq(items, ItemBefore) IN SubSeq(sorted, 1, IF max < Len(sorted) THEN max ELSE Len(sorted))

\* keywords follow the style most keywords of the statement are typed in
prefer_lowercase(tokens) ==
    LET typed(style) == {i \in DOMAIN tokens : Word(tokens[i]) /\ tokens[i].text \in Keywords /\ tokens[i].style = style}
    IN  Cardinality(typed("lower")) > Cardinality(typed("upper"))

PartialTokens(partial) ==
    LET word(w) == IF w = "" THEN <<>> ELSE <<[kind |-> "Word", text |-> w, style |-> "mixed"]>>
    IN  IF partial.qualifier = "" THEN word(partial.text)
        ELSE word(partial.qualifier) \o <<[kind |-> "Symbol", text |-> "."]>> \o word(partial.text)

----------------------------------------------------------------------------
(* The continuation the model proposes: model_completion_validator.cpp. The  *)
(* raw answer also holds line breaks, markdown fences, special marks and a   *)
(* "Here is" preamble.                                                       *)
Mark(t, text) == t.kind = "Mark" /\ t.text = text
Newline(t) == t.kind = "Newline"

RECURSIVE DropSpecials(_)
DropSpecials(raw) ==
    LET open  == SelectInSeq(raw, LAMBDA t : Mark(t, "<|"))
        tail  == SubSeq(raw, open + 1, Len(raw))
        close == SelectInSeq(tail, LAMBDA t : Mark(t, "|>"))
    IN  CASE open = 0 -> raw
          [] open > 0 /\ close = 0 -> SubSeq(raw, 1, open - 1)
          [] OTHER -> SubSeq(raw, 1, open - 1) \o DropSpecials(SubSeq(tail, close + 1, Len(tail)))

RECURSIVE DropFenceLines(_)
DropFenceLines(text) ==
    LET break == SelectInSeq(text, Newline)
        line  == IF break = 0 THEN text ELSE SubSeq(text, 1, break)
        kept  == IF \E i \in DOMAIN line : Mark(line[i], "fence") THEN <<>> ELSE line
    IN  IF break = 0 THEN kept ELSE kept \o DropFenceLines(SubSeq(text, break + 1, Len(text)))

DropPreamble(text) ==
    LET break == SelectInSeq(text, Newline) IN
    IF text = <<>> \/ ~Mark(text[1], "here is") THEN text
    ELSE IF break = 0 THEN <<>> ELSE SubSeq(text, break + 1, Len(text))

\* the tokens of what is left once the marks are gone and spaces trimmed
clean(raw) == SelectSeq(DropPreamble(DropFenceLines(DropSpecials(raw))), LAMBDA t : ~Newline(t))

UpTo(text, stops) == IF stops = {} THEN text ELSE SubSeq(text, 1, Min(stops) - 1)
First(text, n) == SubSeq(text, 1, IF n < Len(text) THEN n ELSE Len(text))

catalog_identifiers_valid(text) ==
    \A i \in 1 .. Len(text) - 2 :
        (Word(text[i]) /\ Is(text[i + 1], ".") /\ Word(text[i + 2]))
            => text[i].text \in DOMAIN Catalog /\ text[i + 2].text \in Range(Catalog[text[i].text])

\* the mutant asks only the parser
longest_valid_prefixMut(text, reads) == First(text, reads)
\* reads: the number of tokens of the continuation the parser takes
longest_valid_prefix(text, reads) ==
    LET good == {n \in 1 .. Len(text) : n <= reads /\ catalog_identifiers_valid(First(text, n))}
    IN  IF good = {} THEN <<>> ELSE First(text, Max(good))

validate(raw, reads) ==
    LET short   == First(clean(raw), MaxModelTokens)
        one     == UpTo(short, {i \in DOMAIN short : Is(short[i], ";")})
        allowed == UpTo(one, {i \in DOMAIN one : Word(one[i]) /\ one[i].text \in Forbidden})
        parsed  == IF Len(allowed) <= reads THEN allowed ELSE longest_valid_prefix(allowed, reads)
    IN  IF catalog_identifiers_valid(parsed) THEN parsed ELSE longest_valid_prefix(parsed, reads)

(* The tables described to the model: model_context_builder.cpp.             *)
\* the mutant lists the whole catalogue first
SchemaTablesMut(scope) == First(Distinct(TableOrder \o scope), MaxSchemaTables)
SchemaTables(scope) ==
    LET named == First(scope, MaxSchemaTables)
        more  == SelectSeq(TableOrder, LAMBDA t : t \notin Range(named))
    IN  First(named \o more, MaxSchemaTables)

----------------------------------------------------------------------------
Editing == [stage |-> "edit"]
CompletionInit == lead \in Starts /\ added = 0 /\ request = Editing /\ response = Editing

AddToken ==
    /\ response.stage = "edit" /\ added < MaxTokens
    /\ \E t \in Vocabulary : lead' = Append(lead, t)
    /\ added' = added + 1 /\ UNCHANGED <<request, response>>

\* CompletionEngine::complete up to the model
Respond(req) ==
    LET full     == lead \o PartialTokens(req.partial) \o req.behind
        scope    == build_completion_scope(full)
        extra    == SelectSeq(Structural, LAMBDA w : MatchesKeyword(req.partial, w) /\ w \in req.view.takes)
        grammar  == complete_grammar(req.view.expected, extra, req.partial)
        items    == sort_and_trim(complete_catalog(lead, scope, req.view.expected, req.partial, grammar),
                                  IF req.max = 0 THEN 12 ELSE req.max)
        strong   == req.partial # [qualifier |-> "", text |-> ""] /\ Len(items) = 1 /\ items[1].kind = "Keyword"
    IN  IF ~req.view.valid THEN [stage |-> "done", items |-> <<>>, lower |-> FALSE, schema |-> <<>>, ghost |-> <<>>]
        ELSE [stage  |-> IF req.want /\ full # <<>> /\ ~strong THEN "model" ELSE "done",
              items  |-> items, lower |-> prefer_lowercase(full), schema |-> SchemaTables(scope), ghost |-> <<>>]
Complete ==
    /\ response.stage = "edit"
    /\ \E partial \in Partials, behind \in Endings, view \in ParserViews, max \in ItemLimits, want \in BOOLEAN :
          request' = [partial |-> partial, behind |-> behind, view |-> view, max |-> max, want |-> want]
    /\ response' = Respond(request')
    /\ UNCHANGED <<lead, added>>

\* the model is silent, or its answer goes through the validator
ModelAnswers ==
    /\ response.stage = "model"
    /\ \/ response' = [response EXCEPT !.stage = "done"] /\ UNCHANGED request
       \/ added <= MaxAnswered /\ \E raw \in Continuations, reads \in 0 .. MaxModelTokens :
             /\ \A i \in DOMAIN First(clean(raw), reads) : clean(raw)[i].kind # "Mark"
             /\ response' = [response EXCEPT !.stage = "done", !.ghost = validate(raw, reads)]
             /\ request' = [request EXCEPT !.view = [raw |-> raw, reads |-> reads]]
    /\ UNCHANGED <<lead, added>>

CompletionNext == AddToken \/ Complete \/ ModelAnswers

----------------------------------------------------------------------------
Items == response.items
Named(tokens) ==
    {tokens[j].text : j \in {j \in DOMAIN tokens : Word(tokens[j]) /\ \E i \in 1 .. j - 1 :
        /\ Word(tokens[i]) /\ tokens[i].text \in {"FROM", "JOIN", "INTO"}
        /\ \A k \in i + 1 .. j - 1 : ~(Word(tokens[k]) /\ tokens[k].text \in {"WHERE", "GROUP", "ON", "SET", "VALUES"})}}

(* What a response offers is sound: no candidate twice, the highest scores   *)
(* first and nothing better cut off, no word outside the dialect, only       *)
(* tables of the catalogue, and only columns of tables of the catalogue that *)
(* the statement names, in front of the cursor or behind it, or that qualify *)
(* the half-typed word.                                                      *)
CandidatesAreSound ==
    response.stage # "edit" =>
        LET full   == lead \o PartialTokens(request.partial) \o request.behind
            tables == DOMAIN Catalog \cap (Named(full) \cup {request.partial.qualifier})
        IN  /\ \A i, j \in DOMAIN Items : i < j => Items[i].score >= Items[j].score
                                               /\ (Items[i].text # Items[j].text \/ Items[i].kind # Items[j].kind)
            /\ \A i \in DOMAIN Items :
                 LET text == Items[i].text IN
                 CASE Items[i].kind = "Table"  -> text[1] \in DOMAIN Catalog
                   [] Items[i].kind = "Column" -> IF Len(text) = 2 THEN text[1] \in tables /\ text[2] \in Range(Catalog[text[1]])
                                                  ELSE \E t \in tables : text[1] \in Range(Catalog[t])
                   [] OTHER -> text[1] \notin Forbidden

(* A table or a column the catalogue has for the cursor is not lost to the   *)
(* limit on the number of candidates while a keyword is kept: what is cut    *)
(* off never scores above what stays (completion_engine.cpp:170).            *)
TheBestAreKept ==
    (response.stage # "edit" /\ Items # <<>>) =>
        LET req  == [request EXCEPT !.max = 12]
            all  == IF "valid" \in DOMAIN request.view THEN complete_catalog(lead,
                        build_completion_scope(lead \o PartialTokens(req.partial) \o req.behind),
                        req.view.expected, req.partial, <<>>) ELSE <<>>
        IN  \A i \in DOMAIN all : all[i] \in Range(Items) \/ all[i].score <= Items[Len(Items)].score

Unclosed(tokens) ==
    {i \in DOMAIN tokens : Is(tokens[i], "(") /\ \A n \in i + 1 .. Len(tokens) :
        LET part == SubSeq(tokens, i, n) IN
        Len(SelectSeq(part, LAMBDA t : Is(t, "("))) > Len(SelectSeq(part, LAMBDA t : Is(t, ")")))}

(* Behind INSERT INTO t the columns of t are offered exactly inside a        *)
(* bracket opened before VALUES, and values exactly inside one opened after  *)
(* it, whatever brackets were closed or closed too often in between          *)
(* (catalog_completion_provider.cpp:147).                                    *)
InsertListIsBracketed ==
    LET into  == LastOf(lead, {"INTO"})
        list  == SubSeq(lead, into + 2, Len(lead))
        value == SelectInSeq(list, LAMBDA t : Word(t) /\ t.text = "VALUES")
        kind  == resolve_context(lead, [qualifier |-> "", text |-> ""]).kind
    IN  (into > 0 /\ into < Len(lead) /\ Word(lead[into + 1])) =>
            kind = IF Unclosed(list) = {} THEN "TableName"
                   ELSE IF value = 0 \/ Min(Unclosed(list)) < value THEN "InsertColumns" ELSE "InsertValues"

Sound(text, reads) ==
    /\ Len(text) <= reads /\ Len(text) <= MaxModelTokens
    /\ \A i \in DOMAIN text : ~Is(text[i], ";") /\ text[i].text \notin Forbidden
    /\ \A i \in 1 .. Len(text) - 2 :
          (Word(text[i]) /\ Is(text[i + 1], ".") /\ Word(text[i + 2]))
              => text[i].text \in DOMAIN Catalog /\ text[i + 2].text \in Range(Catalog[text[i].text])

(* The continuation shown is the longest beginning of the model's answer     *)
(* that the parser reads, that stays in one statement and in the dialect,    *)
(* and whose qualified columns exist; an answer with no such beginning shows *)
(* nothing (model_completion_validator.cpp:241).                             *)
GhostIsTheLongestSound ==
    (response.stage = "done" /\ "raw" \in DOMAIN request.view) =>
        LET text == clean(request.view.raw)
            good == {n \in 0 .. Len(text) : Sound(SubSeq(text, 1, n), request.view.reads)}
        IN  response.ghost = SubSeq(text, 1, Max(good))

(* The schema shown to the model stays within its limit, repeats no table    *)
(* and leaves out no table of the statement while it describes another one   *)
(* (model_context_builder.cpp:103).                                          *)
SchemaCoversTheStatement ==
    (response.stage # "edit" /\ response.schema # <<>>) =>
        LET scope == build_completion_scope(lead \o PartialTokens(request.partial) \o request.behind)
        IN  /\ Len(response.schema) <= MaxSchemaTables
            /\ Cardinality(Range(response.schema)) = Len(response.schema)
            /\ Range(scope) \subseteq Range(response.schema) \/ Range(response.schema) \subseteq Range(scope)

(* What is offered at the cursor is sound, and nothing better was left out;  *)
(* the model is shown the tables of the statement and its answer is cut to   *)
(* the part that can be used.                                                *)
CompletionIsSound ==
    /\ CandidatesAreSound /\ TheBestAreKept /\ InsertListIsBracketed
    /\ GhostIsTheLongestSound /\ SchemaCoversTheStatement
=============================================================================
