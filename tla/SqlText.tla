------------------------------ MODULE SqlText --------------------------------
(***************************************************************************)
(* Statements, their placeholders and the values bound to them             *)
(* (src/sql.go, src/decimal.go): the client-side binding of BindParams,    *)
(* the parameters of a request, and the script of a transaction.           *)
(*                                                                         *)
(* A text is a sequence of characters: quote, placeholder, semicolon,      *)
(* space, and those that stand for a word or a number.  A value of Go is a *)
(* record of its type and of what its rendering depends on.                *)
(***************************************************************************)
EXTENDS Integers, SequencesExt

Quote == <<"'">>
Mark == <<"?">>
Semicolon == <<";">>
Space == <<" ">>
Letter == <<"x">>
Control == <<"BEGIN">>   \* or START, COMMIT, ROLLBACK
Digits(n, scale) == <<"digits", n, scale>>

\* The result of an operation that returns an ArgumentError.
Refused == [ok |-> FALSE]
Ok(result) == [ok |-> TRUE, is |-> result]

-----------------------------------------------------------------------------
(* Values.                                                                 *)

\* How often the prime p divides d.
Multiplicity(p, d) == CHOOSE k \in 0..d : d % p ^ k = 0 /\ d % p ^ (k + 1) # 0

FiniteDecimalScale(denom) ==
  LET twos == Multiplicity(2, denom)
      fives == Multiplicity(5, denom)
  IN  IF denom = 2 ^ twos * 5 ^ fives THEN Ok(IF twos > fives THEN twos ELSE fives) ELSE Refused

\* FloatString(scale) rounds: n / d times 10^scale, to the nearest.
DecimalText(v) ==
  IF v.type = "decimal"
    THEN IF v.plain THEN Ok(Digits(v.num, 0)) ELSE Refused
    ELSE LET scale == FiniteDecimalScale(v.denom) IN
         IF scale.ok
           THEN Ok(Digits((2 * v.num * 10 ^ scale.is + v.denom) \div (2 * v.denom), scale.is))
           ELSE Refused

\* Faulty: as in languages with another escape, nothing is doubled.
QuoteSQLPlain(s) == <<Quote>> \o s \o <<Quote>>

\* strings.ReplaceAll(s, "'", "''")
QuoteSQL(s) ==
  <<Quote>> \o FlattenSeq([i \in DOMAIN s |-> IF s[i] = Quote THEN <<Quote, Quote>> ELSE <<s[i]>>])
    \o <<Quote>>

\* NULL, TRUE and FALSE, integers and finite reals are words of their own;
\* bytes and times are quoted text like strings.
SQLLiteral(v) ==
  CASE v.type = "string"             -> Ok(QuoteSQL(v.text))
    [] v.type \in {"decimal", "rat"} -> LET d == DecimalText(v) IN IF d.ok THEN Ok(QuoteSQL(<<d.is>>)) ELSE Refused
    [] v.type = "word"               -> Ok(<<v.word>>)
    [] v.type \in {"real", "struct"} -> Refused  \* a NaN or an infinity; an unknown type

\* The same values as parameters, in JSON.
SQLParam(v) ==
  CASE v.type \in {"string", "word"} -> Ok(v)
    [] v.type \in {"decimal", "rat"} -> LET d == DecimalText(v) IN IF d.ok THEN Ok(v) ELSE Refused
    [] v.type \in {"real", "struct"} -> Refused

-----------------------------------------------------------------------------
(* BindParams.                                                             *)

\* One character of the loop; `skip` is its i++.
Bind(st, sql, i, args) ==
  LET put(text) == [st EXCEPT !.out = @ \o text] IN
  IF ~st.ok \/ st.skip
    THEN [st EXCEPT !.skip = FALSE]
  ELSE IF sql[i] = Quote /\ st.inString /\ i < Len(sql) /\ sql[i + 1] = Quote
    THEN [put(<<Quote, Quote>>) EXCEPT !.skip = TRUE]
  ELSE IF sql[i] = Quote
    THEN [put(<<Quote>>) EXCEPT !.inString = ~@]
  ELSE IF sql[i] # Mark \/ st.inString
    THEN put(<<sql[i]>>)
  ELSE IF st.next < Len(args) /\ SQLLiteral(args[st.next + 1]).ok
    THEN [put(SQLLiteral(args[st.next + 1]).is) EXCEPT !.next = @ + 1]
    ELSE [st EXCEPT !.ok = FALSE]

BindParams(sql, args) ==
  LET scan[i \in 0..Len(sql)] ==
        IF i = 0 THEN [out |-> <<>>, next |-> 0, inString |-> FALSE, skip |-> FALSE, ok |-> TRUE]
                 ELSE Bind(scan[i - 1], sql, i, args)
      end == scan[Len(sql)]
  IN  IF end.ok /\ ~end.inString /\ end.next = Len(args) THEN Ok(end.out) ELSE Refused

-----------------------------------------------------------------------------
(* Scripts.  A statement is [sql, args].                                   *)

TrimSpace(s) ==
  LET kept == {i \in DOMAIN s : s[i] # Space} IN
  IF kept = {} THEN <<>> ELSE SubSeq(s, Min(kept), Max(kept))

TrimSuffix(s, c) == IF s # <<>> /\ Last(s) = c THEN Front(s) ELSE s

StatementText(s) == TrimSpace(TrimSuffix(TrimSpace(s.sql), Semicolon))

\* strings.Fields(text)[0]
FirstField(text) ==
  LET end == {i \in DOMAIN text : text[i] = Space}
  IN  IF end = {} THEN text ELSE SubSeq(text, 1, Min(end) - 1)

\* BEGIN; ...; COMMIT, and the arguments of all statements in one list.
BuildTransactionRequest(statements) ==
  LET texts == [i \in DOMAIN statements |-> StatementText(statements[i])]
      params == FlattenSeq([i \in DOMAIN statements |-> statements[i].args])
      separated == FlattenSeq([i \in DOMAIN texts |-> texts[i] \o <<Semicolon, Space>>])
  IN  IF statements = <<>> \/ \E t \in ToSet(texts) : t = <<>> \/ FirstField(t) = <<Control>>
        THEN Refused
        ELSE Ok([script |-> <<Control, Semicolon, Space>> \o separated \o <<Control>>, params |-> params])

\* BuildTransactionScript renders them into the script.
BuildTransactionScript(statements) ==
  LET built == BuildTransactionRequest(statements) IN
  IF ~built.ok THEN Refused
  ELSE IF built.is.params = <<>> THEN Ok(built.is.script)
  ELSE BindParams(built.is.script, built.is.params)

\* sqlBody: no arguments, no parameters; else the connection must have the
\* feature, and each must have a form.  The count is left to the server.
SqlBody(sql, args, granted) ==
  IF args # <<>> /\ (~granted \/ \E v \in ToSet(args) : ~SQLParam(v).ok)
    THEN Refused
    ELSE Ok([sql |-> sql, params |-> [i \in DOMAIN args |-> SQLParam(args[i]).is]])

-----------------------------------------------------------------------------
(* The server's tokenizer: literals end at a quote that is not doubled.    *)

\* The lexemes so far, with the literal at hand.
Read(st) == IF st.at = "text" THEN st.done ELSE Append(st.done, <<"literal", st.body>>)

\* A literal is open, or it is closed unless the next character is a quote.
Lex(st, c) ==
  CASE st.at = "text" /\ c = Quote   -> [st EXCEPT !.at = "open", !.body = <<>>]
    [] st.at = "open" /\ c = Quote   -> [st EXCEPT !.at = "closed"]
    [] st.at = "open" /\ c # Quote   -> [st EXCEPT !.body = Append(@, c)]
    [] st.at = "closed" /\ c = Quote -> [st EXCEPT !.at = "open", !.body = Append(@, Quote)]
    [] OTHER                         -> [st EXCEPT !.at = "text", !.done = Append(Read(st), c)]

Lexemes(text) ==
  LET lex[i \in 0..Len(text)] ==
        IF i = 0 THEN [at |-> "text", done |-> <<>>, body |-> <<>>] ELSE Lex(lex[i - 1], text[i])
      end == lex[Len(text)]
  IN  IF end.at = "open" THEN Refused ELSE Ok(Read(end))

\* It binds the k-th placeholder of a text to the k-th parameter, and wants
\* as many of the ones as of the others.
Marks(lexemes) == {i \in DOMAIN lexemes : lexemes[i] = Mark}

NthMark(lexemes, i) == Cardinality({j \in Marks(lexemes) : j <= i})

Arity(text) == Cardinality(Marks(Lexemes(text).is))

-----------------------------------------------------------------------------
\* A lexeme is what the server would have made of the value itself.
Means(lexeme, v) ==
  CASE v.type = "string"             -> lexeme = <<"literal", v.text>>
    [] v.type = "word"               -> lexeme = v.word
    [] v.type \in {"decimal", "rat"} ->
         /\ lexeme[1] = "literal" /\ Len(lexeme[2]) = 1
         /\ LET d == lexeme[2][1] IN d[1] = "digits" /\ d[2] * v.denom = v.num * 10 ^ d[3]
    [] OTHER                         -> FALSE

HasForm(v) ==
  CASE v.type = "decimal"            -> v.plain
    [] v.type = "rat"                -> \E scale \in 0..v.denom : (v.num * 10 ^ scale) % v.denom = 0
    [] OTHER                         -> v.type \notin {"real", "struct"}

\* Placeholders that neither touch each other nor a literal.
StandApart(sql) ==
  \A i \in DOMAIN sql :
    sql[i] = Mark =>
      /\ i > 1 => sql[i - 1] = Space
      /\ i < Len(sql) => sql[i + 1] = Space

\* BindParams refuses what the server could not have bound, and otherwise the
\* server reads from the text what it would have read from the statement with
\* each placeholder's own value in it, and exactly that value.
BindIsFaithful(sql, args) ==
  LET bound == BindParams(sql, args)
      asked == Lexemes(sql)
  IN  /\ bound.ok <=>
           asked.ok /\ Cardinality(Marks(asked.is)) = Len(args) /\ \A v \in ToSet(args) : HasForm(v)
      /\ bound.ok /\ StandApart(sql) =>
           LET got == Lexemes(bound.is) IN
           /\ got.ok /\ Len(got.is) = Len(asked.is)
           /\ \A i \in DOMAIN asked.is :
                IF asked.is[i] = Mark THEN Means(got.is[i], args[NthMark(asked.is, i)])
                                      ELSE got.is[i] = asked.is[i]

\* What BindParams can bind here the server can bind to parameters, on a
\* connection that has the feature and on no other.
ParamsAreAlike(sql, args) ==
  BindParams(sql, args).ok =>
    SqlBody(sql, args, TRUE).ok /\ (SqlBody(sql, args, FALSE).ok <=> args = <<>>)

\* A script of statements each of which has its arguments is these statements
\* bound one by one, in their order, between one BEGIN and one COMMIT.
ScriptIsFaithful(statements) ==
  LET bound == [i \in DOMAIN statements |-> BindParams(StatementText(statements[i]), statements[i].args)]
      script == BuildTransactionScript(statements)
      separated == FlattenSeq([i \in DOMAIN bound |-> bound[i].is \o <<Semicolon, Space>>])
      read == Lexemes(script.is)
  IN  /\ script.ok /\ (\A b \in ToSet(bound) : b.ok) =>
           script.is = <<Control, Semicolon, Space>> \o separated \o <<Control>>
      /\ script.ok => read.ok /\ Cardinality({i \in DOMAIN read.is : read.is[i] = Control}) = 2

\* The server binds each statement of a script it accepts to the arguments
\* that statement was given.
ArgsStayWithTheirStatement(statements) ==
  LET built == BuildTransactionRequest(statements) IN
  built.ok /\ Arity(built.is.script) = Len(built.is.params) =>
    \A s \in ToSet(statements) : Arity(s.sql) = Len(s.args)
=============================================================================
