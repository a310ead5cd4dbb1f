-------------------------------- MODULE Text ---------------------------------
(***************************************************************************)
(* The pure functions of SqlText and Codec over bounded inputs: an input   *)
(* grows by one part at a time, and each invariant is about one kind of    *)
(* input.                                                                  *)
(***************************************************************************)
EXTENDS SqlText, Codec

CONSTANTS MaxText, MaxArgs, MaxStatements, MaxFrames, MaxBody, MaxElements,  \* bounds of the inputs
          SqlCharacters, Values, Statements, ArrayElements               \* what they are made of

\* A sequence, whatever it is made of.
IsList(s) == s \in Seq(ToSet(s))

\* A value of Go.  A big.Rat is in lowest terms: some power of ten makes it
\* whole only if its denominator has no other factors than 2 and 5, and then
\* the scale of FiniteDecimalScale is one.
IsGoValue(v) ==
  /\ v.type \in {"string", "word", "decimal", "rat", "real", "struct"}
  /\ v.type = "string" => IsList(v.text)
  /\ v.type = "word" => v.word \notin {Quote, Control}
  /\ v.type = "decimal" => v.num \in Int /\ v.denom = 1
  /\ v.type = "rat" =>
       LET scale == FiniteDecimalScale(v.denom) IN
       /\ v.num \in Int /\ v.denom \in Nat \ {0}
       /\ HasForm(v) => scale.ok
       /\ scale.ok => scale.is \in 0..v.denom /\ 10 ^ scale.is % v.denom = 0

\* A statement that no script may have.
Barred(s) == StatementText(s) = <<>> \/ FirstField(StatementText(s)) = <<Control>>

\* A statement of a script closes its literals and leaves the block alone.
IsStatement(s) ==
  /\ IsList(s.sql) /\ IsList(s.args) /\ \A v \in ToSet(s.args) : IsGoValue(v)
  /\ ~Barred(s) => LET read == Lexemes(StatementText(s)) IN read.ok /\ Control \notin ToSet(read.is)

\* A length fits into the header, and an element is one of a JSON array.
ASSUME TextAssumption ==
  /\ MaxBody \in Nat /\ Fits(MaxBody)
  /\ \A e \in ArrayElements : e \in Seq(STRING) /\ JsonElement(e)
  /\ \A v \in Values : IsGoValue(v)
  /\ \A s \in Statements : IsStatement(s)

VARIABLE input

Init ==
  input \in [is : {"sql"}, sql : {<<>>}, args : {<<>>}]
         \cup [is : {"script"}, statements : {<<>>}]
         \cup [is : {"frames"}, version : {Version, Version + 1}, frames : {<<>>}]
         \cup [is : {"bytes"}, elements : {<<>>}]

MoreText ==
  /\ input.is = "sql" /\ Len(input.sql) < MaxText /\ input.args = <<>>
  /\ \E c \in SqlCharacters : input' = [input EXCEPT !.sql = Append(@, c)]

MoreArgs ==
  /\ input.is = "sql" /\ Len(input.args) < MaxArgs
  /\ \E v \in Values : input' = [input EXCEPT !.args = Append(@, v)]

MoreStatements ==
  /\ input.is = "script" /\ Len(input.statements) < MaxStatements
  /\ \E s \in Statements : input' = [input EXCEPT !.statements = Append(@, s)]

\* A body of ones looks like a header of this version.
MoreFrames ==
  /\ input.is = "frames" /\ Len(input.frames) < MaxFrames
  /\ \E tag \in {tagRequest, tagResponse, tagPing}, n \in 0..MaxBody, b \in {0, 1} :
       input' = [input EXCEPT !.frames = Append(@, [tag |-> tag, body |-> [i \in 1..n |-> b]])]

MoreElements ==
  /\ input.is = "bytes" /\ Len(input.elements) < MaxElements
  /\ \E e \in ArrayElements : input' = [input EXCEPT !.elements = Append(@, e)]

Next == MoreText \/ MoreArgs \/ MoreStatements \/ MoreFrames \/ MoreElements

Spec == Init /\ [][Next]_input

-----------------------------------------------------------------------------
\* BindParams, SQLLiteral, decimalText and BuildTransactionScript: what the
\* server reads from a bound text is the statement, or the script, with the
\* values in their places.
BindsFaithfully ==
  /\ input.is = "sql" => BindIsFaithful(input.sql, input.args) /\ ParamsAreAlike(input.sql, input.args)
  /\ input.is = "script" => ScriptIsFaithful(input.statements)

\* writeFrame, readFrame, byteList and decodeByteList: what is read is what
\* was written, or is refused.
WireIsFaithful ==
  /\ input.is = "frames" => FramesSurvive(input.version, input.frames)
  /\ input.is = "bytes" => BytesSurvive(input.elements)

\* buildTransactionRequest: the arguments of a statement are bound to its own
\* placeholders.
ScriptKeepsArgs == input.is = "script" => ArgsStayWithTheirStatement(input.statements)
=============================================================================
