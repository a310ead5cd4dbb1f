-------------------------------- MODULE MCText -------------------------------
(***************************************************************************)
(* Inputs for TLC.                                                         *)
(***************************************************************************)
EXTENDS Text

Characters == {Quote, Mark, Space, Letter}

Strings == {<<>>, <<Quote>>, <<Mark>>, <<Quote, Quote>>, <<Letter, Quote>>}

GoValues ==
  [type : {"string"}, text : Strings]
    \cup [type : {"word"}, word : {<<"NULL">>, <<"7">>}]
    \cup [type : {"decimal"}, plain : BOOLEAN, num : {15}, denom : {1}]
    \cup [type : {"rat"}, num : {1, 7}, denom : {6, 8, 20, 25}]
    \cup {[type |-> "real"], [type |-> "struct"]}

FewValues == {[type |-> "word", word |-> <<"7">>], [type |-> "string", text |-> <<Semicolon, Quote, Mark>>]}

Texts ==
  {<<>>, <<Space, Control>>, <<Letter, Semicolon>>, <<Quote, Control, Quote, Semicolon>>,
   <<Letter, Space, Mark>>, <<Mark, Space, Quote, Mark, Quote, Space, Mark, Space, Semicolon, Space>>}

FewStatements == [sql : Texts, args : UNION {[1..n -> FewValues] : n \in 0..2}]

\* Bytes and their neighbours, spaces, and JSON that is no byte.
JsonElements ==
  {<<"0">>, <<"9">>, <<"2", "5", "5">>, <<"2", "5", "6">>, <<"3", "0", "0", "0">>, <<" ", "1", "0", " ">>,
   <<"-", "1">>, <<"1", ".", "5">>, <<"[", "1", "]">>, <<"null">>, <<"s">>}
=============================================================================
