------------------------------ MODULE Answers -------------------------------
(***************************************************************************)
(* What the typed commands have in common: the arguments that can be at    *)
(* fault, what a command does with the item it is about, and the decoders  *)
(* that turn the data of a RESPONSE into a result.                         *)
(*                                                                         *)
(* An item is absent, or holds an empty or a full value; it stands for     *)
(* whatever the command is about, and several keys or matches are taken as *)
(* one, present if any of them is.  A result is modelled by its view: the  *)
(* set of facts it leaves possible.  A miss, for one, is the view          *)
(* {"absent"}, and a count of zero leaves "absent" and "no".  A body is    *)
(* what a payload looks like to a decoder:                                 *)
(*   whole   all that was promised        bare  an empty list, or no bytes *)
(*   null    a payload of null            zero  0, false, or an error      *)
(*   hole    an object or entry, its field null                            *)
(*   void    an object without its field, or a list one entry short        *)
(*   odd     JSON of another kind                                          *)
(***************************************************************************)

Items == {"absent", "empty", "full"}

\* "done" and "no": a conditional write took effect, or did not.
Facts == Items \cup {"done", "no"}

Bodies == {"whole", "bare", "null", "hole", "void", "zero", "odd"}

(***************************************************************************)
(* Arguments at fault.  Some are refused before a request is built: an     *)
(* empty list, the zero value of a builder type, a score that is not       *)
(* finite, a negative length, a change of nothing, a parameter no SQL      *)
(* literal exists for.  Others are met by json.Marshal: a zero builder     *)
(* inside another, a number JSON has no form for, an application value it  *)
(* cannot encode.                                                          *)
(***************************************************************************)
Checked == {"list", "builder", "score", "length", "change", "literal"}
Unchecked == {"nested", "number", "value"}

(***************************************************************************)
(* What a command does with its item.  A "trim" may remove it (a purge, an *)
(* expiry, a shorter bound), a "try" writes under a condition, a "swap"    *)
(* writes and gives back what was there.                                   *)
(***************************************************************************)
Deeds == {"read", "write", "try", "swap", "take", "remove", "trim"}

Command(names, does, args, answer) ==
  {[name |-> n, does |-> does, args |-> args, answer |-> answer] : n \in names}

-----------------------------------------------------------------------------
(* Decoders.  `missing` is the body a server sends for an absent item;     *)
(* `reads` the view of each body the decoder takes; `blind` those of them  *)
(* that nobody promised, and that decode all the same (encoding/json       *)
(* leaves the zero value where a field is missing or null).                *)

Present == {"empty", "full"}

\* The status is all that counts: any data will do.
Ack ==
  [form |-> "ack", missing |-> "whole", reads |-> [b \in Bodies |-> Facts], blind |-> Bodies]

\* Faulty: null decodes into no bytes, and so does [].
CacheValueOfNull ==
  [form |-> "value", missing |-> "null", blind |-> {},
   reads |-> [null |-> {"empty"}, bare |-> {"empty"}, whole |-> {"full"}]]

\* A payload of bytes: null is a miss, [] an empty value.
CacheValue ==
  [form |-> "value", missing |-> "null", blind |-> {},
   reads |-> [null |-> {"absent"}, bare |-> {"empty"}, whole |-> {"full"}]]

\* Several of them: null stands for a key that misses, and so does no entry.
CacheValues ==
  [form |-> "value", missing |-> "hole", blind |-> {"null", "void"},
   reads |-> [b \in {"whole", "bare", "null", "hole", "void"} |->
                IF b = "whole" THEN {"full"} ELSE IF b = "bare" THEN {"empty"} ELSE {"absent"}]]

\* A blocking pop: [key, value], or nothing when the wait ran out.  Anything
\* but two values is nothing.
Popped ==
  [form |-> "pair", missing |-> "bare", blind |-> {"null", "hole", "void"},
   reads |-> [b \in {"whole", "bare", "null", "hole", "void"} |->
                IF b = "whole" THEN Present ELSE {"absent"}]]

\* decodeJSON into a struct that says nothing about the item.
Report ==
  [form |-> "report", missing |-> "whole", blind |-> {"hole", "void"},
   reads |-> [b \in {"whole", "bare", "zero", "hole", "void"} |-> Facts]]

\* ... into a count or a flag.
Count ==
  [form |-> "count", missing |-> "zero", blind |-> {"hole", "void"},
   reads |-> [b \in {"whole", "zero", "hole", "void"} |->
                IF b = "whole" THEN Present \cup {"done"} ELSE {"absent", "no"}]]

\* ... into a list, be it of [field, value] pairs, whose length is checked.
List ==
  [form |-> "list", missing |-> "bare", blind |-> {"hole", "void"},
   reads |-> [b \in {"whole", "bare", "hole", "void"} |->
                IF b = "whole" THEN Present ELSE {"absent"}]]

\* ... into a pointer: null means there is none.
Field ==
  [form |-> "field", missing |-> "hole", blind |-> {"void"},
   reads |-> [b \in {"whole", "zero", "hole", "void"} |->
                IF b \in {"whole", "zero"} THEN Present ELSE {"absent"}]]

\* ... into the replies of several operations.  Each is an error or else a
\* success, and an operation whose reply is missing has not failed either.
Results ==
  [form |-> "report", missing |-> "whole", blind |-> {"bare", "hole", "void"},
   reads |-> [b \in {"whole", "zero", "bare", "hole", "void"} |->
                IF b = "zero" THEN {"absent", "no"} ELSE Present \cup {"done"}]]

\* An object, or a null payload for one that is not there.
Node ==
  [form |-> "node", missing |-> "null", blind |-> {"hole", "void"},
   reads |-> [b \in {"whole", "bare", "zero", "null", "hole", "void"} |->
                IF b = "null" THEN {"absent"} ELSE Present]]

\* A list of documents; a null one is a document, a null list is refused.
Documents ==
  [form |-> "list", missing |-> "bare", blind |-> {"hole"},
   reads |-> [b \in {"whole", "bare", "hole"} |-> IF b = "bare" THEN {"absent"} ELSE Present]]

\* The id of what was made, which must not be empty.
Id == [form |-> "report", missing |-> "whole", reads |-> [whole |-> Facts], blind |-> {}]

\* CacheGetFresh: a known state, and a value as text, as hex or not at all.
Fresh ==
  [form |-> "field", missing |-> "hole", blind |-> {},
   reads |-> [hole |-> {"absent"}, whole |-> Present]]

\* A table of rows, which are not there unless they are listed.
Rows ==
  [form |-> "list", missing |-> "bare", blind |-> {"null", "hole", "void"},
   reads |-> [b \in {"whole", "bare", "null", "hole", "void"} |->
                IF b = "whole" THEN Present ELSE {"absent"}]]

\* A rendered export: text, or JSON passed on as it is.
Export ==
  [form |-> "report", missing |-> "whole", reads |-> [b \in Bodies |-> Facts],
   blind |-> {"null", "hole", "void", "odd"}]

\* AdminStatus: a message, or an object passed on as it is.
Status ==
  [form |-> "report", missing |-> "whole", reads |-> [b \in Bodies \ {"odd"} |-> Facts],
   blind |-> {"null", "hole", "void"}]

-----------------------------------------------------------------------------
\* The body a server sends to tell a fact.
Promised(answer, fact) ==
  CASE fact = "absent"                           -> answer.missing
    [] fact = "no"                               -> "zero"
    [] fact = "empty" /\ answer.form = "value"   -> "bare"
    [] OTHER                                     -> "whole"

\* Bodies nobody promised and the decoder refuses.
Strange(answer) == Bodies \ DOMAIN answer.reads

IsAnswer(a) ==
  /\ a.form \in {"ack", "value", "pair", "report", "count", "list", "field", "node"}
  /\ a.missing \in Bodies /\ a.blind \subseteq DOMAIN a.reads
  /\ DOMAIN a.reads \subseteq Bodies /\ \A b \in DOMAIN a.reads : a.reads[b] \subseteq Facts

IsCommand(c) ==
  c.does \in Deeds /\ c.args \subseteq Checked \cup Unchecked /\ IsAnswer(c.answer)
=============================================================================
