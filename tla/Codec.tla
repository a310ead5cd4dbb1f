------------------------------- MODULE Codec ---------------------------------
(***************************************************************************)
(* The bytes of a connection (src/wire.go): frames with a length in their  *)
(* header and a ceiling for each tag, and byte strings carried as JSON     *)
(* arrays of numbers.  When a read waits, is cut off or meets its deadline *)
(* is a matter of Exchange; here a stream is all there will be.            *)
(*                                                                         *)
(* The sizes are constants, to be instantiated by small ones.              *)
(***************************************************************************)
EXTENDS Integers, SequencesExt

CONSTANTS Byte,                 \* 256: the values of a byte of the length
          Width,                \* 4: the bytes of the length
          MaxFrameSize,         \* 16 MiB
          MaxControlFrameSize   \* 64 KiB

\* n without its last i bytes.
Shifted(n) ==
  LET over[i \in 0..Width] == IF i = 0 THEN n ELSE over[i - 1] \div Byte
  IN  over

\* The bytes of the length can hold n.
Fits(n) == Shifted(n)[Width] = 0

ASSUME CodecAssumption ==
  /\ Byte \in Nat \ {0, 1} /\ Width \in Nat \ {0}
  /\ MaxControlFrameSize \in Nat /\ MaxFrameSize \in Nat
  /\ MaxControlFrameSize <= MaxFrameSize /\ Fits(MaxFrameSize)

Malformed == [ok |-> FALSE]
Value(v) == [ok |-> TRUE, is |-> v]

tagRequest == 2
tagResponse == 3
tagPing == 4

Version == 1
HeaderSize == 2 + Width

-----------------------------------------------------------------------------
(* Frames.                                                                 *)

MaxPayloadFor(tag) == IF tag \in {tagRequest, tagResponse} THEN MaxFrameSize ELSE MaxControlFrameSize

\* The last bytes of n, from the most significant one on, and what they say.
Bytes(n) == [i \in 1..Width |-> Shifted(n)[Width - i] % Byte]

Number(bytes) ==
  LET upTo[i \in 0..Len(bytes)] == IF i = 0 THEN 0 ELSE upTo[i - 1] * Byte + bytes[i]
  IN  upTo[Len(bytes)]

\* uint32(n).
Uint(n) == Number(Bytes(n))

\* A frame is [tag, body].  Only a REQUEST may be written above its ceiling.
WriteFrame(version, f) ==
  IF f.tag # tagRequest /\ Uint(Len(f.body)) > MaxControlFrameSize
    THEN Malformed
    ELSE Value(<<version, f.tag>> \o Bytes(Len(f.body)) \o f.body)

\* A header, a version and a length that are not refused, and a whole body.
ReadFrame(stream) ==
  LET length == Number(SubSeq(stream, 3, HeaderSize)) IN
  IF \/ Len(stream) < HeaderSize
     \/ stream[1] > Version
     \/ length > MaxPayloadFor(stream[2])
     \/ Len(stream) < HeaderSize + length
    THEN Malformed
    ELSE Value([frame |-> [tag |-> stream[2], body |-> SubSeq(stream, HeaderSize + 1, HeaderSize + length)],
                rest |-> SubSeq(stream, HeaderSize + length + 1, Len(stream))])

-----------------------------------------------------------------------------
(* Byte strings.  Texts are sequences of characters.                       *)

Digit == <<"0", "1", "2", "3", "4", "5", "6", "7", "8", "9">>
DigitOf == [c \in ToSet(Digit) |-> (CHOOSE d \in 1..10 : Digit[d] = c) - 1]

Decimal(n) ==
  (IF n > 99 THEN <<Digit[n \div 100 + 1]>> ELSE <<>>)
    \o (IF n > 9 THEN <<Digit[((n \div 10) % 10) + 1]>> ELSE <<>>) \o <<Digit[(n % 10) + 1]>>

\* Elements between brackets, with commas.
Join(elements) ==
  <<"[">> \o FlattenSeq([i \in DOMAIN elements |-> (IF i > 1 THEN <<",">> ELSE <<>>) \o elements[i]])
    \o <<"]">>

ByteList(b) == Join([i \in DOMAIN b |-> Decimal(b[i])])

\* White space.
Blank == {" "}

Null == <<"null">>
Nil == [ok |-> TRUE, isNil |-> TRUE]

\* One character, or the end, of what is between the brackets.
Flush(st) ==
  IF st.digits = 0 THEN [st EXCEPT !.ok = FALSE]
                   ELSE [st EXCEPT !.out = Append(@, st.n), !.n = 0, !.digits = 0]

\* Faulty: what is above 255 is masked.
TakeMasked(st, c) ==
  CASE c = ","               -> Flush(st)
    [] c = " "               -> st
    [] c \in DOMAIN DigitOf  -> [st EXCEPT !.n = (st.n * 10 + DigitOf[c]) % 256, !.digits = @ + 1]
    [] OTHER                 -> [st EXCEPT !.ok = FALSE]

Take(st, c) ==
  CASE c = ","               -> Flush(st)
    [] c = " "               -> st
    [] c \in DOMAIN DigitOf  ->
         LET n == st.n * 10 + DigitOf[c]
         IN  [st EXCEPT !.n = n, !.digits = @ + 1, !.ok = n <= 255]
    [] OTHER                 -> [st EXCEPT !.ok = FALSE]

\* What has been made of the characters between the brackets.
Scanned(s) ==
  LET scan[i \in 0..Len(s)] ==
        IF i = 0 THEN [out |-> <<>>, n |-> 0, digits |-> 0, ok |-> TRUE]
        ELSE LET was == scan[i - 1] IN IF was.ok THEN Take(was, s[i]) ELSE was
  IN  scan[Len(s)]

\* Null and nothing are no bytes at all; [] is an empty byte string.
DecodeByteList(raw) ==
  LET s == SubSeq(raw, 2, Len(raw) - 1)
      end == Flush(Scanned(s))
  IN  IF raw \in {<<>>, Null} THEN Nil
      ELSE IF raw[1] # "[" \/ Last(raw) # "]" THEN Malformed
      ELSE IF ToSet(s) \subseteq Blank THEN Value(<<>>)
      ELSE IF Scanned(s).ok /\ end.ok THEN Value(end.out)
      ELSE Malformed

-----------------------------------------------------------------------------
\* What a peer reads from n frames of a stream, until one is malformed.
ReadFrames(stream, n) ==
  LET read[i \in 0..n] ==
        IF i = 0 THEN [frames |-> <<>>, rest |-> stream, ok |-> TRUE]
        ELSE LET was == read[i - 1]
                 next == ReadFrame(was.rest)
             IN  IF was.ok /\ next.ok
                   THEN [frames |-> Append(was.frames, next.is.frame), rest |-> next.is.rest, ok |-> TRUE]
                   ELSE [was EXCEPT !.ok = FALSE]
  IN  read[n].frames

\* Frames that were written one after the other are read as they are, to the
\* first that is newer than the reader or above its ceiling; wherever the
\* stream is cut, no frame is read that was not written whole.
WrittenSurvive(version, written) ==
  LET stream == FlattenSeq([i \in DOMAIN written |-> WriteFrame(version, written[i]).is])
      refused == {i \in DOMAIN written :
                    version > Version \/ Len(written[i].body) > MaxPayloadFor(written[i].tag)}
      readable == IF refused = {} THEN Len(written) ELSE Min(refused) - 1
  IN  /\ ReadFrames(stream, Len(written)) = SubSeq(written, 1, readable)
      /\ \A cut \in 0..Len(stream) :
           IsPrefix(ReadFrames(SubSeq(stream, 1, cut), Len(written)), written)

\* The elements of s that are not in `left`.
Without(s, left) ==
  LET kept[i \in 0..Len(s)] ==
        IF i = 0 THEN <<>> ELSE IF s[i] \in left THEN kept[i - 1] ELSE Append(kept[i - 1], s[i])
  IN  kept[Len(s)]

FramesSurvive(version, frames) ==
  WrittenSurvive(version, Without(frames, {f \in ToSet(frames) : ~WriteFrame(version, f).ok}))

\* What JSON has between the commas of an array: a number without a sign or a
\* leading zero, or a value with a character that is in no such number.
JsonElement(e) ==
  LET plain == Without(e, Blank)
  IN  \/ \E c \in ToSet(plain) : c \notin DOMAIN DigitOf \cup {","}
      \/ plain # <<>> /\ ToSet(plain) \subseteq DOMAIN DigitOf /\ (Len(plain) > 1 => plain[1] # "0")

\* A byte string comes back as it was sent, empty ones and null kept apart;
\* of any other JSON array the decoder makes no bytes at all.
BytesSurvive(elements) ==
  LET bytes == {Decimal(n) : n \in 0..255}
      plain == [i \in DOMAIN elements |-> Without(elements[i], Blank)]
      got == DecodeByteList(Join(elements))
  IN  /\ got.ok <=> ToSet(plain) \subseteq bytes
      /\ got.ok => got # Nil /\ ByteList(got.is) = Join(plain)
=============================================================================
