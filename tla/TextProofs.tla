------------------------------ MODULE TextProofs ------------------------------
(***************************************************************************)
(* Proofs about Codec, SqlText and Text: for every size of the length,     *)
(* every ceiling, every body, every byte string and every array of JSON,   *)
(* frames and byte strings survive the wire or are refused; for every      *)
(* text, all its arguments and all statements of a script, the server      *)
(* reads from what was bound the values in their places, or it was         *)
(* refused.                                                                *)
(*                                                                         *)
(* Functions defined by recursion over 0..n are shown to exist, and to be  *)
(* what is claimed of them, by taking the first number at which they are   *)
(* not.  What a machine makes of a sequence (Walk) is known from what it   *)
(* makes of nothing and of one element more; the sequences of which        *)
(* something is true are collected in a set, and AllSequences shows that   *)
(* the set has them all.                                                   *)
(***************************************************************************)
EXTENDS Text, SequenceTheorems, FiniteSetTheorems, WellFoundedInduction, TLAPS

-----------------------------------------------------------------------------
(* Natural numbers and recursive functions.                                *)

\* A set of naturals that is not empty has a least element.
LEMMA LeastNatural ==
  ASSUME NEW T \in SUBSET Nat, T # {}
  PROVE  \E m \in T : \A n \in T : m <= n
<1> DEFINE R == {p \in Nat \X Nat : p[1] < p[2]}
<1>1. IsWellFoundedOn(R, Nat)
  BY NatLessThanWellFounded DEF OpToRel
<1>2. PICK m \in T : \A n \in T : ~ (<<n, m>> \in R)
  <2> HIDE DEF R
  <2> QED
    BY <1>1, WFMin
<1>3. ASSUME NEW n \in T PROVE m <= n
  <2>1. m \in Nat /\ n \in Nat /\ (<<n, m>> \in R <=> n < m)
    OBVIOUS
  <2> QED
    BY <1>2, <2>1
<1> QED
  BY <1>3

\* A set with 0, and with the successor of each natural in it, has them all.
LEMMA AllNaturals ==
  ASSUME NEW S, 0 \in S, \A n \in Nat : n \in S => n + 1 \in S
  PROVE  \A n \in Nat : n \in S
<1> DEFINE T == Nat \ S
<1> SUFFICES ASSUME T # {} PROVE FALSE
  OBVIOUS
<1>1. PICK m \in T : \A n \in T : m <= n
  <2>1. T \in SUBSET Nat
    OBVIOUS
  <2> HIDE DEF T
  <2> QED
    BY <2>1, LeastNatural
<1>2. m \in Nat \ {0} /\ m - 1 \in Nat
  OBVIOUS
<1>3. m - 1 \in S
  BY <1>1, <1>2
<1> QED
  BY <1>2, <1>3

\* The function that starts from a and goes on by step.
Runs(f, n, a, step) == f = [i \in 0..n |-> IF i = 0 THEN a ELSE step[<<i, f[i - 1]>>]]

\* There is one, with its values where step has them.
LEMMA RunExists ==
  ASSUME NEW S, NEW a \in S, NEW step \in [Nat \X S -> S], NEW n \in Nat
  PROVE  \E f \in [0..n -> S] : Runs(f, n, a, step)
<1> DEFINE Good == {m \in Nat : \E f \in [0..m -> S] : Runs(f, m, a, step)}
<1>1. 0 \in Good
  <2> DEFINE f == [i \in 0..0 |-> a]
  <2>1. f \in [0..0 -> S] /\ Runs(f, 0, a, step)
    BY DEF Runs
  <2> QED
    BY <2>1
<1>2. ASSUME NEW m \in Nat, m \in Good PROVE m + 1 \in Good
  <2>1. PICK f \in [0..m -> S] : Runs(f, m, a, step)
    BY <1>2
  <2> DEFINE g == [i \in 0..m + 1 |-> IF i = m + 1 THEN step[<<i, f[m]>>] ELSE f[i]]
  <2>2. f[m] \in S
    OBVIOUS
  <2>3. g \in [0..m + 1 -> S]
    BY <2>2
  <2>4. ASSUME NEW i \in 0..m + 1 PROVE g[i] = IF i = 0 THEN a ELSE step[<<i, g[i - 1]>>]
    <3>1. CASE i = m + 1
      BY <3>1
    <3>2. CASE i \in 0..m
      BY <2>1, <3>2 DEF Runs
    <3> QED
      BY <3>1, <3>2
  <2>5. Runs(g, m + 1, a, step)
    BY <2>4 DEF Runs
  <2> HIDE DEF g
  <2> QED
    BY <2>3, <2>5
<1>3. n \in Good
  <2> HIDE DEF Good
  <2> QED
    BY <1>1, <1>2, AllNaturals
<1> QED
  BY <1>3

-----------------------------------------------------------------------------
(* The length of a body, and its bytes.                                    *)

\* Dividing by a byte keeps order and loses the remainder.
LEMMA Division ==
  ASSUME NEW a \in Nat
  PROVE  /\ a \div Byte \in Nat /\ a % Byte \in 0..Byte - 1
         /\ ((a \div Byte) * Byte) + (a % Byte) = a
         /\ \A b \in Nat : a <= b => a \div Byte <= b \div Byte
<1>1. Byte \in Nat \ {0}
  BY CodecAssumption
<1> QED
  BY <1>1

\* A byte added behind a number makes a number.
LEMMA NextByte ==
  ASSUME NEW x \in Nat, NEW b \in Nat
  PROVE  x * Byte + b \in Nat
<1>1. Byte \in Nat
  BY CodecAssumption
<1>2. x * Byte \in Nat
  BY <1>1
<1> QED
  BY <1>2

\* Shifted(n) is n, n \div Byte, and so on.
LEMMA ShiftedIs ==
  ASSUME NEW n \in Nat
  PROVE  /\ Shifted(n) \in [0..Width -> Nat]
         /\ Shifted(n)[0] = n
         /\ \A i \in 1..Width : Shifted(n)[i] = Shifted(n)[i - 1] \div Byte
<1> DEFINE step == [p \in Nat \X Nat |-> p[2] \div Byte]
<1> DEFINE Is(f) == f = [i \in 0..Width |-> IF i = 0 THEN n ELSE f[i - 1] \div Byte]
<1>1. step \in [Nat \X Nat -> Nat]
  BY Division
<1>2. PICK f \in [0..Width -> Nat] : Runs(f, Width, n, step)
  <2> HIDE DEF step
  <2> QED
    BY <1>1, RunExists, CodecAssumption
<1>3. Is(f)
  <2>1. ASSUME NEW i \in 0..Width, i # 0 PROVE f[i - 1] \in Nat /\ i \in Nat
    BY <2>1, CodecAssumption
  <2> QED
    BY <1>2, <2>1 DEF Runs
<1>4. Shifted(n) = CHOOSE g : Is(g)
  BY DEF Shifted
<1>5. Is(Shifted(n))
  BY <1>3, <1>4
<1>6. /\ DOMAIN Shifted(n) = 0..Width
      /\ Shifted(n)[0] = n
      /\ \A i \in 1..Width : Shifted(n)[i] = Shifted(n)[i - 1] \div Byte
  BY <1>5, CodecAssumption
<1>7. \A i \in 0..Width : Shifted(n)[i] \in Nat
  <2> DEFINE Good == {i \in Nat : i <= Width => Shifted(n)[i] \in Nat}
  <2>1. 0 \in Good
    BY <1>6
  <2>2. ASSUME NEW i \in Nat, i \in Good PROVE i + 1 \in Good
    <3> SUFFICES ASSUME i + 1 <= Width PROVE Shifted(n)[i + 1] \in Nat
      OBVIOUS
    <3>1. i + 1 \in 1..Width /\ (i + 1) - 1 = i /\ Shifted(n)[i] \in Nat
      BY <2>2, CodecAssumption
    <3>2. Shifted(n)[i + 1] = Shifted(n)[i] \div Byte
      BY <1>6, <3>1
    <3> QED
      BY <3>1, <3>2, Division
  <2>3. \A i \in Nat : i \in Good
    <3> HIDE DEF Good
    <3> QED
      BY <2>1, <2>2, AllNaturals
  <2> QED
    BY <2>3, CodecAssumption
<1> QED
  BY <1>5, <1>6, <1>7

\* What Number makes of the first bytes.
LEMMA NumberIs ==
  ASSUME NEW bytes \in Seq(Nat)
  PROVE  \E upTo \in [0..Len(bytes) -> Nat] :
           /\ Number(bytes) = upTo[Len(bytes)]
           /\ upTo[0] = 0
           /\ \A i \in 1..Len(bytes) : upTo[i] = upTo[i - 1] * Byte + bytes[i]
<1> DEFINE n == Len(bytes)
<1> DEFINE step == [p \in Nat \X Nat |-> IF p[1] \in 1..n THEN p[2] * Byte + bytes[p[1]] ELSE 0]
<1> DEFINE Is(f) == f = [i \in 0..n |-> IF i = 0 THEN 0 ELSE f[i - 1] * Byte + bytes[i]]
<1>1. n \in Nat /\ \A i \in 1..n : bytes[i] \in Nat
  OBVIOUS
<1>2. step \in [Nat \X Nat -> Nat]
  <2> HIDE DEF n
  <2> SUFFICES ASSUME NEW p \in Nat \X Nat, p[1] \in 1..n PROVE p[2] * Byte + bytes[p[1]] \in Nat
    OBVIOUS
  <2> QED
    BY <1>1, NextByte
<1>3. PICK f \in [0..n -> Nat] : Runs(f, n, 0, step)
  <2> HIDE DEF step
  <2> QED
    BY <1>1, <1>2, RunExists
<1> HIDE DEF n
<1>4. Is(f)
  <2>1. ASSUME NEW i \in 0..n, i # 0 PROVE f[i - 1] \in Nat /\ i \in Nat /\ i \in 1..n
    BY <1>1, <2>1
  <2> QED
    BY <1>3, <2>1 DEF Runs
<1>5. Number(bytes) = (CHOOSE g : Is(g))[n]
  BY DEF Number, n
<1> DEFINE upTo == CHOOSE g : Is(g)
<1>6. Is(upTo)
  BY <1>4
<1> HIDE DEF upTo
<1>7. /\ DOMAIN upTo = 0..n /\ upTo[0] = 0
      /\ \A i \in 1..n : upTo[i] = upTo[i - 1] * Byte + bytes[i]
  BY <1>1, <1>6
<1>8. \A i \in 0..n : upTo[i] \in Nat
  <2> DEFINE Good == {i \in Nat : i <= n => upTo[i] \in Nat}
  <2>1. 0 \in Good
    BY <1>7
  <2>2. ASSUME NEW i \in Nat, i \in Good PROVE i + 1 \in Good
    <3> SUFFICES ASSUME i + 1 <= n PROVE upTo[i + 1] \in Nat
      OBVIOUS
    <3>1. i + 1 \in 1..n /\ (i + 1) - 1 = i /\ upTo[i] \in Nat
      BY <1>1, <2>2
    <3>2. upTo[i + 1] = upTo[i] * Byte + bytes[i + 1]
      BY <1>7, <3>1
    <3>3. bytes[i + 1] \in Nat
      BY <1>1, <3>1
    <3> QED
      BY <3>1, <3>2, <3>3, NextByte
  <2>3. \A i \in Nat : i \in Good
    <3> HIDE DEF Good
    <3> QED
      BY <2>1, <2>2, AllNaturals
  <2> QED
    BY <1>1, <2>3
<1>9. upTo \in [0..n -> Nat]
  BY <1>6, <1>7, <1>8
<1> QED
  BY <1>5, <1>7, <1>9 DEF n, upTo

\* Width bytes say what was put into them, if it fits.
THEOREM LengthComesBack ==
  ASSUME NEW n \in Nat, Fits(n)
  PROVE  Bytes(n) \in Seq(Nat) /\ Len(Bytes(n)) = Width /\ Number(Bytes(n)) = n
<1>1. /\ Shifted(n) \in [0..Width -> Nat] /\ Shifted(n)[0] = n /\ Shifted(n)[Width] = 0
      /\ \A i \in 1..Width : Shifted(n)[i] = Shifted(n)[i - 1] \div Byte
  BY ShiftedIs DEF Fits
<1>2. Width \in Nat \ {0} /\ Byte \in Nat \ {0}
  BY CodecAssumption
<1>3. ASSUME NEW i \in 1..Width
      PROVE  Bytes(n)[i] = Shifted(n)[Width - i] % Byte /\ Bytes(n)[i] \in Nat
  <2>1. Width - i \in 0..Width
    BY <1>2
  <2>2. Shifted(n)[Width - i] \in Nat
    BY <1>1, <2>1
  <2>3. Shifted(n)[Width - i] % Byte \in Nat
    BY <1>2, <2>2
  <2> QED
    BY <2>3 DEF Bytes
<1>4. Bytes(n) \in Seq(Nat) /\ Len(Bytes(n)) = Width
  <2>1. Bytes(n) \in [1..Width -> Nat]
    BY <1>3 DEF Bytes
  <2> QED
    BY <1>2, <2>1
<1>5. PICK upTo \in [0..Width -> Nat] :
        /\ Number(Bytes(n)) = upTo[Width]
        /\ upTo[0] = 0
        /\ \A i \in 1..Width : upTo[i] = upTo[i - 1] * Byte + Bytes(n)[i]
  BY <1>4, NumberIs
<1>6. \A i \in 0..Width : upTo[i] = Shifted(n)[Width - i]
  <2> DEFINE Good == {i \in Nat : i <= Width => upTo[i] = Shifted(n)[Width - i]}
  <2>1. 0 \in Good
    BY <1>1, <1>2, <1>5
  <2>2. ASSUME NEW i \in Nat, i \in Good PROVE i + 1 \in Good
    <3> SUFFICES ASSUME i + 1 <= Width PROVE upTo[i + 1] = Shifted(n)[Width - (i + 1)]
      OBVIOUS
    <3> DEFINE k == Width - i
    <3>1. k \in 1..Width /\ k - 1 \in 0..Width /\ k - 1 = Width - (i + 1) /\ i + 1 \in 1..Width /\ (i + 1) - 1 = i
      BY <1>2
    <3>2. upTo[i] = Shifted(n)[k - 1] \div Byte
      BY <1>1, <1>2, <2>2, <3>1
    <3>3. upTo[i + 1] = upTo[i] * Byte + (Shifted(n)[k - 1] % Byte)
      BY <1>3, <1>5, <3>1
    <3>4. Shifted(n)[k - 1] \in Nat
      BY <1>1, <3>1
    <3> HIDE DEF k
    <3>5. ((Shifted(n)[k - 1] \div Byte) * Byte) + (Shifted(n)[k - 1] % Byte) = Shifted(n)[k - 1]
      BY <3>4, Division
    <3> QED
      BY <3>1, <3>2, <3>3, <3>5
  <2>3. \A i \in Nat : i \in Good
    <3> HIDE DEF Good
    <3> QED
      BY <2>1, <2>2, AllNaturals
  <2> QED
    BY <1>2, <2>3
<1> QED
  BY <1>1, <1>2, <1>4, <1>5, <1>6

\* What is no longer than MaxFrameSize fits.
LEMMA ShorterFits ==
  ASSUME NEW m \in Nat, NEW n \in Nat, n <= m, Fits(m)
  PROVE  Fits(n)
<1>1. /\ Shifted(n) \in [0..Width -> Nat] /\ Shifted(n)[0] = n
      /\ \A i \in 1..Width : Shifted(n)[i] = Shifted(n)[i - 1] \div Byte
  BY ShiftedIs
<1>2. /\ Shifted(m) \in [0..Width -> Nat] /\ Shifted(m)[0] = m
      /\ \A i \in 1..Width : Shifted(m)[i] = Shifted(m)[i - 1] \div Byte
  BY ShiftedIs
<1>3. Width \in Nat
  BY CodecAssumption
<1> DEFINE Good == {i \in Nat : i <= Width => Shifted(n)[i] <= Shifted(m)[i]}
<1>4. 0 \in Good
  BY <1>1, <1>2
<1>5. ASSUME NEW i \in Nat, i \in Good PROVE i + 1 \in Good
  <2> SUFFICES ASSUME i + 1 <= Width PROVE Shifted(n)[i + 1] <= Shifted(m)[i + 1]
    OBVIOUS
  <2>1. i + 1 \in 1..Width /\ (i + 1) - 1 = i /\ i \in 0..Width /\ Shifted(n)[i] <= Shifted(m)[i]
    BY <1>3, <1>5
  <2>2. Shifted(n)[i] \in Nat /\ Shifted(m)[i] \in Nat
    BY <1>1, <1>2, <2>1
  <2>3. Shifted(n)[i + 1] = Shifted(n)[i] \div Byte /\ Shifted(m)[i + 1] = Shifted(m)[i] \div Byte
    BY <1>1, <1>2, <2>1
  <2> QED
    BY <2>1, <2>2, <2>3, Division
<1>6. \A i \in Nat : i \in Good
  <2> HIDE DEF Good
  <2> QED
    BY <1>4, <1>5, AllNaturals
<1>7. Shifted(n)[Width] <= Shifted(m)[Width] /\ Shifted(n)[Width] \in Nat /\ Shifted(m)[Width] = 0
  BY <1>1, <1>3, <1>6 DEF Fits
<1> QED
  BY <1>7 DEF Fits

-----------------------------------------------------------------------------
(* Frames.                                                                 *)

\* A body of naturals under a tag.
Frames == [tag : Nat, body : Seq(Nat)]

\* What WriteFrame puts on the wire: two bytes, the length and the body.
Wire(version, f) == <<version, f.tag>> \o Bytes(Len(f.body)) \o f.body

\* Only the ceiling of a control frame keeps a frame from being written.
LEMMA WrittenIs ==
  ASSUME NEW version, NEW f \in Frames, Fits(Len(f.body))
  PROVE  WriteFrame(version, f) =
           IF f.tag = tagRequest \/ Len(f.body) <= MaxControlFrameSize
             THEN Value(Wire(version, f)) ELSE Malformed
<1>1. Len(f.body) \in Nat
  BY DEF Frames
<1>2. Uint(Len(f.body)) = Len(f.body)
  BY <1>1, LengthComesBack DEF Uint
<1> QED
  BY <1>1, <1>2, CodecAssumption DEF WriteFrame, Wire

\* The elements of two sequences in a row.
LEMMA InARow ==
  ASSUME NEW S, NEW s \in Seq(S), NEW t \in Seq(S)
  PROVE  /\ s \o t \in Seq(S) /\ Len(s \o t) = Len(s) + Len(t)
         /\ \A i \in 1..Len(s) : (s \o t)[i] = s[i]
         /\ \A i \in 1..Len(t) : (s \o t)[Len(s) + i] = t[i]
<1>1. Len(s) \in Nat /\ Len(t) \in Nat
  OBVIOUS
<1>2. \A i \in 1..Len(t) : Len(s) + i \in 1..Len(s) + Len(t) /\ ~(Len(s) + i <= Len(s)) /\ (Len(s) + i) - Len(s) = i
  BY <1>1
<1> QED
  BY <1>1, <1>2, ConcatProperties

\* The elements of a piece of a sequence.
LEMMA PieceIn ==
  ASSUME NEW S, NEW s \in Seq(S), NEW m \in Nat, NEW k \in Nat, m + k <= Len(s)
  PROVE  /\ SubSeq(s, m + 1, m + k) \in Seq(S) /\ Len(SubSeq(s, m + 1, m + k)) = k
         /\ \A i \in 1..k : SubSeq(s, m + 1, m + k)[i] = s[m + i]
<1>1. Len(s) \in Nat
  OBVIOUS
<1>2. \A i \in m + 1..m + k : i \in 1..Len(s)
  BY <1>1
<1>3. \A i \in m + 1..m + k : s[i] \in S
  BY <1>2
<1> DEFINE piece == SubSeq(s, m + 1, m + k)
<1>4. /\ piece \in Seq(S)
      /\ Len(piece) = IF m + 1 <= m + k THEN (m + k) - (m + 1) + 1 ELSE 0
      /\ \A i \in 1..(m + k) - (m + 1) + 1 : piece[i] = s[(m + 1) + i - 1]
  <2>1. m + 1 \in Int /\ m + k \in Int
    OBVIOUS
  <2> QED
    BY <1>3, <2>1, SubSeqProperties
<1> HIDE DEF piece
<1>5. /\ (m + k) - (m + 1) + 1 = k /\ (IF m + 1 <= m + k THEN k ELSE 0) = k
      /\ \A i \in 1..k : (m + 1) + i - 1 = m + i
  OBVIOUS
<1>6. Len(piece) = k /\ \A i \in 1..k : piece[i] = s[m + i]
  BY <1>4, <1>5
<1> QED
  BY <1>4, <1>6 DEF piece

\* The same, of naturals.
LEMMA PieceOf ==
  ASSUME NEW s \in Seq(Nat), NEW m \in Nat, NEW k \in Nat, m + k <= Len(s)
  PROVE  /\ SubSeq(s, m + 1, m + k) \in Seq(Nat) /\ Len(SubSeq(s, m + 1, m + k)) = k
         /\ \A i \in 1..k : SubSeq(s, m + 1, m + k)[i] = s[m + i]
  BY PieceIn

\* Where the bytes of a frame are, and how many there are.
LEMMA Layout ==
  ASSUME NEW version \in Nat, NEW f \in Frames, Fits(Len(f.body))
  PROVE  /\ Wire(version, f) \in Seq(Nat)
         /\ HeaderSize \in Nat /\ HeaderSize > 2
         /\ Len(Wire(version, f)) = HeaderSize + Len(f.body)
         /\ Wire(version, f)[1] = version /\ Wire(version, f)[2] = f.tag
         /\ \A i \in 1..Width : Wire(version, f)[2 + i] = Bytes(Len(f.body))[i]
         /\ \A i \in 1..Len(f.body) : Wire(version, f)[HeaderSize + i] = f.body[i]
<1> DEFINE n == Len(f.body)
<1> DEFINE b == Bytes(n)
<1>1. f.body \in Seq(Nat) /\ n \in Nat /\ f.tag \in Nat
  BY DEF Frames
<1>2. b \in Seq(Nat) /\ Len(b) = Width
  BY <1>1, LengthComesBack
<1>3. Width \in Nat \ {0}
  BY CodecAssumption
<1> DEFINE h == <<version, f.tag>> \o b
<1> HIDE DEF b
<1>4. h \in Seq(Nat) /\ Len(h) = 2 + Width /\ h[1] = version /\ h[2] = f.tag /\ \A i \in 1..Width : h[2 + i] = b[i]
  <2>1. <<version, f.tag>> \in Seq(Nat) /\ Len(<<version, f.tag>>) = 2
    BY <1>1
  <2> QED
    BY <1>2, <1>3, <2>1
<1>5. Wire(version, f) = h \o f.body
  BY DEF Wire, b
<1> HIDE DEF h
<1>6. \A i \in 1..Width : 2 + i \in 1..Len(h) /\ (h \o f.body)[2 + i] = b[i]
  BY <1>1, <1>3, <1>4
<1> HIDE DEF n
<1>7. /\ h \o f.body \in Seq(Nat) /\ Len(h \o f.body) = Len(h) + Len(f.body)
      /\ \A i \in 1..Len(h) : (h \o f.body)[i] = h[i]
      /\ \A i \in 1..Len(f.body) : (h \o f.body)[Len(h) + i] = f.body[i]
  <2>1. h \in Seq(Nat) /\ f.body \in Seq(Nat)
    BY <1>1, <1>4
  <2> QED
    BY <2>1, InARow
<1>8. 1 \in 1..Len(h) /\ 2 \in 1..Len(h)
  BY <1>3, <1>4
<1>9. HeaderSize = Len(h) /\ HeaderSize \in Nat /\ HeaderSize > 2
  BY <1>3, <1>4 DEF HeaderSize
<1>10. b = Bytes(Len(f.body))
  BY DEF b, n
<1> QED
  BY <1>4, <1>5, <1>6, <1>7, <1>8, <1>9, <1>10

\* A stream that begins with a header says what the header says.
LEMMA HeaderSays ==
  ASSUME NEW version \in Nat, NEW f \in Frames, Fits(Len(f.body)), NEW stream \in Seq(Nat),
         Len(stream) >= HeaderSize, \A i \in 1..HeaderSize : stream[i] = Wire(version, f)[i]
  PROVE  /\ stream[1] = version /\ stream[2] = f.tag
         /\ Number(SubSeq(stream, 3, HeaderSize)) = Len(f.body)
<1>1. Width \in Nat \ {0} /\ HeaderSize = 2 + Width /\ Len(stream) \in Nat
  BY CodecAssumption DEF HeaderSize
<1>2. Len(f.body) \in Nat
  BY DEF Frames
<1> DEFINE b == Bytes(Len(f.body))
<1>3. b \in Seq(Nat) /\ Len(b) = Width /\ Number(b) = Len(f.body)
  BY <1>2, LengthComesBack
<1> HIDE DEF b
<1>4. \A i \in 1..Width : stream[2 + i] = b[i]
  <2>1. \A i \in 1..Width : 2 + i \in 1..HeaderSize
    BY <1>1
  <2> QED
    BY <2>1, Layout DEF b
<1>5. SubSeq(stream, 3, HeaderSize) = b
  <2> DEFINE t == SubSeq(stream, 3, HeaderSize)
  <2>1. t \in Seq(Nat) /\ Len(t) = Width /\ \A i \in 1..Width : t[i] = stream[2 + i]
    BY <1>1
  <2> HIDE DEF t
  <2>2. t = b
    BY <1>3, <1>4, <2>1, SeqEqual
  <2> QED
    BY <2>2 DEF t
<1>6. stream[1] = version /\ stream[2] = f.tag
  <2>1. 1 \in 1..HeaderSize /\ 2 \in 1..HeaderSize
    BY <1>1
  <2>2. stream[1] = Wire(version, f)[1] /\ stream[2] = Wire(version, f)[2]
    BY <2>1
  <2> QED
    BY <2>2, Layout
<1> QED
  BY <1>3, <1>5, <1>6 DEF b

\* As far as both go, s and w are the same.
Starts(s, w) == \A i \in 1..Len(s) : i <= Len(w) => s[i] = w[i]

\* A stream that begins as a frame that was written: of the frame, no more
\* and no less is read than was written, and the rest is left; it is refused
\* if it is newer than the reader, if its tag does not allow that much of a
\* body, or if it is cut off anywhere (writeFrame, readFrame).
THEOREM FrameIsReadOrRefused ==
  ASSUME NEW version \in Nat, NEW f \in Frames, Fits(Len(f.body)), NEW s \in Seq(Nat),
         Starts(s, Wire(version, f))
  PROVE  ReadFrame(s) =
           IF \/ version > Version
              \/ Len(f.body) > MaxPayloadFor(f.tag)
              \/ Len(s) < Len(Wire(version, f))
             THEN Malformed
             ELSE Value([frame |-> f, rest |-> SubSeq(s, Len(Wire(version, f)) + 1, Len(s))])
<1> DEFINE n == Len(f.body)
<1> DEFINE w == Wire(version, f)
<1>1. n \in Nat /\ f.body \in Seq(Nat) /\ f = [tag |-> f.tag, body |-> f.body] /\ Len(s) \in Nat
  BY DEF Frames
<1>2. /\ w \in Seq(Nat) /\ HeaderSize \in Nat /\ HeaderSize > 2 /\ Len(w) = HeaderSize + n
      /\ \A i \in 1..n : w[HeaderSize + i] = f.body[i]
  BY Layout
<1>3. \A i \in 1..Len(s) : i <= Len(w) => s[i] = w[i]
  BY DEF Starts
<1> HIDE DEF w, n
<1>4. CASE Len(s) < HeaderSize
  <2>1. Len(s) < Len(w)
    BY <1>1, <1>2, <1>4
  <2>2. ReadFrame(s) = Malformed
    BY <1>4 DEF ReadFrame
  <2> QED
    BY <2>1, <2>2 DEF w
<1>5. CASE Len(s) >= HeaderSize
  <2>1. \A i \in 1..HeaderSize : s[i] = w[i]
    <3> SUFFICES ASSUME NEW i \in 1..HeaderSize PROVE s[i] = w[i]
      OBVIOUS
    <3>1. i \in 1..Len(s) /\ i <= Len(w)
      BY <1>1, <1>2, <1>5, SMTT(30)
    <3> QED
      BY <1>3, <3>1
  <2>2. s[1] = version /\ s[2] = f.tag /\ Number(SubSeq(s, 3, HeaderSize)) = n
    BY <1>5, <2>1, HeaderSays DEF w, n
  <2>3. ~(Len(s) < HeaderSize)
    BY <1>1, <1>2, <1>5
  <2>4. ReadFrame(s) =
          IF version > Version \/ n > MaxPayloadFor(f.tag) \/ Len(s) < Len(w)
            THEN Malformed
            ELSE Value([frame |-> [tag |-> f.tag, body |-> SubSeq(s, HeaderSize + 1, HeaderSize + n)],
                        rest |-> SubSeq(s, Len(w) + 1, Len(s))])
    BY <1>2, <2>2, <2>3 DEF ReadFrame
  <2>5. CASE Len(s) < Len(w)
    BY <2>4, <2>5 DEF w
  <2>6. CASE Len(s) >= Len(w)
    <3> DEFINE t == SubSeq(s, HeaderSize + 1, HeaderSize + n)
    <3>1. HeaderSize + n <= Len(s)
      BY <1>2, <2>6
    <3>2. t \in Seq(Nat) /\ Len(t) = n /\ \A i \in 1..n : t[i] = s[HeaderSize + i]
      BY <1>1, <1>2, <3>1, PieceOf
    <3>3. ASSUME NEW i \in 1..n PROVE HeaderSize + i \in 1..Len(s) /\ HeaderSize + i <= Len(w)
      <4>1. n \in Nat /\ HeaderSize \in Nat /\ Len(s) \in Nat /\ Len(w) = HeaderSize + n
        BY <1>1, <1>2
      <4> QED
        BY <3>1, <4>1
    <3>4. \A i \in 1..n : t[i] = f.body[i]
      BY <1>2, <1>3, <3>2, <3>3
    <3> HIDE DEF t
    <3>5. t = f.body
      BY <1>1, <3>2, <3>4, SeqEqual DEF n
    <3> QED
      BY <1>1, <2>4, <3>5 DEF t, w, n
  <2> QED
    BY <1>1, <1>2, <2>5, <2>6
<1> QED
  BY <1>1, <1>2, <1>4, <1>5

-----------------------------------------------------------------------------
(* Many frames.                                                            *)

\* What FlattenSeq makes of the first sequences.
LEMMA FlattenIs ==
  ASSUME NEW S, NEW seqs \in Seq(Seq(S))
  PROVE  \E upTo \in [0..Len(seqs) -> Seq(S)] :
           /\ FlattenSeq(seqs) = upTo[Len(seqs)]
           /\ upTo[0] = <<>>
           /\ \A i \in 1..Len(seqs) : upTo[i] = upTo[i - 1] \o seqs[i]
<1> DEFINE n == Len(seqs)
<1>1. n \in Nat /\ \A i \in 1..n : seqs[i] \in Seq(S)
  OBVIOUS
<1>2. <<>> \in Seq(S)
  OBVIOUS
<1> DEFINE step == [p \in Nat \X Seq(S) |-> IF p[1] \in 1..n THEN p[2] \o seqs[p[1]] ELSE <<>>]
<1> DEFINE Is(f) == f = [i \in 1..n |-> IF i = 1 THEN seqs[i] ELSE f[i - 1] \o seqs[i]]
<1>3. step \in [Nat \X Seq(S) -> Seq(S)]
  <2> HIDE DEF n
  <2> SUFFICES ASSUME NEW p \in Nat \X Seq(S), p[1] \in 1..n PROVE p[2] \o seqs[p[1]] \in Seq(S)
    BY <1>2
  <2> QED
    BY <1>1, InARow
<1>4. PICK f \in [0..n -> Seq(S)] : Runs(f, n, <<>>, step)
  <2> HIDE DEF step
  <2> QED
    BY <1>1, <1>2, <1>3, RunExists
<1> HIDE DEF n
<1>5. /\ f[0] = <<>>
      /\ \A i \in 1..n : f[i] = f[i - 1] \o seqs[i]
  <2>1. f[0] = <<>>
    BY <1>1, <1>4 DEF Runs
  <2>2. ASSUME NEW i \in 1..n PROVE f[i] = f[i - 1] \o seqs[i]
    <3>1. i \in 0..n /\ i # 0 /\ i \in Nat /\ i - 1 \in 0..n
      BY <1>1
    <3>2. f[i] = step[<<i, f[i - 1]>>]
      BY <1>4, <3>1 DEF Runs
    <3>3. <<i, f[i - 1]>> \in Nat \X Seq(S)
      BY <3>1
    <3> QED
      BY <3>2, <3>3
  <2> QED
    BY <2>1, <2>2
<1> HIDE DEF step
<1>8. n # 0 => 1 \in 1..n /\ f[1] = <<>> \o seqs[1]
  <2> SUFFICES ASSUME n # 0 PROVE 1 \in 1..n /\ f[1] = <<>> \o seqs[1]
    OBVIOUS
  <2>1. 1 \in 1..n /\ 1 - 1 = 0
    BY <1>1
  <2>2. f[1] = f[1 - 1] \o seqs[1]
    BY <1>5, <2>1
  <2> QED
    BY <1>5, <2>1, <2>2
<1>6. CASE n = 0
  <2>1. seqs = <<>> /\ FlattenSeq(seqs) = seqs
    BY <1>6 DEF FlattenSeq, n
  <2> QED
    BY <1>5, <1>6, <2>1 DEF n
<1>7. CASE n # 0
  <2> DEFINE h == [i \in 1..n |-> f[i]]
  <2>1. Is(h)
    <3>1. ASSUME NEW i \in 1..n PROVE h[i] = IF i = 1 THEN seqs[i] ELSE h[i - 1] \o seqs[i]
      <4>1. CASE i = 1
        <5>1. f[1] = <<>> \o seqs[1] /\ seqs[1] \in Seq(S)
          BY <1>1, <1>7, <1>8
        <5> QED
          BY <4>1, <5>1
      <4>2. CASE i # 1
        <5>1. i - 1 \in 1..n
          BY <1>1, <4>2
        <5> QED
          BY <1>5, <4>2, <5>1
      <4> QED
        BY <4>1, <4>2
    <3> QED
      BY <3>1
  <2> DEFINE g == CHOOSE x : Is(x)
  <2>2. FlattenSeq(seqs) = g[n]
    BY <1>7 DEF FlattenSeq, n
  <2>3. Is(g)
    <3> HIDE DEF h
    <3> QED
      BY <2>1
  <2> HIDE DEF g
  <2>4. \A i \in 1..n : g[i] = IF i = 1 THEN seqs[i] ELSE g[i - 1] \o seqs[i]
    BY <2>3
  <2>5. \A i \in Nat : i \in {k \in Nat : k \in 1..n => g[k] = f[k]}
    <3> DEFINE Good == {k \in Nat : k \in 1..n => g[k] = f[k]}
    <3>1. 0 \in Good
      OBVIOUS
    <3>2. ASSUME NEW k \in Nat, k \in Good PROVE k + 1 \in Good
      <4> SUFFICES ASSUME k + 1 \in 1..n PROVE g[k + 1] = f[k + 1]
        OBVIOUS
      <4>1. (k + 1) - 1 = k
        OBVIOUS
      <4>2. CASE k = 0
        <5>1. f[1] = <<>> \o seqs[1] /\ seqs[1] \in Seq(S)
          BY <1>1, <1>7, <1>8
        <5>2. g[1] = seqs[1]
          BY <2>4, <4>2
        <5> QED
          BY <4>2, <5>1, <5>2
      <4>3. CASE k # 0
        <5>1. k \in 1..n /\ k + 1 # 1
          BY <1>1, <4>3
        <5>2. g[k + 1] = g[k] \o seqs[k + 1]
          BY <2>4, <4>1, <5>1
        <5>3. f[k + 1] = f[k] \o seqs[k + 1]
          BY <1>5, <4>1
        <5> QED
          BY <3>2, <5>1, <5>2, <5>3
      <4> QED
        BY <4>2, <4>3
    <3> HIDE DEF Good
    <3>3. \A k \in Nat : k \in Good
      BY <3>1, <3>2, AllNaturals
    <3> QED
      BY <3>3 DEF Good
  <2>6. FlattenSeq(seqs) = f[n]
    BY <1>1, <1>7, <2>2, <2>5
  <2> QED
    BY <1>5, <2>6 DEF n
<1> QED
  BY <1>6, <1>7

\* Where in FlattenSeq(seqs) the i-th sequence is: behind at[i - 1] elements.
LEMMA FlattenParts ==
  ASSUME NEW S, NEW seqs \in Seq(Seq(S)), NEW n, n = Len(seqs), NEW stream, stream = FlattenSeq(seqs)
  PROVE  /\ stream \in Seq(S)
         /\ \E at \in [0..n -> Nat] :
              /\ at[0] = 0 /\ at[n] = Len(stream)
              /\ \A i \in 1..n :
                   /\ at[i] = at[i - 1] + Len(seqs[i]) /\ at[i] <= Len(stream)
                   /\ \A j \in 1..Len(seqs[i]) : stream[at[i - 1] + j] = seqs[i][j]
<1>1. n \in Nat /\ \A i \in 1..n : seqs[i] \in Seq(S)
  OBVIOUS
<1>2. PICK upTo \in [0..n -> Seq(S)] :
        /\ stream = upTo[n]
        /\ upTo[0] = <<>>
        /\ \A i \in 1..n : upTo[i] = upTo[i - 1] \o seqs[i]
  BY FlattenIs
<1>3. ASSUME NEW i \in 1..n
      PROVE  /\ i - 1 \in 0..n /\ i \in 0..n
             /\ upTo[i - 1] \in Seq(S) /\ seqs[i] \in Seq(S)
             /\ Len(upTo[i - 1]) \in Nat /\ Len(seqs[i]) \in Nat
             /\ Len(upTo[i]) = Len(upTo[i - 1]) + Len(seqs[i])
             /\ \A j \in 1..Len(upTo[i - 1]) : upTo[i][j] = upTo[i - 1][j]
             /\ \A j \in 1..Len(seqs[i]) : upTo[i][Len(upTo[i - 1]) + j] = seqs[i][j]
  <2>1. i - 1 \in 0..n /\ i \in 0..n
    BY <1>1
  <2> DEFINE a == upTo[i - 1]
  <2> DEFINE b == seqs[i]
  <2>2. a \in Seq(S) /\ b \in Seq(S) /\ upTo[i] = a \o b
    BY <1>1, <1>2, <2>1
  <2> HIDE DEF a, b
  <2>3. Len(a) \in Nat /\ Len(b) \in Nat
    BY <2>2
  <2>4. /\ Len(upTo[i]) = Len(a) + Len(b)
        /\ \A j \in 1..Len(a) : upTo[i][j] = a[j]
        /\ \A j \in 1..Len(b) : upTo[i][Len(a) + j] = b[j]
    BY <2>2, InARow
  <2> QED
    BY <2>1, <2>2, <2>3, <2>4 DEF a, b
<1> DEFINE Begins(s, t) == Len(s) <= Len(t) /\ \A j \in 1..Len(s) : t[j] = s[j]
<1>4. ASSUME NEW i \in 0..n PROVE Begins(upTo[i], upTo[n])
  <2> DEFINE Good == {k \in Nat : i <= k /\ k <= n => Begins(upTo[i], upTo[k])}
  <2>1. upTo[i] \in Seq(S) /\ Len(upTo[i]) \in Nat /\ i \in Nat
    BY <1>1
  <2>2. 0 \in Good
    BY <2>1
  <2>3. ASSUME NEW k \in Nat, k \in Good PROVE k + 1 \in Good
    <3> SUFFICES ASSUME i <= k + 1, k + 1 <= n PROVE Begins(upTo[i], upTo[k + 1])
      OBVIOUS
    <3>1. CASE i = k + 1
      BY <2>1, <3>1
    <3>2. CASE i # k + 1
      <4>1. i <= k /\ k <= n /\ k + 1 \in 1..n /\ (k + 1) - 1 = k
        BY <1>1, <2>1, <3>2
      <4>2. Begins(upTo[i], upTo[k])
        BY <2>3, <4>1
      <4>3. /\ upTo[k] \in Seq(S) /\ seqs[k + 1] \in Seq(S)
            /\ Len(upTo[k + 1]) = Len(upTo[k]) + Len(seqs[k + 1])
            /\ Len(upTo[k]) \in Nat /\ Len(seqs[k + 1]) \in Nat
            /\ \A j \in 1..Len(upTo[k]) : upTo[k + 1][j] = upTo[k][j]
        <5> DEFINE m == k + 1
        <5>1. m \in 1..n /\ m - 1 = k
          BY <4>1
        <5> HIDE DEF m
        <5>2. /\ upTo[m - 1] \in Seq(S) /\ seqs[m] \in Seq(S)
              /\ Len(upTo[m - 1]) \in Nat /\ Len(seqs[m]) \in Nat
              /\ Len(upTo[m]) = Len(upTo[m - 1]) + Len(seqs[m])
              /\ \A j \in 1..Len(upTo[m - 1]) : upTo[m][j] = upTo[m - 1][j]
          BY <1>3, <5>1
        <5> QED
          BY <5>1, <5>2 DEF m
      <4>4. Len(upTo[k]) \in Nat /\ Len(seqs[k + 1]) \in Nat
        BY <4>3
      <4>5. Len(upTo[i]) <= Len(upTo[k + 1])
        <5>1. Len(upTo[i]) <= Len(upTo[k]) /\ Len(upTo[k + 1]) = Len(upTo[k]) + Len(seqs[k + 1])
          BY <4>2, <4>3
        <5> DEFINE x == Len(upTo[i])
        <5> DEFINE y == Len(upTo[k])
        <5> DEFINE z == Len(seqs[k + 1])
        <5>2. x \in Nat /\ y \in Nat /\ z \in Nat /\ x <= y /\ Len(upTo[k + 1]) = y + z
          BY <2>1, <4>4, <5>1
        <5> HIDE DEF x, y, z
        <5>3. x <= Len(upTo[k + 1])
          BY <5>2
        <5> QED
          BY <5>3 DEF x
      <4>6. ASSUME NEW j \in 1..Len(upTo[i]) PROVE upTo[k + 1][j] = upTo[i][j]
        <5>1. j \in 1..Len(upTo[k])
          BY <2>1, <4>2, <4>4
        <5> QED
          BY <4>2, <4>3, <5>1
      <4> QED
        BY <4>5, <4>6
    <3> QED
      BY <3>1, <3>2
  <2> HIDE DEF Good
  <2>4. \A k \in Nat : k \in Good
    BY <2>2, <2>3, AllNaturals
  <2>5. i <= n /\ n <= n
    BY <1>1
  <2> QED
    BY <1>1, <2>4, <2>5 DEF Good
<1> DEFINE at == [i \in 0..n |-> Len(upTo[i])]
<1>5. at \in [0..n -> Nat] /\ at[0] = 0 /\ at[n] = Len(stream)
  <2>1. 0 \in 0..n /\ n \in 0..n
    BY <1>1
  <2> QED
    BY <1>2, <2>1
<1>6. ASSUME NEW i \in 1..n
      PROVE  /\ at[i] = at[i - 1] + Len(seqs[i]) /\ at[i] <= Len(stream)
             /\ \A j \in 1..Len(seqs[i]) : stream[at[i - 1] + j] = seqs[i][j]
  <2>1. at[i] = Len(upTo[i]) /\ at[i - 1] = Len(upTo[i - 1])
    BY <1>3
  <2>2. Begins(upTo[i], upTo[n])
    BY <1>3, <1>4
  <2>3. at[i] = at[i - 1] + Len(seqs[i]) /\ at[i] <= Len(stream)
    BY <1>2, <1>3, <2>1, <2>2
  <2>4. ASSUME NEW j \in 1..Len(seqs[i]) PROVE stream[at[i - 1] + j] = seqs[i][j]
    <3>1. Len(upTo[i - 1]) \in Nat /\ Len(seqs[i]) \in Nat /\ Len(upTo[i]) = Len(upTo[i - 1]) + Len(seqs[i])
      BY <1>3
    <3>2. Len(upTo[i - 1]) + j \in 1..Len(upTo[i])
      <4> DEFINE a == Len(upTo[i - 1])
      <4> DEFINE b == Len(seqs[i])
      <4>1. a \in Nat /\ b \in Nat /\ j \in 1..b /\ Len(upTo[i]) = a + b
        BY <3>1
      <4> HIDE DEF a, b
      <4>2. a + j \in 1..Len(upTo[i])
        BY <4>1
      <4> QED
        BY <4>2 DEF a
    <3>3. upTo[n][Len(upTo[i - 1]) + j] = upTo[i][Len(upTo[i - 1]) + j]
      BY <2>2, <3>2
    <3> QED
      BY <1>2, <1>3, <2>1, <3>3
  <2> QED
    BY <2>3, <2>4
<1>7. stream \in Seq(S)
  BY <1>1, <1>2
<1> HIDE DEF at
<1> QED
  BY <1>5, <1>6, <1>7

\* What is read of naturals is a frame and naturals.
LEMMA ReadTypes ==
  ASSUME NEW s \in Seq(Nat), ReadFrame(s).ok
  PROVE  ReadFrame(s).is.frame \in Frames /\ ReadFrame(s).is.rest \in Seq(Nat)
<1> DEFINE b == SubSeq(s, 3, HeaderSize)
<1> DEFINE n == Number(b)
<1>1. Width \in Nat \ {0} /\ HeaderSize = 2 + Width /\ Len(s) \in Nat
  BY CodecAssumption DEF HeaderSize
<1>2. Len(s) >= HeaderSize
  BY <1>1 DEF ReadFrame, Malformed
<1>3. b \in Seq(Nat) /\ Len(b) = Width
  <2>1. 2 + Width <= Len(s)
    BY <1>1, <1>2
  <2> QED
    BY <1>1, <2>1, PieceOf, SMTT(30)
<1>4. n \in Nat
  <2> HIDE DEF b
  <2> QED
    BY <1>3, NumberIs
<1> DEFINE f == [tag |-> s[2], body |-> SubSeq(s, HeaderSize + 1, HeaderSize + n)]
<1> DEFINE r == SubSeq(s, HeaderSize + n + 1, Len(s))
<1>8. ~(Len(s) < HeaderSize + n) /\ ReadFrame(s) = Value([frame |-> f, rest |-> r])
  BY DEF ReadFrame, Malformed
<1>9. HeaderSize + n <= Len(s)
  <2> HIDE DEF n
  <2> QED
    BY <1>1, <1>4, <1>8
<1> HIDE DEF n
<1>5. s[2] \in Nat
  <2>1. 2 \in 1..Len(s)
    BY <1>1, <1>2
  <2> QED
    BY <2>1
<1>6. SubSeq(s, HeaderSize + 1, HeaderSize + n) \in Seq(Nat)
  BY <1>1, <1>4, <1>9, PieceOf
<1>7. SubSeq(s, HeaderSize + n + 1, Len(s)) \in Seq(Nat)
  <2>1. HeaderSize + n \in Nat
    BY <1>1, <1>4
  <2> QED
    BY <1>1, <2>1
<1> QED
  <2>1. f \in Frames /\ r \in Seq(Nat)
    BY <1>5, <1>6, <1>7 DEF Frames
  <2>2. ReadFrame(s).is.frame = f /\ ReadFrame(s).is.rest = r
    <3> HIDE DEF f, r
    <3> QED
      BY <1>8 DEF Value
  <2> QED
    BY <2>1, <2>2

\* What a reader has: frames, what is left, and whether it reads on.
Readers == [frames : Seq(Frames), rest : Seq(Nat), ok : BOOLEAN]

\* One more frame.
ReadOn(was) ==
  IF was.ok /\ ReadFrame(was.rest).ok
    THEN [frames |-> Append(was.frames, ReadFrame(was.rest).is.frame),
          rest |-> ReadFrame(was.rest).is.rest, ok |-> TRUE]
    ELSE [was EXCEPT !.ok = FALSE]

\* A reader stays a reader.
LEMMA ReadOnTypes ==
  ASSUME NEW was \in Readers
  PROVE  ReadOn(was) \in Readers
<1>1. was.frames \in Seq(Frames) /\ was.rest \in Seq(Nat)
  BY DEF Readers
<1>2. CASE was.ok /\ ReadFrame(was.rest).ok
  <2>1. ReadFrame(was.rest).is.frame \in Frames /\ ReadFrame(was.rest).is.rest \in Seq(Nat)
    BY <1>1, <1>2, ReadTypes
  <2>2. Append(was.frames, ReadFrame(was.rest).is.frame) \in Seq(Frames)
    BY <1>1, <2>1
  <2> QED
    BY <1>2, <2>1, <2>2 DEF Readers, ReadOn
<1>3. CASE ~(was.ok /\ ReadFrame(was.rest).ok)
  BY <1>3 DEF Readers, ReadOn
<1> QED
  BY <1>2, <1>3

\* ReadFrames reads one frame after the other.
LEMMA ReadFramesIs ==
  ASSUME NEW stream \in Seq(Nat), NEW n \in Nat
  PROVE  \E read \in [0..n -> Readers] :
           /\ ReadFrames(stream, n) = read[n].frames
           /\ read[0] = [frames |-> <<>>, rest |-> stream, ok |-> TRUE]
           /\ \A i \in 1..n : read[i] = ReadOn(read[i - 1])
<1> DEFINE first == [frames |-> <<>>, rest |-> stream, ok |-> TRUE]
<1> DEFINE step == [p \in Nat \X Readers |-> ReadOn(p[2])]
<1> DEFINE Is(f) == f = [i \in 0..n |-> IF i = 0 THEN first ELSE ReadOn(f[i - 1])]
<1>1. first \in Readers
  BY DEF Readers
<1>2. step \in [Nat \X Readers -> Readers]
  BY ReadOnTypes
<1>3. PICK f \in [0..n -> Readers] : Runs(f, n, first, step)
  <2> HIDE DEF step, first
  <2> QED
    BY <1>1, <1>2, RunExists
<1> HIDE DEF first
<1>4. Is(f)
  <2>1. ASSUME NEW i \in 0..n, i # 0 PROVE <<i, f[i - 1]>> \in Nat \X Readers
    <3>1. i - 1 \in 0..n
      BY <2>1
    <3> QED
      BY <3>1
  <2> QED
    BY <1>3, <2>1 DEF Runs
<1> DEFINE g == CHOOSE x : Is(x)
<1>5. ReadFrames(stream, n) = g[n].frames
  BY DEF ReadFrames, ReadOn, first
<1>6. Is(g)
  BY <1>4
<1> HIDE DEF g
<1>7. /\ DOMAIN g = 0..n /\ g[0] = first
      /\ \A i \in 1..n : g[i] = ReadOn(g[i - 1])
  BY <1>6
<1>8. \A i \in Nat : i \in {k \in Nat : k <= n => g[k] \in Readers}
  <2> DEFINE Good == {k \in Nat : k <= n => g[k] \in Readers}
  <2>1. 0 \in Good
    BY <1>1, <1>7
  <2>2. ASSUME NEW k \in Nat, k \in Good PROVE k + 1 \in Good
    <3> SUFFICES ASSUME k + 1 <= n PROVE g[k + 1] \in Readers
      OBVIOUS
    <3>1. k + 1 \in 1..n /\ (k + 1) - 1 = k /\ g[k] \in Readers
      BY <2>2
    <3> QED
      BY <1>7, <3>1, ReadOnTypes
  <2> HIDE DEF Good
  <2>3. \A k \in Nat : k \in Good
    BY <2>1, <2>2, AllNaturals
  <2> QED
    BY <2>3 DEF Good
<1>9. g \in [0..n -> Readers]
  <2>1. \A i \in 0..n : g[i] \in Readers
    BY <1>8
  <2>2. g = [i \in 0..n |-> g[i]]
    BY <1>6, <1>7
  <2> QED
    BY <2>1, <2>2
<1> QED
  BY <1>5, <1>7, <1>9 DEF first

\* What is left of what is left.
LEMMA RestOfRest ==
  ASSUME NEW s \in Seq(Nat), NEW a \in Nat, NEW b \in Nat, a + b <= Len(s),
         NEW r, r = SubSeq(s, a + 1, Len(s))
  PROVE  /\ r \in Seq(Nat) /\ Len(r) = Len(s) - a
         /\ \A i \in 1..Len(s) - a : r[i] = s[a + i]
         /\ SubSeq(r, b + 1, Len(r)) = SubSeq(s, a + b + 1, Len(s))
<1> DEFINE m == Len(s) - a
<1> DEFINE k == m - b
<1>1. m \in Nat /\ k \in Nat /\ a + m = Len(s) /\ b + k = m /\ (a + b) + k = Len(s) /\ a + b \in Nat
  BY Len(s) \in Nat
<1> HIDE DEF m, k
<1>2. r \in Seq(Nat) /\ Len(r) = m /\ \A i \in 1..m : r[i] = s[a + i]
  <2>1. r = SubSeq(s, a + 1, a + m)
    BY <1>1
  <2>2. a + m <= Len(s)
    <3>1. Len(s) \in Nat
      OBVIOUS
    <3> QED
      BY <1>1, <3>1
  <2> QED
    BY <1>1, <2>1, <2>2, PieceOf, SMTT(30)
<1> DEFINE x == SubSeq(r, b + 1, b + k)
<1> DEFINE y == SubSeq(s, (a + b) + 1, (a + b) + k)
<1>3. x \in Seq(Nat) /\ Len(x) = k /\ \A i \in 1..k : x[i] = r[b + i]
  <2>1. b + k <= Len(r)
    BY <1>1, <1>2
  <2> QED
    BY <1>1, <1>2, <2>1, PieceOf, SMTT(30)
<1>4. y \in Seq(Nat) /\ Len(y) = k /\ \A i \in 1..k : y[i] = s[(a + b) + i]
  <2>1. (a + b) + k <= Len(s)
    BY <1>1
  <2> QED
    BY <1>1, <2>1, PieceOf, ZenonT(60)
<1>5. x = SubSeq(r, b + 1, Len(r)) /\ y = SubSeq(s, a + b + 1, Len(s))
  BY <1>1, <1>2
<1> HIDE DEF x, y
<1>6. ASSUME NEW i \in 1..k PROVE x[i] = y[i]
  <2>1. b + i \in 1..m /\ a + (b + i) = (a + b) + i
    BY <1>1
  <2>2. r[b + i] = s[a + (b + i)]
    BY <1>2, <2>1
  <2> QED
    BY <1>3, <1>4, <2>1, <2>2
<1>7. x = y
  BY <1>3, <1>4, <1>6, SeqEqual
<1> QED
  BY <1>2, <1>5, <1>7 DEF m

\* The first k elements, and one more.
LEMMA OneLonger ==
  ASSUME NEW S, NEW s \in Seq(S), NEW k \in Nat, k <= Len(s)
  PROVE  /\ SubSeq(s, 1, k) \in Seq(S) /\ Len(SubSeq(s, 1, k)) = k
         /\ SubSeq(SubSeq(s, 1, k), 1, k) = SubSeq(s, 1, k)
         /\ k < Len(s) => Append(SubSeq(s, 1, k), s[k + 1]) = SubSeq(s, 1, k + 1)
<1>1. Len(s) \in Nat /\ \A i \in 1..Len(s) : s[i] \in S
  OBVIOUS
<1> DEFINE First(j) == SubSeq(s, 1, j)
<1>2. ASSUME NEW j \in Nat, j <= Len(s)
      PROVE  First(j) \in Seq(S) /\ Len(First(j)) = j /\ \A i \in 1..j : First(j)[i] = s[i]
  BY <1>1, <1>2
<1> HIDE DEF First
<1>3. SubSeq(First(k), 1, k) = First(k)
  <2> DEFINE x == SubSeq(First(k), 1, k)
  <2>1. First(k) \in Seq(S) /\ Len(First(k)) = k
    BY <1>2
  <2>2. x \in Seq(S) /\ Len(x) = k /\ \A i \in 1..k : x[i] = First(k)[i]
    BY <2>1
  <2> HIDE DEF x
  <2>3. x = First(k)
    BY <2>1, <2>2, SeqEqual
  <2> QED
    BY <2>3 DEF x
<1>4. ASSUME k < Len(s) PROVE Append(First(k), s[k + 1]) = First(k + 1)
  <2> DEFINE x == Append(First(k), s[k + 1])
  <2>1. k + 1 <= Len(s) /\ k + 1 \in Nat /\ k + 1 \in 1..Len(s)
    BY <1>1, <1>4
  <2>2. First(k) \in Seq(S) /\ Len(First(k)) = k /\ \A i \in 1..k : First(k)[i] = s[i]
    BY <1>2
  <2>3. First(k + 1) \in Seq(S) /\ Len(First(k + 1)) = k + 1 /\ \A i \in 1..k + 1 : First(k + 1)[i] = s[i]
    BY <1>2, <2>1
  <2>4. x \in Seq(S) /\ Len(x) = k + 1 /\ \A i \in 1..k + 1 : x[i] = IF i = k + 1 THEN s[k + 1] ELSE First(k)[i]
    BY <1>1, <2>1, <2>2
  <2> HIDE DEF x
  <2>5. \A i \in 1..k + 1 : x[i] = First(k + 1)[i]
    BY <2>2, <2>3, <2>4
  <2>6. x = First(k + 1)
    BY <2>3, <2>4, <2>5, SeqEqual
  <2> QED
    BY <2>6 DEF x
<1> QED
  BY <1>2, <1>3, <1>4 DEF First

\* Frames that were written, of whatever version and as many as there are,
\* are read as they are, to the first that is refused; and of a stream that
\* is cut off, frames are read that were written whole, in their order, and
\* nothing else (writeFrame, readFrame).
THEOREM WrittenFramesSurvive ==
  ASSUME NEW version \in Nat, NEW written \in Seq(Frames),
         \A i \in DOMAIN written : WriteFrame(version, written[i]).ok /\ Fits(Len(written[i].body))
  PROVE  WrittenSurvive(version, written)
<1> DEFINE n == Len(written)
<1> DEFINE Bad(i) == version > Version \/ Len(written[i].body) > MaxPayloadFor(written[i].tag)
<1> DEFINE wires == [i \in DOMAIN written |-> WriteFrame(version, written[i]).is]
<1> DEFINE stream == FlattenSeq(wires)
<1>1. n \in Nat /\ DOMAIN written = 1..n /\ \A i \in 1..n : written[i] \in Frames
  OBVIOUS
<1>2. ASSUME NEW i \in 1..n
      PROVE  /\ wires[i] = Wire(version, written[i]) /\ wires[i] \in Seq(Nat)
             /\ written[i] \in Frames /\ Fits(Len(written[i].body))
  <2>1. written[i] \in Frames /\ Fits(Len(written[i].body)) /\ WriteFrame(version, written[i]).ok
    BY <1>1
  <2>2. WriteFrame(version, written[i]).is = Wire(version, written[i])
    BY <2>1, WrittenIs DEF Malformed, Value
  <2>3. Wire(version, written[i]) \in Seq(Nat)
    BY <2>1, Layout
  <2> QED
    BY <1>1, <2>1, <2>2, <2>3
<1>3. wires \in Seq(Seq(Nat)) /\ Len(wires) = n
  <2>1. wires \in [1..n -> Seq(Nat)]
    BY <1>1, <1>2
  <2> HIDE DEF wires
  <2> QED
    BY <1>1, <2>1
<1> HIDE DEF n, wires
<1>4. stream \in Seq(Nat)
  BY <1>3, FlattenParts
<1>5. PICK at \in [0..n -> Nat] :
        /\ at[0] = 0 /\ at[n] = Len(stream)
        /\ \A i \in 1..n :
             /\ at[i] = at[i - 1] + Len(wires[i]) /\ at[i] <= Len(stream)
             /\ \A j \in 1..Len(wires[i]) : stream[at[i - 1] + j] = wires[i][j]
  <2>1. stream = FlattenSeq(wires) /\ n = Len(wires)
    BY <1>3
  <2> HIDE DEF stream
  <2> QED
    BY <1>3, <2>1, FlattenParts, SMTT(60)
<1> HIDE DEF stream, Bad
\* What is read of the first part of the stream.
<1>6. ASSUME NEW c \in Seq(Nat), Len(c) <= Len(stream), \A j \in 1..Len(c) : c[j] = stream[j]
      PROVE  \E k \in 0..n :
               /\ ReadFrames(c, n) = SubSeq(written, 1, k)
               /\ \A j \in 1..k : ~Bad(j)
               /\ k < n => Bad(k + 1) \/ Len(c) < at[k + 1]
  <2>1. PICK read \in [0..n -> Readers] :
          /\ ReadFrames(c, n) = read[n].frames
          /\ read[0] = [frames |-> <<>>, rest |-> c, ok |-> TRUE]
          /\ \A i \in 1..n : read[i] = ReadOn(read[i - 1])
    BY <1>1, ReadFramesIs DEF n
  <2> DEFINE Fair(i, k) ==
        /\ read[i].frames = SubSeq(written, 1, k)
        /\ \A j \in 1..k : ~Bad(j)
        /\ read[i].ok => k = i /\ at[k] <= Len(c) /\ read[i].rest = SubSeq(c, at[k] + 1, Len(c))
        /\ ~read[i].ok => k < n /\ (Bad(k + 1) \/ Len(c) < at[k + 1])
  <2> DEFINE Good == {i \in Nat : i <= n => \E k \in 0..n : Fair(i, k)}
  <2>2. Len(c) \in Nat /\ Len(stream) \in Nat
    BY <1>4
  <2>3. 0 \in Good
    <3>1. SubSeq(written, 1, 0) = <<>> /\ SubSeq(c, 0 + 1, Len(c)) = c
      BY <1>1 DEF n
    <3>2. Fair(0, 0)
      BY <1>5, <2>1, <2>2, <3>1
    <3>3. 0 \in 0..n
      BY <1>1
    <3> HIDE DEF Fair
    <3> QED
      BY <3>2, <3>3
  <2>4. ASSUME NEW i \in Nat, i \in Good PROVE i + 1 \in Good
    <3> HIDE DEF Fair
    <3> SUFFICES ASSUME i + 1 <= n PROVE \E k \in 0..n : Fair(i + 1, k)
      OBVIOUS
    <3>1. i \in 0..n /\ i + 1 \in 1..n /\ (i + 1) - 1 = i /\ i + 1 \in 0..n
      BY <1>1
    <3>2. PICK k \in 0..n : Fair(i, k)
      BY <1>1, <2>4
    <3> USE DEF Fair
    <3>3. read[i + 1] = ReadOn(read[i]) /\ read[i] \in Readers
      BY <2>1, <3>1
    <3> HIDE DEF Good
    <3>4. CASE ~read[i].ok
      <4>1. read[i + 1].frames = read[i].frames /\ ~read[i + 1].ok
        BY <3>3, <3>4 DEF ReadOn, Readers
      <4>2. Fair(i + 1, k)
        BY <3>2, <3>4, <4>1
      <4> QED
        BY <4>2
    <3>5. CASE read[i].ok
      <4> DEFINE f == written[i + 1]
      <4> DEFINE w == wires[i + 1]
      <4> DEFINE a == at[i]
      <4> DEFINE r == read[i].rest
      <4>1. /\ k = i /\ a <= Len(c) /\ r = SubSeq(c, a + 1, Len(c)) /\ a \in Nat
            /\ read[i].frames = SubSeq(written, 1, i) /\ \A j \in 1..i : ~Bad(j)
        BY <1>5, <3>1, <3>2, <3>5
      <4>2. /\ f \in Frames /\ Fits(Len(f.body)) /\ w \in Seq(Nat) /\ w = Wire(version, f)
        BY <1>2, <3>1
      <4>3. /\ at[i + 1] = a + Len(w) /\ at[i + 1] <= Len(stream)
            /\ \A j \in 1..Len(w) : stream[a + j] = w[j]
        BY <1>5, <3>1
      <4> HIDE DEF a, f, w, r
      <4>4. r \in Seq(Nat) /\ Len(r) = Len(c) - a /\ \A j \in 1..Len(c) - a : r[j] = c[a + j]
        <5>1. a \in Nat /\ 0 \in Nat /\ a + 0 <= Len(c)
          BY <4>1
        <5>2. r = SubSeq(c, a + 1, Len(c))
          BY <4>1
        <5> QED
          BY <5>1, <5>2, RestOfRest, SMTT(30)
      <4>5. Len(w) \in Nat /\ Len(r) \in Nat
        BY <4>2, <4>4
      <4>6. Starts(r, w)
        <5> SUFFICES ASSUME NEW j \in 1..Len(r), j <= Len(w) PROVE r[j] = w[j]
          BY DEF Starts
        <5>1. j \in 1..Len(c) - a
          BY <4>4
        <5>2. a + j \in 1..Len(c)
          BY <2>2, <4>1, <5>1
        <5>3. c[a + j] = stream[a + j]
          BY <1>6, <5>2
        <5>4. j \in 1..Len(w)
          BY <4>5
        <5> QED
          BY <4>3, <4>4, <5>1, <5>3, <5>4
      <4>7. ReadFrame(r) =
              IF version > Version \/ Len(f.body) > MaxPayloadFor(f.tag) \/ Len(r) < Len(w)
                THEN Malformed
                ELSE Value([frame |-> f, rest |-> SubSeq(r, Len(w) + 1, Len(r))])
        BY <4>2, <4>4, <4>6, FrameIsReadOrRefused
      <4>8. Bad(i + 1) <=> version > Version \/ Len(f.body) > MaxPayloadFor(f.tag)
        BY DEF Bad, f
      <4>9. Len(r) < Len(w) <=> Len(c) < at[i + 1]
        BY <2>2, <4>1, <4>3, <4>4, <4>5
      <4>10. CASE Bad(i + 1) \/ Len(c) < at[i + 1]
        <5>1. ~ReadFrame(r).ok
          BY <4>7, <4>8, <4>9, <4>10 DEF Malformed
        <5>2. read[i + 1].frames = read[i].frames /\ ~read[i + 1].ok
          BY <3>3, <5>1 DEF ReadOn, Readers, r
        <5>3. k < n
          BY <1>1, <3>1, <4>1
        <5>4. Fair(i + 1, k)
          BY <4>1, <4>10, <5>2, <5>3
        <5> QED
          BY <5>4
      <4>11. CASE ~Bad(i + 1) /\ ~(Len(c) < at[i + 1])
        <5>1. ReadFrame(r) = Value([frame |-> f, rest |-> SubSeq(r, Len(w) + 1, Len(r))])
          BY <4>7, <4>8, <4>9, <4>11
        <5>2. /\ read[i + 1].frames = Append(read[i].frames, f) /\ read[i + 1].ok
              /\ read[i + 1].rest = SubSeq(r, Len(w) + 1, Len(r))
          <6> DEFINE q == SubSeq(r, Len(w) + 1, Len(r))
          <6> HIDE DEF q
          <6>1. ReadFrame(r).ok /\ ReadFrame(r).is.frame = f /\ ReadFrame(r).is.rest = q
            BY <5>1 DEF Value, q
          <6>2. read[i + 1] = [frames |-> Append(read[i].frames, f), rest |-> q, ok |-> TRUE]
            BY <3>3, <3>5, <6>1 DEF ReadOn, r
          <6> QED
            BY <6>2 DEF q
        <5>3. at[i + 1] <= Len(c) /\ a + Len(w) <= Len(c)
          BY <2>2, <4>1, <4>3, <4>5, <4>11
        <5>4. SubSeq(r, Len(w) + 1, Len(r)) = SubSeq(c, at[i + 1] + 1, Len(c))
          <6>1. SubSeq(r, Len(w) + 1, Len(r)) = SubSeq(c, a + Len(w) + 1, Len(c))
            <7>1. a \in Nat /\ Len(w) \in Nat /\ a + Len(w) <= Len(c)
              BY <4>1, <4>5, <5>3
            <7>2. r = SubSeq(c, a + 1, Len(c))
              BY <4>1
            <7> DEFINE b == Len(w)
            <7>3. b \in Nat /\ a + b <= Len(c)
              BY <7>1
            <7> HIDE DEF b
            <7>4. SubSeq(r, b + 1, Len(r)) = SubSeq(c, a + b + 1, Len(c))
              <8>1. a \in Nat
                BY <7>1
              <8>2. r = SubSeq(c, a + 1, Len(c)) /\ a + b <= Len(c) /\ b \in Nat
                BY <7>2, <7>3
              <8>3. ASSUME NEW x \in Nat, NEW y \in Nat, x + y <= Len(c), NEW z, z = SubSeq(c, x + 1, Len(c))
                    PROVE  SubSeq(z, y + 1, Len(z)) = SubSeq(c, x + y + 1, Len(c))
                BY <8>3, RestOfRest, SMTT(30)
              <8> QED
                BY <8>1, <8>2, <8>3
            <7> QED
              BY <7>4 DEF b
          <6> QED
            BY <4>3, <6>1
        <5>5. Append(read[i].frames, f) = SubSeq(written, 1, i + 1)
          <6>1. i <= Len(written) /\ i < Len(written)
            BY <1>1, <3>1 DEF n
          <6> QED
            BY <4>1, <6>1, OneLonger DEF f
        <5>6. \A j \in 1..i + 1 : ~Bad(j)
          <6>1. \A j \in 1..i + 1 : j \in 1..i \/ j = i + 1
            OBVIOUS
          <6> QED
            BY <4>1, <4>11, <6>1
        <5>7. Fair(i + 1, i + 1)
          BY <5>2, <5>3, <5>4, <5>5, <5>6
        <5> QED
          BY <3>1, <5>7
      <4> QED
        BY <4>10, <4>11
    <3> QED
      BY <3>4, <3>5
  <2>5. n \in Good
    <3> HIDE DEF Good
    <3> QED
      BY <1>1, <2>3, <2>4, AllNaturals
  <2>6. PICK k \in 0..n : Fair(n, k)
    <3> HIDE DEF Fair
    <3>1. n <= n
      BY <1>1
    <3> QED
      BY <2>5, <3>1
  <2>7. k < n => Bad(k + 1) \/ Len(c) < at[k + 1]
    BY <1>1, <2>6
  <2> QED
    BY <2>1, <2>6, <2>7
<1> DEFINE refused == {i \in DOMAIN written : version > Version \/ Len(written[i].body) > MaxPayloadFor(written[i].tag)}
<1> DEFINE readable == IF refused = {} THEN Len(written) ELSE Min(refused) - 1
<1>7. refused = {i \in 1..n : Bad(i)}
  BY <1>1 DEF Bad
<1>8. ReadFrames(stream, n) = SubSeq(written, 1, readable)
  <2>1. PICK k \in 0..n :
          /\ ReadFrames(stream, n) = SubSeq(written, 1, k)
          /\ \A j \in 1..k : ~Bad(j)
          /\ k < n => Bad(k + 1) \/ Len(stream) < at[k + 1]
    <3>1. Len(stream) <= Len(stream)
      BY <1>4
    <3> QED
      BY <1>4, <1>6, <3>1
  <2> HIDE DEF refused
  <2>2. readable = k
    <3>1. CASE k < n
      <4>1. k + 1 \in 1..n
        BY <1>1, <3>1
      <4>2. at[k + 1] \in Nat /\ at[k + 1] <= Len(stream) /\ Len(stream) \in Nat
        BY <1>1, <1>4, <1>5, <4>1
      <4>3. Bad(k + 1)
        BY <2>1, <3>1, <4>2
      <4>4. k + 1 \in refused
        BY <1>7, <4>1, <4>3
      <4>5. \A j \in refused : j \in 1..n /\ k + 1 <= j
        <5> SUFFICES ASSUME NEW j \in 1..n, Bad(j) PROVE k + 1 <= j
          BY <1>7
        <5>1. ~(j \in 1..k)
          BY <2>1
        <5> QED
          BY <1>1, <5>1
      <4>6. \A x \in refused : (\A y \in refused : x =< y) => x = k + 1
        BY <1>1, <4>4, <4>5
      <4>7. Min(refused) = k + 1
        BY <4>4, <4>5, <4>6 DEF Min
      <4> QED
        BY <1>1, <4>4, <4>7
    <3>2. CASE ~(k < n)
      <4>1. k = n
        BY <1>1, <3>2
      <4>2. refused = {}
        BY <1>7, <2>1, <4>1
      <4> QED
        BY <4>1, <4>2 DEF n
    <3> QED
      BY <3>1, <3>2
  <2> QED
    BY <2>1, <2>2
<1>9. ASSUME NEW cut \in 0..Len(stream) PROVE IsPrefix(ReadFrames(SubSeq(stream, 1, cut), n), written)
  <2> DEFINE c == SubSeq(stream, 1, cut)
  <2>1. c \in Seq(Nat) /\ Len(c) = cut /\ Len(c) <= Len(stream) /\ \A j \in 1..Len(c) : c[j] = stream[j]
    BY <1>4
  <2> HIDE DEF c
  <2>2. PICK k \in 0..n : ReadFrames(c, n) = SubSeq(written, 1, k)
    BY <1>6, <2>1
  <2>3. k \in Nat /\ k <= Len(written)
    BY <1>1 DEF n
  <2>4. Len(SubSeq(written, 1, k)) = k /\ SubSeq(SubSeq(written, 1, k), 1, k) = SubSeq(written, 1, k)
    BY <2>3, OneLonger
  <2> QED
    BY <2>2, <2>3, <2>4 DEF IsPrefix, c
<1> QED
  BY <1>8, <1>9 DEF WrittenSurvive, stream, wires, n

-----------------------------------------------------------------------------
(* Sequences, one element after the other.                                 *)

\* What is appended, where it is, and that nothing else changes.
LEMMA Appended ==
  ASSUME NEW C, NEW s \in Seq(C), NEW c \in C
  PROVE  /\ Append(s, c) \in Seq(C) /\ Len(Append(s, c)) = Len(s) + 1 /\ Len(s) \in Nat
         /\ Append(s, c)[Len(s) + 1] = c /\ \A i \in 1..Len(s) : Append(s, c)[i] = s[i]
         /\ DOMAIN s = 1..Len(s) /\ DOMAIN Append(s, c) = 1..Len(s) + 1
         /\ Append(s, c) # <<>>
BY AppendProperties

\* A set with the empty sequence, and with each longer one that continues one
\* of its own, has all sequences.
LEMMA AllSequences ==
  ASSUME NEW C, NEW G, <<>> \in G, \A s \in Seq(C), c \in C : s \in G => Append(s, c) \in G
  PROVE  \A s \in Seq(C) : s \in G
<1> DEFINE Good == {n \in Nat : \A s \in Seq(C) : Len(s) = n => s \in G}
<1>1. 0 \in Good
  <2> SUFFICES ASSUME NEW s \in Seq(C), Len(s) = 0 PROVE s \in G
    OBVIOUS
  <2>1. s = <<>>
    OBVIOUS
  <2> QED
    BY <2>1
<1>2. ASSUME NEW n \in Nat, n \in Good PROVE n + 1 \in Good
  <2> SUFFICES ASSUME NEW s \in Seq(C), Len(s) = n + 1 PROVE s \in G
    OBVIOUS
  <2>1. PICK t \in Seq(C), c \in C : s = Append(t, c)
    <3> DEFINE t == SubSeq(s, 1, n)
    <3>1. t \in Seq(C) /\ Len(t) = n /\ s[n + 1] \in C
      OBVIOUS
    <3>2. s = Append(t, s[n + 1])
      <4>1. /\ Append(t, s[n + 1]) \in Seq(C) /\ Len(Append(t, s[n + 1])) = n + 1
            /\ \A i \in 1..n + 1 : Append(t, s[n + 1])[i] = s[i]
        BY <3>1
      <4> QED
        BY <4>1, SeqEqual
    <3> QED
      BY <3>1, <3>2
  <2>2. Len(t) = n
    BY <2>1, Appended
  <2>3. t \in G
    BY <1>2, <2>2
  <2> QED
    BY <2>1, <2>3
<1>3. \A n \in Nat : n \in Good
  <2> HIDE DEF Good
  <2> QED
    BY <1>1, <1>2, AllNaturals
<1> QED
  BY <1>3

\* What is appended can be told from the result.
LEMMA AppendIsInjective ==
  ASSUME NEW C, NEW s \in Seq(C), NEW t \in Seq(C), NEW c \in C, NEW d \in C,
         Append(s, c) = Append(t, d)
  PROVE  s = t /\ c = d
<1>1. Len(s) = Len(t)
  BY Appended
<1>2. c = d
  BY <1>1, Appended
<1>3. \A i \in 1..Len(s) : s[i] = t[i]
  <2> SUFFICES ASSUME NEW i \in 1..Len(s) PROVE s[i] = t[i]
    OBVIOUS
  <2>1. Append(s, c)[i] = s[i] /\ Append(t, d)[i] = t[i]
    BY <1>1, Appended
  <2> QED
    BY <2>1
<1>4. s = t
  BY <1>1, <1>3, SeqEqual
<1> QED
  BY <1>2, <1>4

\* Concatenation and Append.
LEMMA Behind ==
  ASSUME NEW C, NEW s \in Seq(C), NEW t \in Seq(C), NEW c \in C
  PROVE  /\ s \o t \in Seq(C) /\ s \o <<>> = s /\ <<>> \o s = s
         /\ s \o Append(t, c) = Append(s \o t, c) /\ s \o <<c>> = Append(s, c)
<1>1. s \o t \in Seq(C) /\ s \o <<>> = s /\ <<>> \o s = s
  OBVIOUS
<1>2. s \o Append(t, c) = Append(s \o t, c)
  OBVIOUS
<1>3. s \o <<c>> = Append(s, c)
  OBVIOUS
<1> QED
  BY <1>1, <1>2, <1>3

-----------------------------------------------------------------------------
(* What a machine makes of a sequence, one element after the other.        *)

\* A machine with these states, and what it reads.
Machine(step, S, C) == step \in [S \X C -> S]

\* f has the states of a machine that starts from a and reads s.
Walks(f, step, a, s) == f = [i \in 0..Len(s) |-> IF i = 0 THEN a ELSE step[<<f[i - 1], s[i]>>]]

\* The state it ends in.
Walk(step, a, s) == (CHOOSE f : Walks(f, step, a, s))[Len(s)]

\* The states from a to the end, one step after the other.
Trace(f, S, step, a, s) ==
  /\ f \in [0..Len(s) -> S]
  /\ f[0] = a /\ \A i \in 1..Len(s) : f[i] = step[<<f[i - 1], s[i]>>]
  /\ Walk(step, a, s) = f[Len(s)]

\* There are such states.
LEMMA WalkExists ==
  ASSUME NEW S, NEW C, NEW step, Machine(step, S, C), NEW a \in S, NEW s \in Seq(C)
  PROVE  \E f : Trace(f, S, step, a, s)
<1> DEFINE n == Len(s)
<1>1. n \in Nat /\ \A i \in 1..n : s[i] \in C
  OBVIOUS
<1> DEFINE go == [p \in Nat \X S |-> IF p[1] \in 1..n THEN step[<<p[2], s[p[1]]>>] ELSE a]
<1>2. go \in [Nat \X S -> S]
  <2>1. ASSUME NEW p \in Nat \X S, p[1] \in 1..n PROVE step[<<p[2], s[p[1]]>>] \in S
    BY <1>1, <2>1 DEF Machine
  <2> QED
    BY <2>1
<1>3. PICK f \in [0..n -> S] : Runs(f, n, a, go)
  <2> HIDE DEF go, n
  <2> QED
    BY <1>1, <1>2, RunExists
<1>4. Walks(f, step, a, s)
  <2>1. ASSUME NEW i \in 0..n, i # 0 PROVE go[<<i, f[i - 1]>>] = step[<<f[i - 1], s[i]>>]
    <3>1. i - 1 \in 0..n /\ i \in 1..n /\ i \in Nat
      BY <1>1, <2>1
    <3>2. <<i, f[i - 1]>> \in Nat \X S
      BY <3>1
    <3> HIDE DEF n
    <3> QED
      BY <3>1, <3>2
  <2> HIDE DEF go
  <2> QED
    BY <1>3, <2>1 DEF Runs, Walks
<1> DEFINE g == CHOOSE x : Walks(x, step, a, s)
<1>5. Walks(g, step, a, s)
  BY <1>4
<1>6. Walk(step, a, s) = g[n]
  BY DEF Walk
<1> HIDE DEF g, n
<1>7. g[0] = a /\ \A i \in 1..n : g[i] = step[<<g[i - 1], s[i]>>]
  BY <1>1, <1>5 DEF Walks, n
<1>8. DOMAIN g = 0..n /\ g = [i \in 0..n |-> g[i]]
  BY <1>5 DEF Walks, n
<1>9. \A i \in 0..n : g[i] \in S
  <2> DEFINE Good == {k \in Nat : k <= n => g[k] \in S}
  <2>1. 0 \in Good
    BY <1>7
  <2>2. ASSUME NEW k \in Nat, k \in Good PROVE k + 1 \in Good
    <3> SUFFICES ASSUME k + 1 <= n PROVE g[k + 1] \in S
      OBVIOUS
    <3>1. k + 1 \in 1..n /\ (k + 1) - 1 = k /\ g[k] \in S
      BY <1>1, <2>2
    <3>2. s[k + 1] \in C /\ g[k + 1] = step[<<g[k], s[k + 1]>>]
      BY <1>1, <1>7, <3>1
    <3> QED
      BY <3>1, <3>2 DEF Machine
  <2> HIDE DEF Good
  <2>3. \A k \in Nat : k \in Good
    BY <2>1, <2>2, AllNaturals
  <2> QED
    BY <1>1, <2>3 DEF Good
<1>10. g \in [0..n -> S]
  BY <1>8, <1>9
<1> QED
  BY <1>6, <1>7, <1>10 DEF n, Trace

\* A walk of one step more.
LEMMA WalkOn ==
  ASSUME NEW S, NEW C, NEW step, Machine(step, S, C), NEW a \in S
  PROVE  /\ Walk(step, a, <<>>) = a
         /\ \A s \in Seq(C) : Walk(step, a, s) \in S
         /\ \A s \in Seq(C), c \in C : Walk(step, a, Append(s, c)) = step[<<Walk(step, a, s), c>>]
<1>1. Walk(step, a, <<>>) = a
  <2>1. <<>> \in Seq(C) /\ Len(<<>>) = 0
    OBVIOUS
  <2>2. PICK f : Trace(f, S, step, a, <<>>)
    BY <2>1, WalkExists
  <2> QED
    BY <2>1, <2>2 DEF Trace
<1>2. ASSUME NEW s \in Seq(C) PROVE Walk(step, a, s) \in S
  <2>1. Len(s) \in 0..Len(s)
    OBVIOUS
  <2>2. PICK f : Trace(f, S, step, a, s)
    BY WalkExists
  <2> QED
    BY <2>1, <2>2 DEF Trace
<1>3. ASSUME NEW s \in Seq(C), NEW c \in C
      PROVE  Walk(step, a, Append(s, c)) = step[<<Walk(step, a, s), c>>]
  <2> DEFINE n == Len(s)
  <2> DEFINE t == Append(s, c)
  <2>1. n \in Nat /\ t \in Seq(C) /\ Len(t) = n + 1 /\ t[n + 1] = c /\ \A i \in 1..n : t[i] = s[i]
    BY Appended
  <2>2. PICK f :
          /\ f \in [0..n -> S]
          /\ f[0] = a /\ \A i \in 1..n : f[i] = step[<<f[i - 1], s[i]>>]
          /\ Walk(step, a, s) = f[n]
    <3>1. \E f : Trace(f, S, step, a, s)
      BY WalkExists
    <3> QED
      BY <3>1 DEF Trace
  <2>3. PICK g :
          /\ g \in [0..n + 1 -> S]
          /\ g[0] = a /\ \A i \in 1..n + 1 : g[i] = step[<<g[i - 1], t[i]>>]
          /\ Walk(step, a, t) = g[n + 1]
    <3> HIDE DEF t
    <3>1. \E g : Trace(g, S, step, a, t)
      BY <2>1, WalkExists
    <3> HIDE DEF n
    <3> QED
      BY <2>1, <3>1 DEF Trace
  <2> HIDE DEF t, n
  <2> DEFINE Good == {k \in Nat : k <= n => g[k] = f[k]}
  <2>4. 0 \in Good
    BY <2>2, <2>3
  <2>5. ASSUME NEW k \in Nat, k \in Good PROVE k + 1 \in Good
    <3> SUFFICES ASSUME k + 1 <= n PROVE g[k + 1] = f[k + 1]
      OBVIOUS
    <3>1. k + 1 \in 1..n /\ k + 1 \in 1..n + 1 /\ (k + 1) - 1 = k /\ g[k] = f[k]
      BY <2>1, <2>5
    <3>2. t[k + 1] = s[k + 1]
      BY <2>1, <3>1
    <3> QED
      BY <2>2, <2>3, <3>1, <3>2
  <2>6. g[n] = f[n]
    <3> HIDE DEF Good
    <3>1. \A k \in Nat : k \in Good
      BY <2>4, <2>5, AllNaturals
    <3> QED
      BY <2>1, <3>1 DEF Good
  <2>7. n + 1 \in 1..n + 1 /\ (n + 1) - 1 = n
    BY <2>1
  <2> QED
    BY <2>1, <2>2, <2>3, <2>6, <2>7 DEF t
<1> QED
  BY <1>1, <1>2, <1>3

\* A walk over two sequences is a walk over the second from where the walk over
\* the first has ended.
LEMMA WalkThrough ==
  ASSUME NEW S, NEW C, NEW step, Machine(step, S, C), NEW a \in S, NEW s \in Seq(C), NEW t \in Seq(C)
  PROVE  Walk(step, a, s \o t) = Walk(step, Walk(step, a, s), t)
<1> DEFINE b == Walk(step, a, s)
<1>1. b \in S
  BY WalkOn
<1> HIDE DEF b
<1> DEFINE G == {u \in Seq(C) : Walk(step, a, s \o u) = Walk(step, b, u)}
<1>2. <<>> \in G
  <2>1. s \o <<>> = s /\ <<>> \in Seq(C)
    OBVIOUS
  <2>2. Walk(step, b, <<>>) = b
    BY <1>1, WalkOn
  <2> QED
    BY <2>1, <2>2 DEF b
<1>3. ASSUME NEW u \in Seq(C), NEW c \in C, u \in G PROVE Append(u, c) \in G
  <2>1. s \o Append(u, c) = Append(s \o u, c) /\ s \o u \in Seq(C) /\ Append(u, c) \in Seq(C)
    BY Behind, Appended
  <2> DEFINE w == s \o u
  <2>2. Walk(step, a, Append(w, c)) = step[<<Walk(step, a, w), c>>]
    <3>1. w \in Seq(C)
      BY <2>1
    <3> HIDE DEF w
    <3> QED
      BY <3>1, WalkOn
  <2>3. Walk(step, b, Append(u, c)) = step[<<Walk(step, b, u), c>>]
    BY <1>1, WalkOn
  <2> QED
    BY <1>3, <2>1, <2>2, <2>3
<1>4. t \in G
  <2> HIDE DEF G
  <2> QED
    BY <1>2, <1>3, AllSequences
<1> QED
  BY <1>4 DEF b

\* What holds at the start of a walk, and is kept by each step, holds at its end.
LEMMA AlongTheWalk ==
  ASSUME NEW S, NEW C, NEW step, Machine(step, S, C), NEW a \in S, NEW R, <<<<>>, a>> \in R,
         \A s \in Seq(C), st \in S, c \in C : <<s, st>> \in R => <<Append(s, c), step[<<st, c>>]>> \in R
  PROVE  \A s \in Seq(C) : Walk(step, a, s) \in S /\ <<s, Walk(step, a, s)>> \in R
<1> DEFINE G == {s \in Seq(C) : <<s, Walk(step, a, s)>> \in R}
<1>1. <<>> \in G
  BY WalkOn
<1>2. ASSUME NEW s \in Seq(C), NEW c \in C, s \in G PROVE Append(s, c) \in G
  <2> DEFINE st == Walk(step, a, s)
  <2>1. st \in S /\ <<s, st>> \in R /\ Append(s, c) \in Seq(C)
    BY <1>2, WalkOn, Appended
  <2>2. Walk(step, a, Append(s, c)) = step[<<st, c>>]
    BY WalkOn
  <2> HIDE DEF st
  <2>3. <<Append(s, c), step[<<st, c>>]>> \in R
    BY <2>1
  <2> QED
    BY <2>1, <2>2, <2>3
<1>3. \A s \in Seq(C) : s \in G
  <2> HIDE DEF G
  <2> QED
    BY <1>1, <1>2, AllSequences
<1>4. \A s \in Seq(C) : Walk(step, a, s) \in S
  BY WalkOn
<1> QED
  BY <1>3, <1>4

\* The sums of the first of the sequences, up to all of them.
Flattens(f, S, seqs) ==
  /\ f \in [0..Len(seqs) -> Seq(S)]
  /\ FlattenSeq(seqs) = f[Len(seqs)]
  /\ f[0] = <<>>
  /\ \A i \in 1..Len(seqs) : f[i] = f[i - 1] \o seqs[i]

\* There are such sums.
LEMMA FlattenExists ==
  ASSUME NEW S, NEW seqs \in Seq(Seq(S))
  PROVE  \E f : Flattens(f, S, seqs)
<1>1. PICK f \in [0..Len(seqs) -> Seq(S)] :
        /\ FlattenSeq(seqs) = f[Len(seqs)]
        /\ f[0] = <<>>
        /\ \A i \in 1..Len(seqs) : f[i] = f[i - 1] \o seqs[i]
  BY FlattenIs
<1> QED
  BY <1>1 DEF Flattens

\* FlattenSeq puts one sequence behind the other.
LEMMA FlattenOn ==
  ASSUME NEW S
  PROVE  /\ FlattenSeq(<<>>) = <<>>
         /\ \A seqs \in Seq(Seq(S)) : FlattenSeq(seqs) \in Seq(S)
         /\ \A seqs \in Seq(Seq(S)), t \in Seq(S) : FlattenSeq(Append(seqs, t)) = FlattenSeq(seqs) \o t
<1>1. FlattenSeq(<<>>) = <<>>
  <2> DEFINE none == <<>>
  <2>1. none \in Seq(Seq(S)) /\ Len(none) = 0
    OBVIOUS
  <2> HIDE DEF none
  <2>2. \E f : Flattens(f, S, none)
    BY <2>1, FlattenExists
  <2>3. FlattenSeq(none) = <<>>
    BY <2>1, <2>2 DEF Flattens
  <2> QED
    BY <2>3 DEF none
<1>2. ASSUME NEW seqs \in Seq(Seq(S)) PROVE FlattenSeq(seqs) \in Seq(S)
  <2>1. PICK f : Flattens(f, S, seqs)
    BY FlattenExists
  <2>2. Len(seqs) \in 0..Len(seqs)
    OBVIOUS
  <2> QED
    BY <2>1, <2>2 DEF Flattens
<1>3. ASSUME NEW seqs \in Seq(Seq(S)), NEW t \in Seq(S)
      PROVE  FlattenSeq(Append(seqs, t)) = FlattenSeq(seqs) \o t
  <2> DEFINE n == Len(seqs)
  <2> DEFINE more == Append(seqs, t)
  <2>1. /\ n \in Nat /\ more \in Seq(Seq(S)) /\ Len(more) = n + 1 /\ more[n + 1] = t
        /\ \A i \in 1..n : more[i] = seqs[i]
    BY Appended
  <2>2. PICK f :
          /\ f \in [0..n -> Seq(S)] /\ FlattenSeq(seqs) = f[n] /\ f[0] = <<>>
          /\ \A i \in 1..n : f[i] = f[i - 1] \o seqs[i]
    <3>1. \E f : Flattens(f, S, seqs)
      BY FlattenExists
    <3> QED
      BY <3>1 DEF Flattens
  <2>3. PICK g :
          /\ g \in [0..n + 1 -> Seq(S)] /\ FlattenSeq(more) = g[n + 1] /\ g[0] = <<>>
          /\ \A i \in 1..n + 1 : g[i] = g[i - 1] \o more[i]
    <3> HIDE DEF more
    <3>1. \E g : Flattens(g, S, more)
      BY <2>1, FlattenExists
    <3> HIDE DEF n
    <3> QED
      BY <2>1, <3>1 DEF Flattens
  <2> HIDE DEF more, n
  <2> DEFINE Good == {k \in Nat : k <= n => g[k] = f[k]}
  <2>4. 0 \in Good
    BY <2>2, <2>3
  <2>5. ASSUME NEW k \in Nat, k \in Good PROVE k + 1 \in Good
    <3> SUFFICES ASSUME k + 1 <= n PROVE g[k + 1] = f[k + 1]
      OBVIOUS
    <3>1. k + 1 \in 1..n /\ k + 1 \in 1..n + 1 /\ (k + 1) - 1 = k /\ g[k] = f[k]
      BY <2>1, <2>5
    <3>2. more[k + 1] = seqs[k + 1]
      BY <2>1, <3>1
    <3>3. g[k + 1] = g[k] \o more[k + 1]
      BY <2>3, <3>1
    <3>4. f[k + 1] = f[k] \o seqs[k + 1]
      BY <2>2, <3>1
    <3> QED
      BY <3>1, <3>2, <3>3, <3>4
  <2>6. g[n] = f[n]
    <3> HIDE DEF Good
    <3>1. \A k \in Nat : k \in Good
      BY <2>4, <2>5, AllNaturals
    <3>2. n \in Nat /\ n \in Good
      BY <2>1, <3>1
    <3> QED
      BY <3>2 DEF Good
  <2>7. n + 1 \in 1..n + 1 /\ (n + 1) - 1 = n
    BY <2>1
  <2>8. g[n + 1] = g[n] \o more[n + 1]
    BY <2>3, <2>7
  <2> QED
    BY <2>1, <2>2, <2>3, <2>6, <2>8 DEF more
<1> QED
  BY <1>1, <1>2, <1>3

\* A function over the elements of a sequence.
Mapped(h, s) == [i \in DOMAIN s |-> h[s[i]]]

\* What it makes of nothing, and of one element more.
MapsOn(h, C, D) ==
  /\ Mapped(h, <<>>) = <<>>
  /\ \A s \in Seq(C) : Mapped(h, s) \in Seq(D) /\ Len(Mapped(h, s)) = Len(s)
  /\ \A s \in Seq(C), c \in C : Mapped(h, Append(s, c)) = Append(Mapped(h, s), h[c])

\* One element after the other.
LEMMA MapOn ==
  ASSUME NEW C, NEW D, NEW h, h \in [C -> D]
  PROVE  MapsOn(h, C, D)
<1>1. Mapped(h, <<>>) = <<>>
  BY DEF Mapped
<1>2. ASSUME NEW s \in Seq(C) PROVE Mapped(h, s) \in Seq(D) /\ Len(Mapped(h, s)) = Len(s)
  BY DEF Mapped
<1>3. ASSUME NEW s \in Seq(C), NEW c \in C PROVE Mapped(h, Append(s, c)) = Append(Mapped(h, s), h[c])
  <2> DEFINE t == Append(s, c)
  <2> DEFINE u == Append(Mapped(h, s), h[c])
  <2> DEFINE n == Len(s)
  <2>1. t \in Seq(C) /\ Len(t) = n + 1 /\ t[n + 1] = c /\ n \in Nat /\ \A i \in 1..n : t[i] = s[i]
    BY Appended
  <2>2. h[c] \in D /\ Mapped(h, s) \in Seq(D) /\ Len(Mapped(h, s)) = n
    BY <1>2
  <2>3. u \in Seq(D) /\ Len(u) = n + 1 /\ u[n + 1] = h[c] /\ \A i \in 1..n : u[i] = Mapped(h, s)[i]
    BY <2>2, Appended
  <2>4. \A i \in 1..n : Mapped(h, s)[i] = h[s[i]]
    BY DEF Mapped
  <2> HIDE DEF t, u, n
  <2>5. Mapped(h, t) \in Seq(D) /\ Len(Mapped(h, t)) = n + 1 /\ \A i \in 1..n + 1 : Mapped(h, t)[i] = h[t[i]]
    BY <1>2, <2>1 DEF Mapped
  <2>6. \A i \in 1..n + 1 : Mapped(h, t)[i] = u[i]
    BY <2>1, <2>3, <2>4, <2>5
  <2> QED
    BY <2>3, <2>5, <2>6, SeqEqual DEF t, u
<1> QED
  BY <1>1, <1>2, <1>3 DEF MapsOn

\* What Without makes of nothing, and of one element more.
TakesOn(C, left) ==
  /\ Without(<<>>, left) = <<>>
  /\ \A s \in Seq(C) : Without(s, left) \in Seq(C)
  /\ \A s \in Seq(C), c \in C :
       Without(Append(s, c), left) = IF c \in left THEN Without(s, left) ELSE Append(Without(s, left), c)

\* Without takes one element after the other.
LEMMA WithoutOn ==
  ASSUME NEW C, NEW left
  PROVE  TakesOn(C, left)
<1> DEFINE T == Seq(C)
<1> DEFINE step == [p \in T \X C |-> IF p[2] \in left THEN p[1] ELSE Append(p[1], p[2])]
<1> DEFINE nothing == <<>>
<1>1. \A k \in T, c \in C : Append(k, c) \in T
  OBVIOUS
<1>2. nothing \in T
  OBVIOUS
<1>3. \A s \in Seq(C) : Len(s) \in Nat /\ \A i \in 1..Len(s) : s[i] \in C
  OBVIOUS
<1>4. <<>> \in Seq(C) /\ \A s \in Seq(C), c \in C : Append(s, c) \in Seq(C)
  OBVIOUS
<1> HIDE DEF T
<1>5. Machine(step, T, C)
  BY <1>1 DEF Machine
<1>6. ASSUME NEW s \in Seq(C) PROVE Without(s, left) = Walk(step, nothing, s)
  <2> DEFINE n == Len(s)
  <2>1. n \in Nat /\ \A i \in 1..n : s[i] \in C
    BY <1>3
  <2>2. PICK f : Trace(f, T, step, nothing, s)
    <3> HIDE DEF step, nothing
    <3> QED
      BY <1>2, <1>5, WalkExists
  <2>3. f \in [0..n -> T] /\ f[0] = nothing /\ Walk(step, nothing, s) = f[n] /\ \A i \in 1..n : f[i] = step[<<f[i - 1], s[i]>>]
    <3> HIDE DEF step, nothing
    <3> QED
      BY <2>2 DEF Trace
  <2> DEFINE Is(x) == x = [i \in 0..n |-> IF i = 0 THEN nothing ELSE IF s[i] \in left THEN x[i - 1] ELSE Append(x[i - 1], s[i])]
  <2> DEFINE g == CHOOSE x : Is(x)
  <2>4. Without(s, left) = g[n]
    BY DEF Without
  <2> HIDE DEF n, nothing
  <2>5. ASSUME NEW i \in 1..n PROVE f[i] = IF s[i] \in left THEN f[i - 1] ELSE Append(f[i - 1], s[i])
    <3>1. f[i - 1] \in T /\ s[i] \in C
      <4>1. i - 1 \in 0..n
        BY <2>1
      <4> QED
        BY <2>1, <2>3, <4>1
    <3>2. f[i] = step[<<f[i - 1], s[i]>>]
      BY <2>3
    <3> QED
      BY <3>1, <3>2
  <2>6. Is(f)
    <3>1. DOMAIN f = 0..n /\ f = [i \in 0..n |-> f[i]]
      BY <2>3
    <3>2. ASSUME NEW i \in 0..n
          PROVE  f[i] = IF i = 0 THEN nothing ELSE IF s[i] \in left THEN f[i - 1] ELSE Append(f[i - 1], s[i])
      <4>1. CASE i = 0
        BY <2>3, <4>1
      <4>2. CASE i # 0
        <5>1. i \in 1..n
          BY <2>1, <4>2
        <5> QED
          BY <2>5, <4>2, <5>1
      <4> QED
        BY <4>1, <4>2
    <3> QED
      BY <3>1, <3>2
  <2>7. Is(g)
    BY <2>6
  <2> HIDE DEF g
  <2> DEFINE Good == {k \in Nat : k <= n => g[k] = f[k]}
  <2>8. 0 \in Good
    BY <2>1, <2>3, <2>7
  <2>9. ASSUME NEW k \in Nat, k \in Good PROVE k + 1 \in Good
    <3> SUFFICES ASSUME k + 1 <= n PROVE g[k + 1] = f[k + 1]
      OBVIOUS
    <3>1. k + 1 \in 1..n /\ k + 1 \in 0..n /\ k + 1 # 0 /\ (k + 1) - 1 = k /\ g[k] = f[k]
      BY <2>1, <2>9
    <3>2. g[k + 1] = IF s[k + 1] \in left THEN g[k] ELSE Append(g[k], s[k + 1])
      BY <2>7, <3>1
    <3>3. f[k + 1] = IF s[k + 1] \in left THEN f[k] ELSE Append(f[k], s[k + 1])
      BY <2>5, <3>1
    <3> QED
      BY <3>1, <3>2, <3>3
  <2>10. g[n] = f[n]
    <3> HIDE DEF Good
    <3>1. \A k \in Nat : k \in Good
      BY <2>8, <2>9, AllNaturals
    <3> QED
      BY <2>1, <3>1 DEF Good
  <2> QED
    BY <2>3, <2>4, <2>10
<1>7. ASSUME NEW s \in Seq(C), NEW c \in C
      PROVE  Without(Append(s, c), left) = IF c \in left THEN Without(s, left) ELSE Append(Without(s, left), c)
  <2> DEFINE w == Walk(step, nothing, s)
  <2>1. w \in T /\ Walk(step, nothing, Append(s, c)) = step[<<w, c>>]
    <3> HIDE DEF step, nothing
    <3> QED
      BY <1>2, <1>5, WalkOn
  <2>2. Without(Append(s, c), left) = step[<<w, c>>] /\ Without(s, left) = w
    BY <1>4, <1>6, <2>1
  <2> HIDE DEF w
  <2> QED
    BY <2>1, <2>2
<1>8. Without(<<>>, left) = <<>>
  <2>1. Walk(step, nothing, <<>>) = nothing
    <3> HIDE DEF step, nothing
    <3> QED
      BY <1>2, <1>5, WalkOn
  <2>2. Without(<<>>, left) = Walk(step, nothing, <<>>)
    BY <1>4, <1>6
  <2> QED
    BY <2>1, <2>2
<1>9. \A s \in Seq(C) : Without(s, left) \in T
  <2> HIDE DEF step, nothing
  <2> QED
    BY <1>2, <1>5, <1>6, WalkOn
<1> QED
  BY <1>7, <1>8, <1>9 DEF T, TakesOn

-----------------------------------------------------------------------------
(* The characters of a byte string, one after the other.                   *)

\* A digit is neither a comma nor a space, and stands for itself.
LEMMA DigitsForth ==
  ASSUME NEW d \in 0..9
  PROVE  /\ Digit[d + 1] \in DOMAIN DigitOf /\ DigitOf[Digit[d + 1]] = d
         /\ Digit[d + 1] # "," /\ Digit[d + 1] # " "
<1>1. /\ DOMAIN Digit = 1..10
      /\ \A i, j \in 1..10 : Digit[i] = Digit[j] => i = j
      /\ \A i \in 1..10 : Digit[i] # "," /\ Digit[i] # " "
  BY DEF Digit
<1> HIDE DEF Digit
<1> DEFINE k == d + 1
<1>2. k \in 1..10 /\ k - 1 = d
  OBVIOUS
<1> HIDE DEF k
<1>3. DOMAIN DigitOf = ToSet(Digit) /\ Digit[k] \in ToSet(Digit)
  BY <1>1, <1>2 DEF DigitOf, ToSet
<1>4. (CHOOSE i \in 1..10 : Digit[i] = Digit[k]) = k
  BY <1>1, <1>2
<1>5. DigitOf[Digit[k]] = (CHOOSE i \in 1..10 : Digit[i] = Digit[k]) - 1
  BY <1>3 DEF DigitOf
<1>6. Digit[k] \in DOMAIN DigitOf /\ DigitOf[Digit[k]] = d
  BY <1>1, <1>2, <1>3, <1>4, <1>5
<1>7. Digit[k] # "," /\ Digit[k] # " "
  BY <1>1, <1>2, <1>3, <1>4, <1>5
<1> QED
  BY <1>6, <1>7 DEF k

\* What stands for a digit is a natural number, and no comma or space.
LEMMA DigitsAreNaturals ==
  ASSUME NEW c \in DOMAIN DigitOf
  PROVE  DigitOf[c] \in Nat /\ c # "," /\ c # " "
<1>1. DOMAIN Digit = 1..10 /\ \A i \in 1..10 : Digit[i] # "," /\ Digit[i] # " "
  BY DEF Digit
<1>2. PICK i \in 1..10 : Digit[i] = c
  BY <1>1 DEF DigitOf, ToSet
<1> DEFINE k == CHOOSE d \in 1..10 : Digit[d] = c
<1>3. k \in 1..10
  BY <1>2
<1>4. DigitOf[c] = k - 1
  BY DEF DigitOf
<1> HIDE DEF k
<1>5. DigitOf[c] \in Nat
  BY <1>3, <1>4
<1>6. c # "," /\ c # " "
  BY <1>1, <1>2
<1> QED
  BY <1>5, <1>6

\* One element behind one or two.
LEMMA OneBehind ==
  ASSUME NEW S, NEW x \in S, NEW y \in S, NEW z \in S
  PROVE  <<y>> \o <<z>> = <<y, z>> /\ <<x, y>> \o <<z>> = <<x, y, z>>
<1> DEFINE one == <<z>>
<1>1. one \in Seq(S) /\ Len(one) = 1 /\ one[1] = z
  OBVIOUS
<1>2. <<y>> \o one = <<y, z>>
  <2> DEFINE s == <<y>>
  <2> DEFINE u == <<y, z>>
  <2>1. s \in Seq(S) /\ Len(s) = 1 /\ s[1] = y
    OBVIOUS
  <2>2. u \in Seq(S) /\ Len(u) = 2 /\ u[1] = y /\ u[2] = z
    OBVIOUS
  <2> HIDE DEF s, u, one
  <2>3. s \o one \in Seq(S) /\ Len(s \o one) = 2 /\ (s \o one)[1] = y /\ (s \o one)[2] = z
    BY <1>1, <2>1, ConcatProperties
  <2>4. \A i \in 1..2 : (s \o one)[i] = u[i]
    BY <2>2, <2>3
  <2>5. s \o one = u
    BY <2>2, <2>3, <2>4, SeqEqual
  <2> QED
    BY <2>5 DEF s, u
<1>3. <<x, y>> \o one = <<x, y, z>>
  <2> DEFINE s == <<x, y>>
  <2> DEFINE u == <<x, y, z>>
  <2>1. s \in Seq(S) /\ Len(s) = 2 /\ s[1] = x /\ s[2] = y
    OBVIOUS
  <2>2. u \in Seq(S) /\ Len(u) = 3 /\ u[1] = x /\ u[2] = y /\ u[3] = z
    OBVIOUS
  <2> HIDE DEF s, u, one
  <2>3. /\ s \o one \in Seq(S) /\ Len(s \o one) = 3
        /\ (s \o one)[1] = x /\ (s \o one)[2] = y /\ (s \o one)[3] = z
    BY <1>1, <2>1, ConcatProperties
  <2>4. \A i \in 1..3 : (s \o one)[i] = u[i]
    BY <2>2, <2>3
  <2>5. s \o one = u
    BY <2>2, <2>3, <2>4, SeqEqual
  <2> QED
    BY <2>5 DEF s, u
<1> QED
  BY <1>2, <1>3 DEF one

\* A byte has one, two or three digits.
LEMMA DecimalIs ==
  ASSUME NEW n \in 0..255
  PROVE  \E x, y, z \in 0..9 :
           \/ Decimal(n) = <<Digit[z + 1]>> /\ n = z
           \/ Decimal(n) = <<Digit[y + 1], Digit[z + 1]>> /\ n = y * 10 + z
           \/ Decimal(n) = <<Digit[x + 1], Digit[y + 1], Digit[z + 1]>> /\ n = (x * 10 + y) * 10 + z
<1> DEFINE a == n \div 100
<1> DEFINE b == (n \div 10) % 10
<1> DEFINE c == n % 10
<1>1. /\ a \in 0..9 /\ b \in 0..9 /\ c \in 0..9
      /\ n = (a * 10 + b) * 10 + c
      /\ n <= 9 => n = c
      /\ n <= 99 => n = b * 10 + c
  OBVIOUS
<1> DEFINE x == Digit[a + 1]
<1> DEFINE y == Digit[b + 1]
<1> DEFINE z == Digit[c + 1]
<1>2. Decimal(n) = (IF n > 99 THEN <<x>> ELSE <<>>) \o (IF n > 9 THEN <<y>> ELSE <<>>) \o <<z>>
  BY DEF Decimal
<1> HIDE DEF x, y, z, a, b, c
<1> DEFINE S == {x, y, z}
<1>3. x \in S /\ y \in S /\ z \in S
  OBVIOUS
<1>4. <<>> \o <<>> = <<>> /\ <<>> \o <<y>> = <<y>> /\ <<>> \o <<z>> = <<z>>
  OBVIOUS
<1>5. <<x>> \o <<y>> = <<x, y>> /\ <<y>> \o <<z>> = <<y, z>> /\ <<x, y>> \o <<z>> = <<x, y, z>>
  <2> HIDE DEF S
  <2> QED
    BY <1>3, OneBehind, ZenonT(60)
<1>6. CASE n <= 9
  <2>1. ~(n > 99) /\ ~(n > 9)
    BY <1>6
  <2>2. Decimal(n) = <<>> \o <<>> \o <<z>>
    BY <1>2, <2>1
  <2>3. Decimal(n) = <<z>>
    BY <1>4, <2>2
  <2> QED
    BY <1>1, <1>6, <2>3 DEF z
<1>7. CASE n > 9 /\ n <= 99
  <2>1. ~(n > 99) /\ n > 9
    BY <1>7
  <2>2. Decimal(n) = <<>> \o <<y>> \o <<z>>
    BY <1>2, <2>1
  <2>3. Decimal(n) = <<y, z>>
    BY <1>4, <1>5, <2>2
  <2> QED
    BY <1>1, <1>7, <2>3 DEF y, z
<1>8. CASE n > 99
  <2>1. n > 99 /\ n > 9
    BY <1>8
  <2>2. Decimal(n) = <<x>> \o <<y>> \o <<z>>
    BY <1>2, <2>1
  <2>3. Decimal(n) = <<x, y, z>>
    BY <1>5, <2>2
  <2> QED
    BY <1>1, <2>3 DEF x, y, z
<1>9. n <= 9 \/ (n > 9 /\ n <= 99) \/ n > 99
  OBVIOUS
<1> QED
  BY <1>6, <1>7, <1>8, <1>9

\* What the decoder keeps of what it has read.
Scanners == [out : Seq(Nat), n : Nat, digits : Nat, ok : BOOLEAN]

\* A decoder that has made these bytes and not begun the next.
Fresh(bytes) == [out |-> bytes, n |-> 0, digits |-> 0, ok |-> TRUE]

\* Take keeps the types of what the decoder keeps.
LEMMA TakeTypes ==
  ASSUME NEW st \in Scanners, NEW c
  PROVE  Take(st, c) \in Scanners
<1>1. st.out \in Seq(Nat) /\ st.n \in Nat /\ st.digits \in Nat /\ st.ok \in BOOLEAN
  BY DEF Scanners
<1>2. Flush(st) \in Scanners
  <2>1. Append(st.out, st.n) \in Seq(Nat)
    BY <1>1
  <2> QED
    BY <2>1 DEF Flush, Scanners
<1>3. [st EXCEPT !.ok = FALSE] \in Scanners
  BY DEF Scanners
<1>4. CASE c = ","
  <2>1. c # " " /\ c \notin DOMAIN DigitOf
    BY <1>4, DigitsAreNaturals
  <2>2. Take(st, c) = Flush(st)
    BY <1>4, <2>1 DEF Take
  <2> QED
    BY <1>2, <2>2
<1>5. CASE c # "," /\ c = " "
  <2>1. c \notin DOMAIN DigitOf
    BY <1>5, DigitsAreNaturals
  <2>2. Take(st, c) = st
    BY <1>5, <2>1 DEF Take
  <2> QED
    BY <2>2
<1>6. CASE c # "," /\ c # " " /\ c \in DOMAIN DigitOf
  <2> DEFINE m == st.n * 10 + DigitOf[c]
  <2>1. DigitOf[c] \in Nat
    BY <1>6, DigitsAreNaturals
  <2>2. m \in Nat
    BY <1>1, <2>1
  <2>3. Take(st, c) = [st EXCEPT !.n = m, !.digits = @ + 1, !.ok = m <= 255]
    BY <1>6 DEF Take
  <2> HIDE DEF m
  <2>4. (m <= 255) \in BOOLEAN /\ st.digits + 1 \in Nat
    BY <1>1, <2>2
  <2> QED
    BY <2>2, <2>3, <2>4, ZenonT(60) DEF Scanners
<1>7. CASE c # "," /\ c # " " /\ c \notin DOMAIN DigitOf
  BY <1>3, <1>7 DEF Take
<1> QED
  BY <1>4, <1>5, <1>6, <1>7

\* A digit of a byte is taken.
LEMMA TakeDigit ==
  ASSUME NEW st \in Scanners, NEW c \in DOMAIN DigitOf, st.n * 10 + DigitOf[c] <= 255, st.ok
  PROVE  Take(st, c) = [out |-> st.out, n |-> st.n * 10 + DigitOf[c], digits |-> st.digits + 1, ok |-> TRUE]
<1> DEFINE m == st.n * 10 + DigitOf[c]
<1>1. c # "," /\ c # " "
  BY DigitsAreNaturals
<1>2. Take(st, c) = [st EXCEPT !.n = m, !.digits = @ + 1, !.ok = m <= 255]
  BY <1>1 DEF Take
<1>3. (m <= 255) = TRUE
  OBVIOUS
<1> HIDE DEF m
<1>4. Take(st, c) = [out |-> st.out, n |-> m, digits |-> st.digits + 1, ok |-> TRUE]
  BY <1>2, <1>3 DEF Scanners
<1> QED
  BY <1>4 DEF m

\* Scanned takes one character after the other.
LEMMA ScannedIs ==
  ASSUME NEW S, NEW s \in Seq(S)
  PROVE  \E scan \in [0..Len(s) -> Scanners] :
           /\ Scanned(s) = scan[Len(s)]
           /\ scan[0] = Fresh(<<>>)
           /\ \A i \in 1..Len(s) : scan[i] = IF scan[i - 1].ok THEN Take(scan[i - 1], s[i]) ELSE scan[i - 1]
<1> DEFINE n == Len(s)
<1> DEFINE Goes(st, i) == IF st.ok THEN Take(st, s[i]) ELSE st
<1> DEFINE step == [p \in Nat \X Scanners |-> Goes(p[2], p[1])]
<1> DEFINE Is(f) == f = [i \in 0..n |-> IF i = 0 THEN Fresh(<<>>) ELSE Goes(f[i - 1], i)]
<1>1. n \in Nat /\ Fresh(<<>>) \in Scanners
  BY DEF Fresh, Scanners
<1>2. ASSUME NEW st \in Scanners, NEW i \in Nat PROVE Goes(st, i) \in Scanners
  BY TakeTypes
<1>3. Scanned(s) = (CHOOSE x : Is(x))[n]
  BY DEF Scanned, Fresh
<1> HIDE DEF Goes
<1>4. step \in [Nat \X Scanners -> Scanners]
  BY <1>2
<1> HIDE DEF n
<1>5. PICK f \in [0..n -> Scanners] : Runs(f, n, Fresh(<<>>), step)
  <2> HIDE DEF step
  <2> QED
    BY <1>1, <1>4, RunExists
<1>6. Is(f)
  <2>1. ASSUME NEW i \in 0..n, i # 0 PROVE <<i, f[i - 1]>> \in Nat \X Scanners
    <3>1. i - 1 \in 0..n /\ i \in Nat
      BY <1>1, <2>1
    <3> QED
      BY <3>1
  <2> QED
    BY <1>5, <2>1 DEF Runs
<1> DEFINE g == CHOOSE x : Is(x)
<1>7. Is(g)
  BY <1>6
<1> HIDE DEF g
<1>8. /\ DOMAIN g = 0..n /\ g[0] = Fresh(<<>>)
      /\ \A i \in 1..n : g[i] = Goes(g[i - 1], i)
  BY <1>1, <1>7
<1>9. \A i \in 0..n : g[i] \in Scanners
  <2> DEFINE Good == {k \in Nat : k <= n => g[k] \in Scanners}
  <2>1. 0 \in Good
    BY <1>1, <1>8
  <2>2. ASSUME NEW k \in Nat, k \in Good PROVE k + 1 \in Good
    <3> SUFFICES ASSUME k + 1 <= n PROVE g[k + 1] \in Scanners
      OBVIOUS
    <3>1. k + 1 \in 1..n /\ (k + 1) - 1 = k /\ g[k] \in Scanners
      BY <1>1, <2>2
    <3> QED
      BY <1>2, <1>8, <3>1
  <2> HIDE DEF Good
  <2>3. \A k \in Nat : k \in Good
    BY <2>1, <2>2, AllNaturals
  <2> QED
    BY <1>1, <2>3 DEF Good
<1>10. g \in [0..n -> Scanners]
  <2>1. g = [i \in 0..n |-> g[i]]
    BY <1>7, <1>8
  <2> QED
    BY <1>9, <2>1
<1> QED
  BY <1>3, <1>8, <1>10 DEF g, n, Goes

\* The characters of an array of bytes.
Chars == {Digit[d + 1] : d \in 0..9} \cup {",", "[", "]"}

\* A byte is not empty, and does not begin with a space.
LEMMA DecimalTypes ==
  ASSUME NEW n \in 0..255
  PROVE  Decimal(n) \in Seq(Chars) /\ Len(Decimal(n)) \in 1..3 /\ Decimal(n)[1] # " "
<1>1. PICK x \in 0..9, y \in 0..9, z \in 0..9 :
        \/ Decimal(n) = <<Digit[z + 1]>> /\ n = z
        \/ Decimal(n) = <<Digit[y + 1], Digit[z + 1]>> /\ n = y * 10 + z
        \/ Decimal(n) = <<Digit[x + 1], Digit[y + 1], Digit[z + 1]>> /\ n = (x * 10 + y) * 10 + z
  BY DecimalIs
<1> DEFINE a == Digit[x + 1]
<1> DEFINE b == Digit[y + 1]
<1> DEFINE c == Digit[z + 1]
<1>2. a \in Chars /\ b \in Chars /\ c \in Chars
  BY DEF Chars
<1>3. a # " "
  BY DigitsForth
<1>4. b # " "
  BY DigitsForth
<1>5. c # " "
  BY DigitsForth
<1>6. Decimal(n) = <<c>> \/ Decimal(n) = <<b, c>> \/ Decimal(n) = <<a, b, c>>
  BY <1>1
<1> HIDE DEF a, b, c
<1>7. /\ <<c>> \in Seq(Chars) /\ Len(<<c>>) = 1 /\ <<c>>[1] = c
      /\ <<b, c>> \in Seq(Chars) /\ Len(<<b, c>>) = 2 /\ <<b, c>>[1] = b
      /\ <<a, b, c>> \in Seq(Chars) /\ Len(<<a, b, c>>) = 3 /\ <<a, b, c>>[1] = a
  BY <1>2
<1>8. Decimal(n) \in Seq(Chars) /\ Len(Decimal(n)) \in 1..3 /\ Decimal(n)[1] \in {a, b, c}
  <2> DEFINE Fine(t) == t \in Seq(Chars) /\ Len(t) \in 1..3 /\ t[1] \in {a, b, c}
  <2>1. Fine(<<c>>)
    BY <1>7
  <2>2. Fine(<<b, c>>)
    BY <1>7
  <2>3. Fine(<<a, b, c>>)
    BY <1>7
  <2> HIDE DEF Fine
  <2>4. Fine(Decimal(n))
    BY <1>6, <2>1, <2>2, <2>3
  <2> QED
    BY <2>4 DEF Fine
<1> QED
  BY <1>3, <1>4, <1>5, <1>8

\* A comma behind a byte leaves it among what has been made.
LEMMA TakeComma ==
  ASSUME NEW bytes \in Seq(Nat), NEW n \in Nat, NEW k \in 1..3
  PROVE  Take([out |-> bytes, n |-> n, digits |-> k, ok |-> TRUE], ",") = Fresh(Append(bytes, n))
<1> DEFINE st == [out |-> bytes, n |-> n, digits |-> k, ok |-> TRUE]
<1> DEFINE more == Append(bytes, n)
<1>1. more \in Seq(Nat)
  OBVIOUS
<1> HIDE DEF more
<1>2. st \in Scanners /\ st.digits # 0 /\ st.ok
  BY DEF Scanners
<1>3. Append(st.out, st.n) = more
  BY DEF more
<1> HIDE DEF st
<1>4. Take(st, ",") = Flush(st)
  <2>1. "," \notin DOMAIN DigitOf
    BY DigitsAreNaturals
  <2> QED
    BY <2>1 DEF Take
<1> DEFINE u == [st EXCEPT !.out = more, !.n = 0, !.digits = 0]
<1>5. Flush(st) = u
  BY <1>2, <1>3 DEF Flush
<1>6. u \in Scanners /\ u.out = more /\ u.n = 0 /\ u.digits = 0 /\ u.ok
  BY <1>1, <1>2 DEF Scanners
<1> HIDE DEF u
<1>7. u = Fresh(more)
  BY <1>6 DEF Scanners, Fresh
<1> QED
  BY <1>4, <1>5, <1>7 DEF st, more

\* The values of a byte.
Octets == 0..255

\* What is a digit is the digit of its number.
LEMMA DigitsBack ==
  ASSUME NEW c \in DOMAIN DigitOf
  PROVE  DigitOf[c] \in 0..9 /\ Digit[DigitOf[c] + 1] = c
<1>1. DOMAIN Digit = 1..10
  BY DEF Digit
<1>2. PICK i \in 1..10 : Digit[i] = c
  BY <1>1 DEF DigitOf, ToSet
<1> DEFINE k == CHOOSE d \in 1..10 : Digit[d] = c
<1>3. k \in 1..10 /\ Digit[k] = c
  BY <1>2
<1>4. DigitOf[c] = k - 1
  BY DEF DigitOf
<1> HIDE DEF k
<1>5. k - 1 \in 0..9 /\ (k - 1) + 1 = k
  BY <1>3
<1> QED
  BY <1>3, <1>4, <1>5

\* One digit more.
LEMMA DecimalGrows ==
  /\ \A d \in 0..9 : Decimal(d) = <<Digit[d + 1]>>
  /\ \A m \in 1..25, d \in 0..9 : m * 10 + d <= 255 => Decimal(m * 10 + d) = Append(Decimal(m), Digit[d + 1])
<1>1. ASSUME NEW x, NEW y, NEW z
      PROVE  <<>> \o <<>> \o <<z>> = <<z>> /\ <<>> \o <<y>> \o <<z>> = Append(<<y>>, z)
             /\ <<x>> \o <<y>> \o <<z>> = Append(<<>> \o <<x>> \o <<y>>, z)
  <2> DEFINE S == {x, y, z}
  <2> DEFINE a == <<x>>
  <2> DEFINE b == <<y>>
  <2> DEFINE e == <<>>
  <2>1. z \in S /\ a \in Seq(S) /\ b \in Seq(S) /\ e \in Seq(S)
    OBVIOUS
  <2>2. Append(e, z) = <<z>>
    OBVIOUS
  <2> HIDE DEF S, a, b, e
  <2>3. e \o e = e /\ e \o <<z>> = Append(e, z)
    BY <2>1, Behind DEF e
  <2>5. e \o a = a /\ a \o b \in Seq(S)
    BY <2>1, Behind DEF e
  <2>6. e \o b = b /\ b \o <<z>> = Append(b, z)
    BY <2>1, Behind DEF e
  <2> DEFINE ab == a \o b
  <2>4. ab \o <<z>> = Append(ab, z)
    <3>1. ab \in Seq(S)
      BY <2>5
    <3> HIDE DEF ab
    <3> QED
      BY <2>1, <3>1, Behind
  <2> QED
    BY <2>2, <2>3, <2>4, <2>5, <2>6 DEF a, b, e
<1>2. ASSUME NEW d \in 0..9 PROVE Decimal(d) = <<Digit[d + 1]>>
  <2>1. ~(d > 99) /\ ~(d > 9) /\ d % 10 = d
    OBVIOUS
  <2>2. Decimal(d) = <<>> \o <<>> \o <<Digit[d + 1]>>
    BY <2>1 DEF Decimal
  <2> DEFINE z == Digit[d + 1]
  <2>3. Decimal(d) = <<>> \o <<>> \o <<z>>
    BY <2>2
  <2> HIDE DEF z
  <2>4. Decimal(d) = <<z>>
    BY <1>1, <2>3
  <2> QED
    BY <2>4 DEF z
<1>3. ASSUME NEW m \in 1..25, NEW d \in 0..9, m * 10 + d <= 255
      PROVE  Decimal(m * 10 + d) = Append(Decimal(m), Digit[d + 1])
  <2> DEFINE n == m * 10 + d
  <2>1. n % 10 = d /\ n \div 10 = m /\ n > 9
    OBVIOUS
  <2>2. CASE m <= 9
    <3>1. ~(n > 99) /\ m % 10 = m
      BY <2>2
    <3> HIDE DEF n
    <3>2. Decimal(n) = <<>> \o <<Digit[m + 1]>> \o <<Digit[d + 1]>>
      BY <2>1, <3>1 DEF Decimal
    <3>3. Decimal(m) = <<Digit[m + 1]>>
      <4>1. m \in 0..9
        BY <2>2
      <4> QED
        BY <1>2, <4>1
    <3> DEFINE y == Digit[m + 1]
    <3> DEFINE z == Digit[d + 1]
    <3>4. Decimal(n) = <<>> \o <<y>> \o <<z>> /\ Decimal(m) = <<y>>
      BY <3>2, <3>3
    <3> HIDE DEF y, z
    <3>5. Decimal(n) = Append(Decimal(m), z)
      BY <1>1, <3>4
    <3> QED
      BY <3>5 DEF n, z
  <2>3. CASE m > 9
    <3>1. n > 99 /\ ~(m > 99) /\ n \div 100 = m \div 10 /\ (m \div 10) % 10 = m \div 10
      BY <2>3
    <3> DEFINE x == Digit[(m \div 10) + 1]
    <3> DEFINE y == Digit[(m % 10) + 1]
    <3> DEFINE z == Digit[d + 1]
    <3> HIDE DEF n
    <3>2. Decimal(n) = <<x>> \o <<y>> \o <<z>>
      BY <2>1, <3>1 DEF Decimal
    <3>3. Decimal(m) = <<>> \o <<x>> \o <<y>>
      BY <2>3, <3>1 DEF Decimal
    <3> HIDE DEF x, y, z
    <3>4. Decimal(n) = Append(Decimal(m), z)
      BY <1>1, <3>2, <3>3
    <3> QED
      BY <3>4 DEF n, z
  <2> QED
    BY <2>2, <2>3
<1> QED
  BY <1>2, <1>3

\* The decoder as a machine.
ScanStep(C) == [p \in Scanners \X C |-> IF p[1].ok THEN Take(p[1], p[2]) ELSE p[1]]

\* What it does with one character.
LEMMA ScanMachine ==
  ASSUME NEW C
  PROVE  /\ Machine(ScanStep(C), Scanners, C)
         /\ \A bytes \in Seq(Nat) : Fresh(bytes) \in Scanners
         /\ \A st \in Scanners, c \in C : ScanStep(C)[<<st, c>>] = IF st.ok THEN Take(st, c) ELSE st
<1>1. \A st \in Scanners, c \in C : (IF st.ok THEN Take(st, c) ELSE st) \in Scanners
  BY TakeTypes
<1> QED
  BY <1>1 DEF Machine, ScanStep, Fresh, Scanners

\* Scanned is its walk.
LEMMA ScannedIsAWalk ==
  ASSUME NEW C, NEW s \in Seq(C)
  PROVE  Scanned(s) = Walk(ScanStep(C), Fresh(<<>>), s)
<1> DEFINE n == Len(s)
<1> DEFINE step == ScanStep(C)
<1> DEFINE a == Fresh(<<>>)
<1>1. n \in Nat /\ \A i \in 1..n : s[i] \in C
  OBVIOUS
<1>2. Machine(step, Scanners, C) /\ a \in Scanners
  <2>1. <<>> \in Seq(Nat)
    OBVIOUS
  <2> QED
    BY <2>1, ScanMachine
<1>3. PICK scan \in [0..n -> Scanners] :
        /\ Scanned(s) = scan[n]
        /\ scan[0] = a
        /\ \A i \in 1..n : scan[i] = IF scan[i - 1].ok THEN Take(scan[i - 1], s[i]) ELSE scan[i - 1]
  BY ScannedIs
<1>4. PICK f : Trace(f, Scanners, step, a, s)
  <2> HIDE DEF step, a
  <2> QED
    BY <1>2, WalkExists
<1>5. f[0] = a /\ Walk(step, a, s) = f[n] /\ \A i \in 1..n : f[i] = step[<<f[i - 1], s[i]>>]
  <2> HIDE DEF step, a
  <2> QED
    BY <1>4 DEF Trace
<1>6. \A st \in Scanners, c \in C : step[<<st, c>>] = IF st.ok THEN Take(st, c) ELSE st
  BY ScanMachine
<1> HIDE DEF n, step, a
<1> DEFINE Good == {k \in Nat : k <= n => f[k] = scan[k]}
<1>7. 0 \in Good
  BY <1>3, <1>5
<1>8. ASSUME NEW k \in Nat, k \in Good PROVE k + 1 \in Good
  <2> SUFFICES ASSUME k + 1 <= n PROVE f[k + 1] = scan[k + 1]
    OBVIOUS
  <2>1. k + 1 \in 1..n /\ (k + 1) - 1 = k /\ f[k] = scan[k] /\ k \in 0..n
    BY <1>1, <1>8
  <2>2. scan[k] \in Scanners /\ s[k + 1] \in C
    BY <1>1, <1>3, <2>1
  <2>3. f[k + 1] = step[<<scan[k], s[k + 1]>>]
    BY <1>5, <2>1
  <2>4. scan[k + 1] = IF scan[k].ok THEN Take(scan[k], s[k + 1]) ELSE scan[k]
    BY <1>3, <2>1
  <2> QED
    BY <1>6, <2>2, <2>3, <2>4
<1>9. f[n] = scan[n]
  <2> HIDE DEF Good
  <2>1. \A k \in Nat : k \in Good
    BY <1>7, <1>8, AllNaturals
  <2>2. n \in Good
    BY <1>1, <2>1
  <2> QED
    BY <1>1, <2>2 DEF Good
<1> QED
  BY <1>3, <1>5, <1>9 DEF step, a

\* A decoder that has refused reads no more.
LEMMA Refusing ==
  ASSUME NEW C, NEW st \in Scanners, ~st.ok
  PROVE  \A s \in Seq(C) : Walk(ScanStep(C), st, s) = st
<1> DEFINE step == ScanStep(C)
<1> DEFINE R == {p \in Seq(C) \X Scanners : p[2] = st}
<1>1. Machine(step, Scanners, C) /\ \A c \in C : step[<<st, c>>] = st
  BY ScanMachine
<1>2. <<<<>>, st>> \in R
  <2>1. <<>> \in Seq(C)
    OBVIOUS
  <2> QED
    BY <2>1
<1>3. ASSUME NEW s \in Seq(C), NEW x \in Scanners, NEW c \in C, <<s, x>> \in R
      PROVE  <<Append(s, c), step[<<x, c>>]>> \in R
  <2>1. x = st
    BY <1>3
  <2>2. Append(s, c) \in Seq(C)
    BY Appended
  <2> HIDE DEF step
  <2> QED
    BY <1>1, <2>1, <2>2
<1>4. \A s \in Seq(C) : <<s, Walk(step, st, s)>> \in R
  <2> HIDE DEF step, R
  <2> QED
    BY <1>1, <1>2, <1>3, AlongTheWalk
<1> QED
  BY <1>4

\* The decoder sees what is between spaces.
LEMMA SpacesAreSkipped ==
  ASSUME NEW C, NEW st \in Scanners
  PROVE  \A s \in Seq(C) : Walk(ScanStep(C), st, s) = Walk(ScanStep(C), st, Without(s, Blank))
<1> DEFINE step == ScanStep(C)
<1> DEFINE left == Blank
<1> DEFINE G == {s \in Seq(C) : Walk(step, st, s) = Walk(step, st, Without(s, left))}
<1>1. Machine(step, Scanners, C)
  BY ScanMachine
<1>2. ASSUME NEW x \in Scanners, NEW c \in C, c \in left PROVE step[<<x, c>>] = x
  <2>1. c = " " /\ c # "," /\ c \notin DOMAIN DigitOf
    BY <1>2, DigitsAreNaturals DEF Blank
  <2>2. Take(x, c) = x
    BY <2>1 DEF Take
  <2> QED
    BY <2>2, ScanMachine
<1> HIDE DEF step, left
<1>6. /\ Without(<<>>, left) = <<>>
      /\ \A s \in Seq(C) : Without(s, left) \in Seq(C)
      /\ \A s \in Seq(C), c \in C :
           Without(Append(s, c), left) = IF c \in left THEN Without(s, left) ELSE Append(Without(s, left), c)
  <2>1. TakesOn(C, left)
    BY WithoutOn
  <2> QED
    BY <2>1 DEF TakesOn
<1>3. <<>> \in G
  <2>1. Without(<<>>, left) = <<>>
    BY <1>6
  <2> QED
    BY <2>1
<1>4. ASSUME NEW s \in Seq(C), NEW c \in C, s \in G PROVE Append(s, c) \in G
  <2> DEFINE w == Without(s, left)
  <2>1. w \in Seq(C) /\ Without(Append(s, c), left) = IF c \in left THEN w ELSE Append(w, c)
    BY <1>6
  <2>2. Walk(step, st, s) = Walk(step, st, w)
    BY <1>4
  <2>3. Walk(step, st, Append(s, c)) = step[<<Walk(step, st, s), c>>]
    BY <1>1, WalkOn
  <2> HIDE DEF w
  <2>4. Walk(step, st, w) \in Scanners /\ Walk(step, st, Append(w, c)) = step[<<Walk(step, st, w), c>>]
    BY <1>1, <2>1, WalkOn
  <2>5. Walk(step, st, Append(s, c)) = Walk(step, st, Without(Append(s, c), left))
    <3>1. CASE c \in left
      BY <1>2, <2>1, <2>2, <2>3, <2>4, <3>1
    <3>2. CASE c \notin left
      BY <2>1, <2>2, <2>3, <2>4, <3>2
    <3> QED
      BY <3>1, <3>2
  <2>6. Append(s, c) \in Seq(C)
    BY Appended
  <2> QED
    BY <2>5, <2>6
<1>5. \A s \in Seq(C) : s \in G
  <2> HIDE DEF G
  <2> QED
    BY <1>3, <1>4, AllSequences
<1> QED
  BY <1>5 DEF step, left

\* What is left out is not there, and the rest is from the sequence.
LEMMA WithoutHas ==
  ASSUME NEW C, NEW left
  PROVE  \A s \in Seq(C) : \A i \in DOMAIN Without(s, left) :
           Without(s, left)[i] \notin left /\ \E j \in DOMAIN s : Without(s, left)[i] = s[j]
<1>4. /\ Without(<<>>, left) = <<>>
      /\ \A s \in Seq(C) : Without(s, left) \in Seq(C)
      /\ \A s \in Seq(C), c \in C :
           Without(Append(s, c), left) = IF c \in left THEN Without(s, left) ELSE Append(Without(s, left), c)
  <2>1. TakesOn(C, left)
    BY WithoutOn
  <2> QED
    BY <2>1 DEF TakesOn
<1> DEFINE Fine(s, w) == \A i \in DOMAIN w : w[i] \notin left /\ \E j \in DOMAIN s : w[i] = s[j]
<1> DEFINE G == {s \in Seq(C) : Fine(s, Without(s, left))}
<1>1. <<>> \in G
  <2>1. Without(<<>>, left) = <<>>
    BY <1>4
  <2>2. Fine(<<>>, <<>>) /\ <<>> \in Seq(C)
    OBVIOUS
  <2> QED
    BY <2>1, <2>2
<1>2. ASSUME NEW s \in Seq(C), NEW c \in C, s \in G PROVE Append(s, c) \in G
  <2> DEFINE w == Without(s, left)
  <2> DEFINE t == Append(s, c)
  <2>1. w \in Seq(C) /\ Without(t, left) = IF c \in left THEN w ELSE Append(w, c)
    BY <1>4
  <2>2. Fine(s, w)
    BY <1>2
  <2>3. /\ t \in Seq(C) /\ DOMAIN t = 1..Len(s) + 1 /\ t[Len(s) + 1] = c /\ Len(s) \in Nat
        /\ DOMAIN s = 1..Len(s) /\ \A j \in 1..Len(s) : t[j] = s[j]
    BY Appended
  <2> HIDE DEF w, t
  <2>4. Fine(t, w)
    <3> SUFFICES ASSUME NEW i \in DOMAIN w PROVE w[i] \notin left /\ \E j \in DOMAIN t : w[i] = t[j]
      OBVIOUS
    <3>1. PICK j \in DOMAIN s : w[i] \notin left /\ w[i] = s[j]
      BY <2>2
    <3>2. j \in DOMAIN t /\ t[j] = s[j]
      BY <2>3
    <3> QED
      BY <3>1, <3>2
  <2>5. CASE c \in left
    BY <2>1, <2>3, <2>4, <2>5 DEF t
  <2>6. CASE c \notin left
    <3> DEFINE u == Append(w, c)
    <3>1. /\ DOMAIN u = 1..Len(w) + 1 /\ u[Len(w) + 1] = c /\ Len(w) \in Nat
          /\ DOMAIN w = 1..Len(w) /\ \A i \in 1..Len(w) : u[i] = w[i]
      BY <2>1, Appended
    <3> HIDE DEF u
    <3>2. Fine(t, u)
      <4> SUFFICES ASSUME NEW i \in DOMAIN u PROVE u[i] \notin left /\ \E j \in DOMAIN t : u[i] = t[j]
        OBVIOUS
      <4>1. CASE i \in 1..Len(w)
        BY <2>4, <3>1, <4>1
      <4>2. CASE i = Len(w) + 1
        <5>1. Len(s) + 1 \in DOMAIN t
          BY <2>3
        <5> QED
          BY <2>3, <2>6, <3>1, <4>2, <5>1
      <4> QED
        BY <3>1, <4>1, <4>2
    <3>3. Without(t, left) = u
      BY <2>1, <2>6 DEF u
    <3> QED
      BY <2>3, <3>2, <3>3 DEF t
  <2> QED
    BY <2>5, <2>6
<1>3. \A s \in Seq(C) : s \in G
  <2> HIDE DEF G
  <2> QED
    BY <1>1, <1>2, AllSequences
<1> QED
  BY <1>3

\* The empty sequence.
LEMMA Nothing ==
  ASSUME NEW C
  PROVE  <<>> \in Seq(C) /\ DOMAIN <<>> = {} /\ Len(<<>>) = 0
OBVIOUS

\* A byte has a digit.
LEMMA ByteIsSomething ==
  \A v \in 0..255 : Decimal(v) # <<>>
<1> SUFFICES ASSUME NEW v \in 0..255, Decimal(v) = <<>> PROVE FALSE
  OBVIOUS
<1>1. Len(Decimal(v)) \in 1..3
  BY DecimalTypes
<1>2. Len(Decimal(v)) = 0
  OBVIOUS
<1>3. \A k \in 1..3 : k # 0
  OBVIOUS
<1> QED
  BY <1>1, <1>2, <1>3

\* A number as JSON writes it.
NumberLike(s) == s # <<>> /\ (\A i \in DOMAIN s : s[i] \in DOMAIN DigitOf) /\ (Len(s) > 1 => s[1] # "0")

\* The state after the digits of n, behind other bytes.
MadeOf(bytes, n, k) == [out |-> bytes, n |-> n, digits |-> k, ok |-> TRUE]

\* Take refuses a number above 255, and what is none.
LEMMA TakeRefuses ==
  ASSUME NEW st \in Scanners, NEW c
  PROVE  /\ c \in DOMAIN DigitOf => (Take(st, c).ok <=> st.n * 10 + DigitOf[c] <= 255)
         /\ c \notin DOMAIN DigitOf \cup {",", " "} => ~Take(st, c).ok
<1>1. ASSUME c \in DOMAIN DigitOf PROVE Take(st, c).ok <=> st.n * 10 + DigitOf[c] <= 255
  <2> DEFINE m == st.n * 10 + DigitOf[c]
  <2>1. c # "," /\ c # " "
    BY <1>1, DigitsAreNaturals
  <2>2. Take(st, c) = [st EXCEPT !.n = m, !.digits = @ + 1, !.ok = m <= 255]
    BY <1>1, <2>1 DEF Take
  <2> HIDE DEF m
  <2>3. Take(st, c).ok = (m <= 255)
    BY <2>2 DEF Scanners
  <2> QED
    BY <2>3 DEF m
<1>2. ASSUME c \notin DOMAIN DigitOf \cup {",", " "} PROVE ~Take(st, c).ok
  BY <1>2 DEF Take, Scanners
<1> QED
  BY <1>1, <1>2

\* What the last digit of a byte leaves.
LEMMA LastDigit ==
  ASSUME NEW v \in 0..255
  PROVE  \/ v \in 0..9 /\ Decimal(v) = Append(<<>>, Digit[v + 1])
         \/ \E m \in 1..25, d \in 0..9 : v = m * 10 + d /\ Decimal(v) = Append(Decimal(m), Digit[d + 1])
<1>1. CASE v <= 9
  <2>1. v \in 0..9
    BY <1>1
  <2>2. Decimal(v) = <<Digit[v + 1]>>
    BY <2>1, DecimalGrows
  <2> DEFINE z == Digit[v + 1]
  <2>3. Append(<<>>, z) = <<z>>
    <3> HIDE DEF z
    <3> QED
      OBVIOUS
  <2> QED
    BY <2>1, <2>2, <2>3
<1>2. CASE v > 9
  <2> DEFINE m == v \div 10
  <2> DEFINE d == v % 10
  <2>1. m \in 1..25 /\ d \in 0..9 /\ v = m * 10 + d /\ m * 10 + d <= 255
    BY <1>2
  <2> HIDE DEF m, d
  <2>2. Decimal(m * 10 + d) = Append(Decimal(m), Digit[d + 1])
    BY <2>1, DecimalGrows
  <2> QED
    BY <2>1, <2>2
<1>3. v <= 9 \/ v > 9
  OBVIOUS
<1> QED
  BY <1>1, <1>2, <1>3

\* What the decoder makes of the characters of an element, whatever it has made
\* before.
Reads(bytes, s, st) ==
  /\ s = <<>> => st = Fresh(bytes)
  /\ \A v \in 0..255 : s = Decimal(v) => st = MadeOf(bytes, v, Len(s))
  /\ st.ok /\ NumberLike(s) => \E v \in 0..255 : s = Decimal(v)
  /\ (\E i \in DOMAIN s : s[i] \notin DOMAIN DigitOf \cup {",", " "}) => ~st.ok

\* One character more.
LEMMA ReadsOn ==
  ASSUME NEW C, NEW bytes \in Seq(Nat), NEW s \in Seq(C), NEW st \in Scanners, NEW c \in C, Reads(bytes, s, st)
  PROVE  Reads(bytes, Append(s, c), ScanStep(C)[<<st, c>>])
<1> DEFINE t == Append(s, c)
<1> DEFINE next == ScanStep(C)[<<st, c>>]
<1>1. next = IF st.ok THEN Take(st, c) ELSE st
  BY ScanMachine
<1>2. /\ t \in Seq(C) /\ Len(t) = Len(s) + 1 /\ Len(s) \in Nat /\ t[Len(s) + 1] = c
      /\ \A i \in 1..Len(s) : t[i] = s[i]
      /\ DOMAIN s = 1..Len(s) /\ DOMAIN t = 1..Len(s) + 1 /\ t # <<>>
  BY Appended
<1> HIDE DEF next
\* A byte.
<1>3. ASSUME NEW v \in 0..255, t = Decimal(v) PROVE next = MadeOf(bytes, v, Len(t))
  <2> DEFINE D == C \cup Chars
  <2>1. ASSUME NEW q \in Seq(D), NEW d \in 0..9, t = Append(q, Digit[d + 1]) PROVE s = q /\ c = Digit[d + 1]
    <3>1. s \in Seq(D) /\ c \in D
      OBVIOUS
    <3>2. Digit[d + 1] \in D
      BY DEF Chars
    <3> DEFINE z == Digit[d + 1]
    <3>3. Append(s, c) = Append(q, z) /\ z \in D
      BY <2>1, <3>2
    <3> HIDE DEF z, D
    <3>4. s = q /\ c = z
      BY <3>1, <3>3, AppendIsInjective
    <3> QED
      BY <3>4 DEF z
  <2>2. ASSUME NEW k \in Nat, NEW d \in 0..9, NEW l \in Nat, st = MadeOf(bytes, k, l), k * 10 + d <= 255, c = Digit[d + 1]
        PROVE  next = MadeOf(bytes, k * 10 + d, l + 1)
    <3>1. c \in DOMAIN DigitOf /\ DigitOf[c] = d
      BY <2>2, DigitsForth
    <3>2. st.ok /\ st.n = k /\ st.digits = l /\ st.out = bytes
      BY <2>2 DEF MadeOf
    <3>3. Take(st, c) = [out |-> bytes, n |-> k * 10 + d, digits |-> l + 1, ok |-> TRUE]
      <4>1. st.n * 10 + DigitOf[c] <= 255
        BY <2>2, <3>1, <3>2
      <4>2. Take(st, c) = [out |-> st.out, n |-> st.n * 10 + DigitOf[c], digits |-> st.digits + 1, ok |-> TRUE]
        BY <3>1, <3>2, <4>1, TakeDigit, Zenon
      <4> QED
        BY <3>1, <3>2, <4>2, Zenon
    <3>4. next = Take(st, c)
      BY <1>1, <3>2
    <3>5. Take(st, c) = MadeOf(bytes, k * 10 + d, l + 1)
      BY <3>3 DEF MadeOf
    <3> QED
      BY <3>4, <3>5
  <2>3. CASE v \in 0..9 /\ Decimal(v) = Append(<<>>, Digit[v + 1])
    <3>1. <<>> \in Seq(D)
      OBVIOUS
    <3>2. s = <<>> /\ c = Digit[v + 1]
      <4> HIDE DEF D, t
      <4> QED
        BY <1>3, <2>1, <2>3, <3>1
    <3>3. st = MadeOf(bytes, 0, 0)
      BY <3>2 DEF Reads, Fresh, MadeOf
    <3>4. 0 * 10 + v = v /\ 0 + 1 = 1 /\ Len(s) = 0
      BY <3>2
    <3>5. next = MadeOf(bytes, 0 * 10 + v, 0 + 1)
      BY <2>2, <2>3, <3>2, <3>3
    <3> QED
      BY <1>2, <3>4, <3>5
  <2>4. CASE \E m \in 1..25, d \in 0..9 : v = m * 10 + d /\ Decimal(v) = Append(Decimal(m), Digit[d + 1])
    <3>1. PICK m \in 1..25, d \in 0..9 : v = m * 10 + d /\ Decimal(v) = Append(Decimal(m), Digit[d + 1])
      BY <2>4
    <3>2. m \in 0..255 /\ m \in Nat
      OBVIOUS
    <3>3. Decimal(m) \in Seq(D)
      <4>1. Decimal(m) \in Seq(Chars)
        BY <3>2, DecimalTypes
      <4> QED
        BY <4>1
    <3>4. s = Decimal(m) /\ c = Digit[d + 1]
      <4> HIDE DEF D, t
      <4> QED
        BY <1>3, <2>1, <3>1, <3>3
    <3>5. st = MadeOf(bytes, m, Len(s))
      BY <3>2, <3>4 DEF Reads
    <3>6. next = MadeOf(bytes, m * 10 + d, Len(s) + 1)
      <4> DEFINE l == Len(s)
      <4>1. m * 10 + d <= 255 /\ l \in Nat
        BY <1>2, <3>1
      <4>2. st = MadeOf(bytes, m, l) /\ c = Digit[d + 1]
        BY <3>4, <3>5
      <4> HIDE DEF t, l
      <4>3. next = MadeOf(bytes, m * 10 + d, l + 1)
        BY <2>2, <3>2, <4>1, <4>2
      <4> QED
        BY <4>3 DEF l
    <3> QED
      BY <1>2, <3>1, <3>6
  <2> QED
    BY <2>3, <2>4, LastDigit
\* A number that is accepted.
<1>4. ASSUME next.ok, NumberLike(t) PROVE \E v \in 0..255 : t = Decimal(v)
  <2>1. st.ok /\ next = Take(st, c)
    BY <1>1, <1>4
  <2>2. c \in DOMAIN DigitOf
    <3>1. Len(s) + 1 \in DOMAIN t
      BY <1>2
    <3> QED
      BY <1>2, <1>4, <3>1 DEF NumberLike
  <2> DEFINE d == DigitOf[c]
  <2>3. d \in 0..9 /\ Digit[d + 1] = c
    BY <2>2, DigitsBack
  <2>4. CASE s = <<>>
    <3>1. Decimal(d) = <<c>> /\ d \in 0..255
      <4> HIDE DEF d
      <4>1. Decimal(d) = <<Digit[d + 1]>>
        BY <2>3, DecimalGrows
      <4> QED
        BY <2>3, <4>1
    <3>2. t = <<c>>
      BY <2>4
    <3> HIDE DEF d, t
    <3> QED
      BY <3>1, <3>2
  <2>5. CASE s # <<>>
    <3>1. Len(s) > 0
      BY <2>5
    <3>2. s[1] = t[1] /\ s[1] # "0" /\ \A i \in DOMAIN s : s[i] \in DOMAIN DigitOf
      <4>1. 1 \in 1..Len(s) /\ Len(t) > 1
        BY <1>2, <3>1
      <4>2. s[1] = t[1] /\ t[1] # "0"
        BY <1>2, <1>4, <4>1 DEF NumberLike
      <4>3. \A i \in DOMAIN s : i \in DOMAIN t /\ t[i] = s[i]
        BY <1>2
      <4> QED
        BY <1>4, <4>2, <4>3 DEF NumberLike
    <3>3. NumberLike(s)
      BY <2>5, <3>2 DEF NumberLike
    <3>4. PICK v \in 0..255 : s = Decimal(v)
      BY <2>1, <3>3 DEF Reads
    <3>5. st = MadeOf(bytes, v, Len(s))
      BY <3>4 DEF Reads
    <3>6. v * 10 + d <= 255
      <4>1. st.n = v
        BY <3>5 DEF MadeOf
      <4> QED
        BY <1>4, <2>1, <2>2, <4>1, TakeRefuses
    <3>7. v # 0
      <4>1. Decimal(0) = <<Digit[0 + 1]>>
        <5>1. 0 \in 0..9
          OBVIOUS
        <5> QED
          BY <5>1, DecimalGrows
      <4>2. Digit[0 + 1] = "0"
        BY DEF Digit
      <4>3. v = 0 => s[1] = "0"
        BY <3>4, <4>1, <4>2
      <4> QED
        BY <3>2, <4>3
    <3>8. v \in 1..25 /\ v * 10 + d \in 0..255
      <4> HIDE DEF d
      <4> QED
        BY <2>3, <3>6, <3>7
    <3>9. Decimal(v * 10 + d) = Append(Decimal(v), Digit[d + 1])
      <4> HIDE DEF d
      <4> QED
        BY <2>3, <3>6, <3>8, DecimalGrows
    <3>10. Decimal(v * 10 + d) = t
      BY <2>3, <3>4, <3>9
    <3> HIDE DEF t, d
    <3> QED
      BY <3>8, <3>10
  <2> QED
    BY <2>4, <2>5
\* A character of no byte.
<1>5. ASSUME NEW i \in DOMAIN t, t[i] \notin DOMAIN DigitOf \cup {",", " "} PROVE ~next.ok
  <2>1. CASE i \in 1..Len(s)
    <3>1. i \in DOMAIN s /\ s[i] = t[i]
      BY <1>2, <2>1
    <3>2. ~st.ok
      BY <1>5, <3>1 DEF Reads
    <3> QED
      BY <1>1, <3>2
  <2>2. CASE i = Len(s) + 1
    <3>1. c \notin DOMAIN DigitOf \cup {",", " "}
      BY <1>2, <1>5, <2>2
    <3>2. ~Take(st, c).ok
      BY <3>1, TakeRefuses
    <3> QED
      BY <1>1, <3>2
  <2> QED
    BY <1>2, <2>1, <2>2
<1> HIDE DEF t
<1>6. Reads(bytes, t, next)
  BY <1>2, <1>3, <1>4, <1>5 DEF Reads
<1> QED
  BY <1>6 DEF t, next

\* A walk over e makes one byte behind the others, or refuses what is none.
MakesOne(C, bytes, e) ==
  LET plain == Without(e, Blank)
      end == Walk(ScanStep(C), Fresh(bytes), e)
  IN  /\ end \in Scanners /\ plain \in Seq(C)
      /\ \A v \in 0..255 : plain = Decimal(v) => end = MadeOf(bytes, v, Len(plain))
      /\ end.ok => \E v \in 0..255 : plain = Decimal(v)

\* The decoder makes one byte of an element that is one, and refuses any other.
LEMMA OneElement ==
  ASSUME NEW C, NEW bytes \in Seq(Nat), NEW e \in Seq(C), JsonElement(e)
  PROVE  MakesOne(C, bytes, e)
<1> DEFINE plain == Without(e, Blank)
<1> DEFINE end == Walk(ScanStep(C), Fresh(bytes), e)
<1> DEFINE step == ScanStep(C)
<1> DEFINE a == Fresh(bytes)
<1> DEFINE R == {p \in Seq(C) \X Scanners : Reads(bytes, p[1], p[2])}
<1>1. Machine(step, Scanners, C) /\ a \in Scanners
  BY ScanMachine
<1>2. plain \in Seq(C) /\ \A i \in DOMAIN plain : plain[i] # " "
  <2>1. TakesOn(C, Blank)
    BY WithoutOn
  <2>2. plain \in Seq(C)
    BY <2>1 DEF TakesOn
  <2>3. \A i \in DOMAIN plain : plain[i] \notin Blank
    BY WithoutHas
  <2> HIDE DEF plain
  <2> QED
    BY <2>2, <2>3 DEF Blank
<1>3. <<<<>>, a>> \in R
  <2> DEFINE e0 == <<>>
  <2>1. e0 \in Seq(C) /\ DOMAIN e0 = {} /\ Len(e0) = 0
    BY Nothing
  <2>5. ~NumberLike(e0)
    BY DEF NumberLike
  <2>2. \A v \in 0..255 : e0 # Decimal(v)
    BY ByteIsSomething
  <2> HIDE DEF e0
  <2>3. Reads(bytes, e0, a)
    BY <2>1, <2>2, <2>5 DEF Reads
  <2>4. <<e0, a>> \in R
    <3> HIDE DEF a
    <3> QED
      BY <1>1, <2>1, <2>3
  <2> QED
    BY <2>4 DEF e0
<1>4. ASSUME NEW s \in Seq(C), NEW st \in Scanners, NEW c \in C, <<s, st>> \in R
      PROVE  <<Append(s, c), step[<<st, c>>]>> \in R
  <2> DEFINE next == step[<<st, c>>]
  <2> DEFINE t == Append(s, c)
  <2>1. Reads(bytes, s, st)
    BY <1>4
  <2>2. Reads(bytes, t, next)
    BY <2>1, ReadsOn
  <2>3. t \in Seq(C)
    BY Appended
  <2>4. next \in Scanners
    <3> HIDE DEF step
    <3> QED
      BY <1>1 DEF Machine
  <2> HIDE DEF next, t
  <2>5. <<t, next>> \in R
    BY <2>2, <2>3, <2>4
  <2> QED
    BY <2>5 DEF t, next
<1>5. \A s \in Seq(C) : Walk(step, a, s) \in Scanners /\ <<s, Walk(step, a, s)>> \in R
  <2> HIDE DEF step, a, R
  <2> QED
    BY <1>1, <1>3, <1>4, AlongTheWalk
<1>6. end = Walk(step, a, plain)
  BY <1>1, SpacesAreSkipped
<1> HIDE DEF step, a, end, plain
<1>7. end \in Scanners /\ Reads(bytes, plain, end)
  BY <1>2, <1>5, <1>6
<1>8. ASSUME end.ok PROVE \E v \in 0..255 : plain = Decimal(v)
  <2>1. \A i \in DOMAIN plain : plain[i] \in DOMAIN DigitOf \cup {",", " "}
    BY <1>7, <1>8 DEF Reads
  <2>2. plain # <<>> /\ ToSet(plain) \subseteq DOMAIN DigitOf /\ (Len(plain) > 1 => plain[1] # "0")
    <3>1. \A c \in ToSet(plain) : c \in DOMAIN DigitOf \cup {","}
      BY <1>2, <2>1 DEF ToSet
    <3> QED
      BY <3>1 DEF JsonElement, plain
  <2>3. NumberLike(plain)
    BY <2>2 DEF NumberLike, ToSet
  <2> QED
    BY <1>7, <1>8, <2>3 DEF Reads
<1> QED
  BY <1>2, <1>7, <1>8 DEF Reads, MakesOne, end, plain

-----------------------------------------------------------------------------
(* The elements of an array, one after the other.                          *)

\* Characters, by name.
Comma == ","
Open == "["
Close == "]"

\* What is between the brackets.
LEMMA BetweenBrackets ==
  ASSUME NEW C, Open \in C, Close \in C, NEW s \in Seq(C), NEW raw, raw = <<Open>> \o s \o <<Close>>
  PROVE  raw \notin {<<>>, Null} /\ raw[1] = Open /\ Last(raw) = Close /\ SubSeq(raw, 2, Len(raw) - 1) = s
<1> DEFINE open == <<Open>>
<1> DEFINE close == <<Close>>
<1> DEFINE t == open \o s
<1> DEFINE n == Len(s)
<1>1. open \in Seq(C) /\ Len(open) = 1 /\ open[1] = Open
  OBVIOUS
<1>2. close \in Seq(C) /\ Len(close) = 1 /\ close[1] = Close
  OBVIOUS
<1>3. raw = t \o close /\ n \in Nat
  OBVIOUS
<1> HIDE DEF open, close
<1>4. t \in Seq(C) /\ Len(t) = 1 + n /\ t[1] = Open /\ \A i \in 1..n : t[1 + i] = s[i]
  <2>1. /\ t \in Seq(C) /\ Len(t) = Len(open) + n
        /\ \A i \in 1..Len(open) : t[i] = open[i]
        /\ \A i \in 1..n : t[Len(open) + i] = s[i]
    <3>1. open \in Seq(C) /\ s \in Seq(C)
      BY <1>1
    <3> QED
      BY <3>1, InARow
  <2> HIDE DEF t, n
  <2> QED
    BY <1>1, <2>1
<1> HIDE DEF t, n
<1>5. /\ raw \in Seq(C) /\ Len(raw) = (1 + n) + 1
      /\ \A i \in 1..1 + n : raw[i] = t[i]
      /\ raw[(1 + n) + 1] = Close
  <2>1. /\ t \o close \in Seq(C) /\ Len(t \o close) = Len(t) + Len(close)
        /\ \A i \in 1..Len(t) : (t \o close)[i] = t[i]
        /\ \A i \in 1..Len(close) : (t \o close)[Len(t) + i] = close[i]
    <3>1. t \in Seq(C) /\ close \in Seq(C)
      BY <1>2, <1>4
    <3> QED
      BY <3>1, InARow
  <2>2. Len(t) = 1 + n /\ Len(close) = 1 /\ close[1] = Close /\ 1 \in 1..Len(close)
    BY <1>2, <1>4
  <2>3. (t \o close)[(1 + n) + 1] = Close
    BY <2>1, <2>2
  <2> QED
    BY <1>3, <2>1, <2>2, <2>3
<1>6. raw[1] = Open
  BY <1>3, <1>4, <1>5
<1>7. raw \notin {<<>>, Null}
  <2>1. Open # "null" /\ Null[1] = "null"
    BY DEF Open, Null
  <2>2. raw # Null
    BY <1>6, <2>1
  <2>3. Len(raw) # 0
    BY <1>3, <1>5
  <2>4. Len(<<>>) = 0
    OBVIOUS
  <2>5. raw # <<>>
    BY <2>3, <2>4
  <2> QED
    BY <2>2, <2>5
<1>8. Last(raw) = Close
  BY <1>5 DEF Last
<1> DEFINE u == SubSeq(raw, 1 + 1, 1 + n)
<1>9. u \in Seq(C) /\ Len(u) = n /\ \A i \in 1..n : u[i] = raw[1 + i]
  <2>1. 1 + n <= Len(raw) /\ n \in Nat /\ 1 \in Nat
    BY <1>3, <1>5
  <2>2. raw \in Seq(C)
    BY <1>5
  <2> QED
    BY <2>1, <2>2, PieceIn
<1>10. \A i \in 1..n : u[i] = s[i]
  <2> SUFFICES ASSUME NEW i \in 1..n PROVE u[i] = s[i]
    OBVIOUS
  <2>1. 1 + i \in 1..1 + n
    BY <1>3
  <2> QED
    BY <1>4, <1>5, <1>9, <2>1
<1>11. u = SubSeq(raw, 2, Len(raw) - 1)
  BY <1>3, <1>5
<1> HIDE DEF u
<1>12. u = s
  BY <1>9, <1>10, SeqEqual DEF n
<1> QED
  BY <1>6, <1>7, <1>8, <1>11, <1>12

\* What Join puts between the brackets.
Parts(es) == [i \in DOMAIN es |-> (IF i > 1 THEN <<Comma>> ELSE <<>>) \o es[i]]

\* The elements without their spaces.
Plain(es) == [i \in DOMAIN es |-> Without(es[i], Blank)]

\* The digits of bytes.
Decimals(b) == [i \in DOMAIN b |-> Decimal(b[i])]

\* One part more.
PartsGoOn(C) ==
  /\ Parts(<<>>) = <<>>
  /\ \A es \in Seq(Seq(C)) : Parts(es) \in Seq(Seq(C))
  /\ \A es \in Seq(Seq(C)), e \in Seq(C) :
       Parts(Append(es, e)) = Append(Parts(es), (IF es = <<>> THEN <<>> ELSE <<Comma>>) \o e)

\* The parts, one after the other.
LEMMA PartsOn ==
  ASSUME NEW C, Comma \in C
  PROVE  PartsGoOn(C)
<1> DEFINE comma == <<Comma>>
<1> DEFINE none == <<>>
<1>1. comma \in Seq(C) /\ none \in Seq(C)
  OBVIOUS
<1>2. Parts(<<>>) = <<>>
  BY DEF Parts
<1> HIDE DEF comma, none
<1>3. ASSUME NEW es \in Seq(Seq(C))
      PROVE  Parts(es) \in Seq(Seq(C)) /\ Len(Parts(es)) = Len(es)
             /\ \A i \in 1..Len(es) : Parts(es)[i] = (IF i > 1 THEN comma ELSE none) \o es[i]
  <2> DEFINE n == Len(es)
  <2> DEFINE T == Seq(C)
  <2>1. n \in Nat /\ DOMAIN es = 1..n /\ \A i \in 1..n : es[i] \in T
    BY LenProperties
  <2>2. Parts(es) = [i \in 1..n |-> (IF i > 1 THEN comma ELSE none) \o es[i]]
    BY <2>1 DEF Parts, comma, none
  <2>3. \A i \in 1..n : (IF i > 1 THEN comma ELSE none) \o es[i] \in T
    BY <1>1, <2>1
  <2> HIDE DEF n, T
  <2>4. Parts(es) \in [1..n -> T]
    BY <2>2, <2>3
  <2>5. Parts(es) \in Seq(T) /\ Len(Parts(es)) = n
    BY <2>1, <2>4
  <2> QED
    BY <2>2, <2>5 DEF n, T
<1>4. ASSUME NEW es \in Seq(Seq(C)), NEW e \in Seq(C)
      PROVE  Parts(Append(es, e)) = Append(Parts(es), (IF es = <<>> THEN none ELSE comma) \o e)
  <2> DEFINE T == Seq(C)
  <2> DEFINE n == Len(es)
  <2> DEFINE t == Append(es, e)
  <2> DEFINE last == (IF es = <<>> THEN none ELSE comma) \o e
  <2> DEFINE p == Parts(es)
  <2> DEFINE u == Append(p, last)
  <2>1. n \in Nat /\ t \in Seq(T) /\ Len(t) = n + 1 /\ t[n + 1] = e /\ \A i \in 1..n : t[i] = es[i]
    BY Appended
  <2>2. last \in T
    BY <1>1
  <2>3. p \in Seq(T) /\ Len(p) = n /\ \A i \in 1..n : p[i] = (IF i > 1 THEN comma ELSE none) \o es[i]
    BY <1>3
  <2>4. es = <<>> <=> n = 0
    OBVIOUS
  <2>5. last = (IF n + 1 > 1 THEN comma ELSE none) \o e
    <3>1. n + 1 > 1 <=> es # <<>>
      BY <2>1, <2>4
    <3>2. CASE es = <<>>
      BY <3>1, <3>2
    <3>3. CASE es # <<>>
      BY <3>1, <3>3
    <3> QED
      BY <3>2, <3>3
  <2> HIDE DEF last, p, t, n
  <2>6. u \in Seq(T) /\ Len(u) = n + 1 /\ u[n + 1] = last /\ \A i \in 1..n : u[i] = p[i]
    BY <2>2, <2>3, Appended
  <2>7. /\ Parts(t) \in Seq(T) /\ Len(Parts(t)) = n + 1
        /\ \A i \in 1..n + 1 : Parts(t)[i] = (IF i > 1 THEN comma ELSE none) \o t[i]
    BY <1>3, <2>1
  <2> HIDE DEF u, T
  <2>8. \A i \in 1..n + 1 : Parts(t)[i] = u[i]
    <3> SUFFICES ASSUME NEW i \in 1..n + 1 PROVE Parts(t)[i] = u[i]
      OBVIOUS
    <3>1. CASE i \in 1..n
      BY <2>1, <2>3, <2>6, <2>7, <3>1
    <3>2. CASE i = n + 1
      BY <2>1, <2>5, <2>6, <2>7, <3>2
    <3> QED
      BY <2>1, <3>1, <3>2
  <2>9. Parts(t) = u
    BY <2>6, <2>7, <2>8, SeqEqual
  <2> QED
    BY <2>9 DEF t, u, last, p
<1> QED
  BY <1>2, <1>3, <1>4 DEF PartsGoOn, comma, none

\* One element more, without its spaces, and one byte more.
LEMMA PlainOn ==
  ASSUME NEW C
  PROVE  /\ Plain(<<>>) = <<>>
         /\ \A es \in Seq(Seq(C)) : Plain(es) \in Seq(Seq(C)) /\ Len(Plain(es)) = Len(es)
         /\ \A es \in Seq(Seq(C)), e \in Seq(C) : Plain(Append(es, e)) = Append(Plain(es), Without(e, Blank))
<1> DEFINE T == Seq(C)
<1> DEFINE h == [e \in T |-> Without(e, Blank)]
<1>1. h \in [T -> T] /\ \A e \in T : h[e] = Without(e, Blank)
  <2>1. TakesOn(C, Blank)
    BY WithoutOn
  <2> QED
    BY <2>1 DEF TakesOn
<1>2. ASSUME NEW es \in Seq(T) PROVE Plain(es) = Mapped(h, es)
  <2>1. \A i \in DOMAIN es : es[i] \in T
    OBVIOUS
  <2>2. \A i \in DOMAIN es : h[es[i]] = Without(es[i], Blank)
    BY <1>1, <2>1
  <2> HIDE DEF h, T
  <2> QED
    BY <2>2 DEF Plain, Mapped
<1>3. /\ Mapped(h, <<>>) = <<>>
      /\ \A s \in Seq(T) : Mapped(h, s) \in Seq(T) /\ Len(Mapped(h, s)) = Len(s)
      /\ \A s \in Seq(T), c \in T : Mapped(h, Append(s, c)) = Append(Mapped(h, s), h[c])
  <2> HIDE DEF h, T
  <2>1. MapsOn(h, T, T)
    BY <1>1, MapOn
  <2> QED
    BY <2>1 DEF MapsOn
<1>4. <<>> \in Seq(T) /\ \A s \in Seq(T), c \in T : Append(s, c) \in Seq(T)
  OBVIOUS
<1>5. Plain(<<>>) = <<>>
  BY <1>2, <1>3, <1>4
<1>6. \A s \in Seq(T) : Plain(s) \in Seq(T) /\ Len(Plain(s)) = Len(s)
  BY <1>2, <1>3
<1>7. ASSUME NEW s \in Seq(T), NEW e \in T PROVE Plain(Append(s, e)) = Append(Plain(s), Without(e, Blank))
  <2> DEFINE t == Append(s, e)
  <2>1. t \in Seq(T)
    BY <1>4
  <2>2. Mapped(h, t) = Append(Mapped(h, s), h[e])
    BY <1>3
  <2> HIDE DEF t, h
  <2>3. Plain(t) = Mapped(h, t) /\ Plain(s) = Mapped(h, s)
    BY <1>2, <2>1
  <2> QED
    BY <1>1, <2>2, <2>3 DEF t
<1> QED
  BY <1>5, <1>6, <1>7

\* The digits of one byte more.
LEMMA DecimalsOn ==
  /\ Decimals(<<>>) = <<>>
  /\ \A b \in Seq(Octets) : Decimals(b) \in Seq(Seq(Chars)) /\ Len(Decimals(b)) = Len(b)
  /\ \A b \in Seq(Octets), n \in Octets : Decimals(Append(b, n)) = Append(Decimals(b), Decimal(n))
<1> DEFINE T == Seq(Chars)
<1> DEFINE h == [n \in Octets |-> Decimal(n)]
<1>1. h \in [Octets -> T] /\ \A n \in Octets : h[n] = Decimal(n)
  BY DecimalTypes DEF Octets
<1>2. ASSUME NEW b \in Seq(Octets) PROVE Decimals(b) = Mapped(h, b)
  <2>1. \A i \in DOMAIN b : b[i] \in Octets
    OBVIOUS
  <2>2. \A i \in DOMAIN b : h[b[i]] = Decimal(b[i])
    BY <1>1, <2>1
  <2> HIDE DEF h
  <2> QED
    BY <2>2 DEF Decimals, Mapped
<1>3. /\ Mapped(h, <<>>) = <<>>
      /\ \A s \in Seq(Octets) : Mapped(h, s) \in Seq(T) /\ Len(Mapped(h, s)) = Len(s)
      /\ \A s \in Seq(Octets), c \in Octets : Mapped(h, Append(s, c)) = Append(Mapped(h, s), h[c])
  <2> HIDE DEF h, T
  <2>1. MapsOn(h, Octets, T)
    BY <1>1, MapOn
  <2> QED
    BY <2>1 DEF MapsOn
<1>4. <<>> \in Seq(Octets) /\ \A s \in Seq(Octets), c \in Octets : Append(s, c) \in Seq(Octets)
  OBVIOUS
<1> HIDE DEF h
<1>5. Decimals(<<>>) = <<>>
  BY <1>2, <1>3, <1>4
<1>6. \A s \in Seq(Octets) : Decimals(s) \in Seq(T) /\ Len(Decimals(s)) = Len(s)
  BY <1>2, <1>3
<1>7. ASSUME NEW s \in Seq(Octets), NEW e \in Octets PROVE Decimals(Append(s, e)) = Append(Decimals(s), Decimal(e))
  <2> DEFINE t == Append(s, e)
  <2>1. t \in Seq(Octets)
    BY <1>4
  <2>2. Mapped(h, t) = Append(Mapped(h, s), h[e])
    BY <1>3
  <2> HIDE DEF t
  <2>3. Decimals(t) = Mapped(h, t) /\ Decimals(s) = Mapped(h, s)
    BY <1>2, <2>1
  <2> QED
    BY <1>1, <2>2, <2>3 DEF t
<1> QED
  BY <1>5, <1>6, <1>7

\* What the decoder has made of some elements, if they are bytes.
Listed(es, st) ==
  /\ es = <<>> => st = Fresh(<<>>)
  /\ \A b \in Seq(Octets), n \in Octets :
       Plain(es) = Append(Decimals(b), Decimal(n)) => \E k \in 1..3 : st = MadeOf(b, n, k)
  /\ st.ok /\ es # <<>> => \E b \in Seq(Octets), n \in Octets : Plain(es) = Append(Decimals(b), Decimal(n))

\* A byte string is one of numbers, and made of one or ends with a byte.
LEMMA OctetsAre ==
  ASSUME NEW b \in Seq(Octets)
  PROVE  b \in Seq(Nat) /\ (b # <<>> => \E c \in Seq(Octets), n \in Octets : b = Append(c, n))
<1> DEFINE n == Len(b)
<1>1. n \in Nat /\ DOMAIN b = 1..n /\ \A i \in 1..n : b[i] \in Octets
  OBVIOUS
<1>2. \A m \in Octets : m \in Nat
  BY DEF Octets
<1>3. b \in Seq(Nat)
  <2>1. b \in [1..n -> Nat]
    <3>1. b = [i \in 1..n |-> b[i]]
      OBVIOUS
    <3> HIDE DEF n
    <3> QED
      BY <1>1, <1>2, <3>1
  <2> HIDE DEF n
  <2> QED
    BY <1>1, <2>1
<1>4. ASSUME b # <<>> PROVE \E c \in Seq(Octets), m \in Octets : b = Append(c, m)
  <2> DEFINE G == {s \in Seq(Octets) : s # <<>> => \E c \in Seq(Octets), m \in Octets : s = Append(c, m)}
  <2>1. <<>> \in G
    OBVIOUS
  <2>2. ASSUME NEW s \in Seq(Octets), NEW c \in Octets PROVE Append(s, c) \in G
    <3>1. Append(s, c) \in Seq(Octets)
      OBVIOUS
    <3> QED
      BY <3>1
  <2>3. \A s \in Seq(Octets) : s \in G
    <3> HIDE DEF G
    <3> QED
      BY <2>1, <2>2, AllSequences
  <2> QED
    BY <1>4, <2>3
<1> QED
  BY <1>3, <1>4

\* A comma behind an element.
LEMMA CommaBehind ==
  ASSUME NEW st \in Scanners
  PROVE  /\ \A b \in Seq(Nat), n \in Nat, k \in 1..3 : st = MadeOf(b, n, k) => Take(st, Comma) = Fresh(Append(b, n))
         /\ Fresh(<<>>).ok
<1>1. ASSUME NEW b \in Seq(Nat), NEW n \in Nat, NEW k \in 1..3, st = MadeOf(b, n, k)
      PROVE  Take(st, Comma) = Fresh(Append(b, n))
  BY <1>1, TakeComma DEF MadeOf, Comma
<1> QED
  BY <1>1 DEF Fresh

\* A sequence over a set is one over any wider set.
LEMMA Wider ==
  ASSUME NEW A, NEW B, A \subseteq B
  PROVE  \A s \in Seq(A) : s \in Seq(B)
OBVIOUS

\* A walk of one step.
LEMMA OneStep ==
  ASSUME NEW S, NEW C, NEW step, Machine(step, S, C), NEW a \in S, NEW c \in C
  PROVE  Walk(step, a, <<c>>) = step[<<a, c>>]
<1> DEFINE e == <<>>
<1>1. e \in Seq(C) /\ Append(e, c) = <<c>>
  OBVIOUS
<1>5. e \in Seq(C)
  BY <1>1
<1>2. Walk(step, a, <<>>) = a
  BY WalkOn
<1>3. Walk(step, a, e) = a
  BY <1>2
<1> HIDE DEF e
<1>4. Walk(step, a, Append(e, c)) = step[<<Walk(step, a, e), c>>]
  BY <1>5, WalkOn
<1> QED
  BY <1>1, <1>3, <1>4

\* One element more.
LEMMA ListedOn ==
  ASSUME NEW C, Comma \in C, NEW es \in Seq(Seq(C)), NEW e \in Seq(C), JsonElement(e),
         NEW st \in Scanners, Listed(es, st)
  PROVE  Listed(Append(es, e), Walk(ScanStep(C), st, (IF es = <<>> THEN <<>> ELSE <<Comma>>) \o e))
<1> DEFINE step == ScanStep(C)
<1> DEFINE more == Append(es, e)
<1> DEFINE P == Plain(es)
<1> DEFINE q == Without(e, Blank)
<1> DEFINE between == IF es = <<>> THEN <<>> ELSE <<Comma>>
<1> DEFINE fresh == Walk(step, st, between)
<1> DEFINE end == Walk(step, fresh, e)
<1>1. Machine(step, Scanners, C) /\ \A x \in Scanners, c \in C : step[<<x, c>>] = IF x.ok THEN Take(x, c) ELSE x
  BY ScanMachine
<1>2. between \in Seq(C)
  <2>1. <<>> \in Seq(C) /\ <<Comma>> \in Seq(C)
    OBVIOUS
  <2> QED
    BY <2>1
<1>3. Walk(step, st, between \o e) = end /\ fresh \in Scanners
  <2> HIDE DEF step, between
  <2> QED
    BY <1>1, <1>2, WalkOn, WalkThrough
<1>4. Plain(more) = Append(P, q) /\ P \in Seq(Seq(C)) /\ Len(P) = Len(es) /\ q \in Seq(C) /\ more # <<>>
  <2>1. TakesOn(C, Blank)
    BY WithoutOn
  <2>2. q \in Seq(C)
    BY <2>1 DEF TakesOn
  <2>3. Plain(more) = Append(P, q) /\ P \in Seq(Seq(C)) /\ Len(P) = Len(es)
    BY PlainOn
  <2>4. more # <<>>
    <3> DEFINE A == Seq(C)
    <3>1. es \in Seq(A) /\ e \in A
      OBVIOUS
    <3> HIDE DEF A
    <3> QED
      BY <3>1, Appended
  <2> QED
    BY <2>2, <2>3, <2>4
<1>5. ASSUME NEW b \in Seq(Octets), NEW n \in Octets, Append(P, q) = Append(Decimals(b), Decimal(n))
      PROVE  P = Decimals(b) /\ q = Decimal(n)
  <2> DEFINE A == Seq(C)
  <2> DEFINE B == Seq(Chars)
  <2> DEFINE T == A \cup B
  <2> DEFINE x == Decimals(b)
  <2> DEFINE y == Decimal(n)
  <2>1. P \in Seq(A) /\ q \in A
    BY <1>4
  <2>2. x \in Seq(B)
    BY DecimalsOn
  <2>3. y \in B
    BY DecimalTypes DEF Octets
  <2>4. Append(P, q) = Append(x, y)
    BY <1>5
  <2> HIDE DEF A, B, P, q, x, y
  <2>5. P \in Seq(T) /\ x \in Seq(T) /\ q \in T /\ y \in T
    BY <2>1, <2>2, <2>3, Wider
  <2> HIDE DEF T
  <2>6. P = x /\ q = y
    BY <2>4, <2>5, AppendIsInjective
  <2> QED
    BY <2>6 DEF x, y
\* What the element adds to the bytes before it.
<1>6. ASSUME NEW bytes \in Seq(Nat), fresh = Fresh(bytes)
      PROVE  /\ end \in Scanners
             /\ \A n \in Octets : q = Decimal(n) => \E k \in 1..3 : end = MadeOf(bytes, n, k)
             /\ end.ok => \E n \in Octets : q = Decimal(n)
  <2>1. end = Walk(step, Fresh(bytes), e)
    BY <1>6
  <2> HIDE DEF fresh
  <2>2. /\ end \in Scanners
        /\ \A v \in 0..255 : q = Decimal(v) => end = MadeOf(bytes, v, Len(q))
        /\ end.ok => \E v \in 0..255 : q = Decimal(v)
    <3>1. MakesOne(C, bytes, e)
      BY OneElement
    <3> HIDE DEF end
    <3> QED
      BY <2>1, <3>1 DEF MakesOne
  <2>3. \A v \in 0..255 : q = Decimal(v) => Len(q) \in 1..3
    BY DecimalTypes
  <2> HIDE DEF end, q
  <2> QED
    BY <2>2, <2>3 DEF Octets
<1> HIDE DEF end, q
<1>7. CASE es = <<>>
  <2>1. fresh = Fresh(<<>>)
    <3>1. between = <<>> /\ st = Fresh(<<>>)
      BY <1>7 DEF Listed
    <3>2. Walk(step, st, <<>>) = st
      <4> HIDE DEF step
      <4> QED
        BY <1>1, WalkOn
    <3> HIDE DEF step, between
    <3> QED
      BY <3>1, <3>2
  <2> HIDE DEF fresh
  <2>2. <<>> \in Seq(Nat) /\ <<>> \in Seq(Octets) /\ P = <<>> /\ Decimals(<<>>) = <<>>
    <3>1. P = <<>>
      BY <1>7, PlainOn
    <3> QED
      BY <3>1, DecimalsOn
  <2>3. ASSUME NEW b \in Seq(Octets), NEW n \in Octets, Append(P, q) = Append(Decimals(b), Decimal(n))
        PROVE  \E k \in 1..3 : end = MadeOf(b, n, k)
    <3>1. Decimals(b) = <<>> /\ q = Decimal(n)
      BY <1>5, <2>2, <2>3
    <3>2. b = <<>>
      <4>1. Len(Decimals(b)) = Len(b)
        BY DecimalsOn
      <4>2. Len(b) = 0
        BY <3>1, <4>1
      <4> QED
        BY <4>2
    <3> QED
      BY <1>6, <2>1, <2>2, <3>1, <3>2
  <2>4. ASSUME end.ok PROVE \E b \in Seq(Octets), n \in Octets : Append(P, q) = Append(Decimals(b), Decimal(n))
    <3>1. PICK n \in Octets : q = Decimal(n)
      BY <1>6, <2>1, <2>2, <2>4
    <3> DEFINE none == <<>>
    <3>2. none \in Seq(Octets) /\ Append(P, q) = Append(Decimals(none), Decimal(n))
      BY <2>2, <3>1
    <3> HIDE DEF none, P, q
    <3> QED
      BY <3>2
  <2> HIDE DEF P, more
  <2>5. Listed(more, end)
    BY <1>4, <2>3, <2>4 DEF Listed
  <2> HIDE DEF between, step
  <2> QED
    BY <1>3, <2>5 DEF more, between, step
<1>8. CASE es # <<>>
  <2>1. fresh = IF st.ok THEN Take(st, Comma) ELSE st
    <3>1. between = <<Comma>>
      BY <1>8
    <3>2. Walk(step, st, <<Comma>>) = step[<<st, Comma>>]
      <4> HIDE DEF step
      <4> QED
        BY <1>1, OneStep
    <3>3. step[<<st, Comma>>] = IF st.ok THEN Take(st, Comma) ELSE st
      BY <1>1
    <3> HIDE DEF step, between
    <3> QED
      BY <3>1, <3>2, <3>3
  <2>2. ASSUME NEW b \in Seq(Octets), NEW n \in Octets, P = Append(Decimals(b), Decimal(n))
        PROVE  /\ Append(b, n) \in Seq(Octets) /\ Append(b, n) \in Seq(Nat) /\ fresh = Fresh(Append(b, n))
               /\ Decimals(Append(b, n)) = P
    <3>1. b \in Seq(Nat) /\ n \in Nat
      <4>1. b \in Seq(Nat)
        BY OctetsAre
      <4>2. n \in Nat
        BY DEF Octets
      <4> QED
        BY <4>1, <4>2
    <3>2. Append(b, n) \in Seq(Octets) /\ Append(b, n) \in Seq(Nat)
      BY <3>1
    <3>3. PICK k \in 1..3 : st = MadeOf(b, n, k)
      BY <2>2 DEF Listed
    <3>4. st.ok
      BY <3>3 DEF MadeOf
    <3>5. Take(st, Comma) = Fresh(Append(b, n))
      BY <3>1, <3>3, CommaBehind
    <3>6. Decimals(Append(b, n)) = P
      BY <2>2, DecimalsOn
    <3> QED
      BY <2>1, <3>2, <3>4, <3>5, <3>6
  <2>3. ASSUME NEW b \in Seq(Octets), NEW n \in Octets, Append(P, q) = Append(Decimals(b), Decimal(n))
        PROVE  \E k \in 1..3 : end = MadeOf(b, n, k)
    <3>1. P = Decimals(b) /\ q = Decimal(n)
      BY <1>5, <2>3
    <3>2. b # <<>>
      <4>1. P # <<>>
        BY <1>4, <1>8
      <4> QED
        BY <3>1, <4>1, DecimalsOn
    <3>3. PICK c \in Seq(Octets), m \in Octets : b = Append(c, m)
      BY <3>2, OctetsAre
    <3>4. P = Append(Decimals(c), Decimal(m))
      BY <3>1, <3>3, DecimalsOn
    <3>5. fresh = Fresh(b) /\ b \in Seq(Nat)
      BY <2>2, <3>3, <3>4
    <3> HIDE DEF fresh
    <3> QED
      BY <1>6, <3>1, <3>5
  <2>4. ASSUME end.ok PROVE \E b \in Seq(Octets), n \in Octets : Append(P, q) = Append(Decimals(b), Decimal(n))
    <3>1. fresh.ok
      <4>1. CASE ~fresh.ok
        <5>1. end = fresh
          <6>1. \A s \in Seq(C) : Walk(ScanStep(C), fresh, s) = fresh
            <7>1. fresh \in Scanners
              BY <1>3
            <7> HIDE DEF fresh
            <7> QED
              BY <4>1, <7>1, Refusing
          <6> HIDE DEF fresh
          <6> QED
            BY <6>1 DEF end
        <5> HIDE DEF fresh
        <5> QED
          BY <2>4, <4>1, <5>1
      <4> HIDE DEF fresh
      <4> QED
        BY <4>1
    <3>2. st.ok
      <4> HIDE DEF fresh
      <4> QED
        BY <2>1, <3>1
    <3>3. PICK b \in Seq(Octets), n \in Octets : P = Append(Decimals(b), Decimal(n))
      BY <1>8, <3>2 DEF Listed
    <3> DEFINE c == Append(b, n)
    <3>4. c \in Seq(Octets) /\ c \in Seq(Nat) /\ fresh = Fresh(c) /\ Decimals(c) = P
      BY <2>2, <3>3
    <3> HIDE DEF c, fresh
    <3>5. PICK m \in Octets : q = Decimal(m)
      BY <1>6, <2>4, <3>4
    <3>6. Append(P, q) = Append(Decimals(c), Decimal(m))
      BY <3>4, <3>5
    <3> QED
      BY <3>4, <3>6
  <2> HIDE DEF P, more, fresh
  <2>5. Listed(more, end)
    BY <1>4, <2>3, <2>4 DEF Listed
  <2> HIDE DEF between, step
  <2> QED
    BY <1>3, <2>5 DEF more, between, step
<1> QED
  BY <1>7, <1>8

\* Parts of a list, and the characters of all of them.
Flat(es) == FlattenSeq(Parts(es))

\* What the decoder makes of a list between brackets.
LEMMA ListScanned ==
  ASSUME NEW C, Comma \in C, NEW E, E \subseteq Seq(C), \A e \in E : JsonElement(e)
  PROVE  \A es \in Seq(E) :
           /\ Flat(es) \in Seq(C) /\ Scanned(Flat(es)) \in Scanners
           /\ Listed(es, Scanned(Flat(es)))
<1> DEFINE step == ScanStep(C)
<1> DEFINE a == Fresh(<<>>)
<1> DEFINE T == Seq(C)
<1> DEFINE Good(es) == Flat(es) \in Seq(C) /\ Walk(step, a, Flat(es)) \in Scanners /\ Listed(es, Walk(step, a, Flat(es)))
<1> DEFINE G == {es \in Seq(E) : Good(es)}
<1>1. Machine(step, Scanners, C) /\ a \in Scanners
  <2>1. <<>> \in Seq(Nat)
    OBVIOUS
  <2> QED
    BY <2>1, ScanMachine
<1>2. PartsGoOn(C)
  BY PartsOn
<1>3. /\ FlattenSeq(<<>>) = <<>>
      /\ \A seqs \in Seq(T) : FlattenSeq(seqs) \in T
      /\ \A seqs \in Seq(T), t \in T : FlattenSeq(Append(seqs, t)) = FlattenSeq(seqs) \o t
  BY FlattenOn
<1>4. \A es \in Seq(E) : es \in Seq(T)
  OBVIOUS
<1>5. <<>> \in G
  <2> DEFINE none == <<>>
  <2>1. none \in Seq(E) /\ none \in Seq(C)
    OBVIOUS
  <2>2. Flat(<<>>) = <<>>
    BY <1>2, <1>3 DEF Flat, PartsGoOn
  <2>3. Walk(step, a, <<>>) = a
    <3> HIDE DEF step, a
    <3> QED
      BY <1>1, WalkOn
  <2>4. Plain(<<>>) = <<>>
    BY PlainOn
  <2>5. \A b \in Seq(Octets), n \in Octets : Append(Decimals(b), Decimal(n)) # <<>>
    <3> SUFFICES ASSUME NEW b \in Seq(Octets), NEW n \in Octets PROVE Append(Decimals(b), Decimal(n)) # <<>>
      OBVIOUS
    <3>1. Decimals(b) \in Seq(Seq(Chars))
      BY DecimalsOn
    <3>2. Decimal(n) \in Seq(Chars)
      BY DecimalTypes DEF Octets
    <3> DEFINE A == Seq(Chars)
    <3> DEFINE x == Decimals(b)
    <3> DEFINE y == Decimal(n)
    <3>3. x \in Seq(A) /\ y \in A
      BY <3>1, <3>2
    <3> HIDE DEF A, x, y
    <3>4. Append(x, y) # <<>>
      BY <3>3, Appended
    <3> QED
      BY <3>4 DEF x, y
  <2> HIDE DEF step, none
  <2>6. Flat(none) = none /\ Walk(step, a, none) = a /\ Plain(none) = <<>> /\ none = <<>>
    BY <2>2, <2>3, <2>4 DEF none
  <2>7. Listed(none, a)
    BY <2>5, <2>6 DEF Listed
  <2> HIDE DEF a
  <2>8. Good(none)
    BY <1>1, <2>1, <2>6, <2>7
  <2> HIDE DEF Good
  <2>9. none \in G
    BY <2>1, <2>8
  <2> QED
    BY <2>9 DEF none
<1>6. ASSUME NEW es \in Seq(E), NEW e \in E, es \in G PROVE Append(es, e) \in G
  <2> DEFINE more == Append(es, e)
  <2> DEFINE s == Flat(es)
  <2> DEFINE t == (IF es = <<>> THEN <<>> ELSE <<Comma>>) \o e
  <2> DEFINE st == Walk(step, a, s)
  <2>1. more \in Seq(E) /\ es \in Seq(T) /\ e \in T /\ e \in Seq(C)
    BY <1>4
  <2>2. s \in Seq(C) /\ st \in Scanners /\ Listed(es, st)
    BY <1>6
  <2>3. t \in Seq(C)
    <3>1. <<>> \in Seq(C) /\ <<Comma>> \in Seq(C)
      OBVIOUS
    <3> QED
      BY <2>1, <3>1
  <2>4. Parts(more) = Append(Parts(es), t) /\ Parts(es) \in Seq(T)
    BY <1>2, <2>1 DEF PartsGoOn
  <2>5. Flat(more) = s \o t
    <3> HIDE DEF t, more
    <3>1. t \in T
      BY <2>3
    <3> HIDE DEF T
    <3> QED
      BY <1>3, <2>4, <3>1 DEF Flat
  <2>6. Listed(more, Walk(step, st, t))
    <3> HIDE DEF st
    <3> QED
      BY <2>1, <2>2, ListedOn
  <2>7. Walk(step, a, s \o t) = Walk(step, st, t) /\ s \o t \in Seq(C) /\ Walk(step, st, t) \in Scanners
    <3>1. Walk(step, a, s \o t) = Walk(step, st, t)
      <4> HIDE DEF step, a, s, t
      <4> QED
        BY <1>1, <2>2, <2>3, WalkThrough
    <3>2. s \o t \in Seq(C)
      <4> HIDE DEF s, t
      <4> QED
        BY <2>2, <2>3
    <3>3. Walk(step, st, t) \in Scanners
      <4> HIDE DEF step, st, t
      <4> QED
        BY <1>1, <2>2, <2>3, WalkOn
    <3> QED
      BY <3>1, <3>2, <3>3
  <2> HIDE DEF more, s, t, st, step, a
  <2>8. Good(more)
    BY <2>5, <2>6, <2>7
  <2> HIDE DEF Good
  <2> QED
    BY <2>1, <2>8 DEF more
<1>7. \A es \in Seq(E) : es \in G
  <2> HIDE DEF G
  <2> QED
    BY <1>5, <1>6, AllSequences
<1>8. ASSUME NEW es \in Seq(E)
      PROVE  /\ Flat(es) \in Seq(C) /\ Scanned(Flat(es)) \in Scanners
             /\ Listed(es, Scanned(Flat(es)))
  <2>1. Good(es)
    BY <1>7
  <2>2. Scanned(Flat(es)) = Walk(step, a, Flat(es))
    BY <2>1, ScannedIsAWalk
  <2> HIDE DEF step, a
  <2> QED
    BY <2>1, <2>2
<1> QED
  BY <1>8

\* A sequence without elements is empty.
LEMMA Vacant ==
  ASSUME NEW C, NEW w \in Seq(C), \A i \in DOMAIN w : FALSE
  PROVE  w = <<>>
<1>1. Len(w) \in Nat /\ DOMAIN w = 1..Len(w)
  OBVIOUS
<1> DEFINE n == Len(w)
<1>2. n \in Nat /\ \A i \in 1..n : FALSE
  BY <1>1
<1>3. n = 0
  <2> HIDE DEF n
  <2>1. n > 0 => 1 \in 1..n
    BY <1>2
  <2> QED
    BY <1>2, <2>1
<1> QED
  BY <1>3

\* Spaces leave nothing.
LEMMA OnlySpaces ==
  ASSUME NEW C, NEW s \in Seq(C), ToSet(s) \subseteq Blank
  PROVE  Scanned(s) = Fresh(<<>>)
<1> DEFINE step == ScanStep(C)
<1> DEFINE a == Fresh(<<>>)
<1> DEFINE w == Without(s, Blank)
<1>1. a \in Scanners /\ Machine(step, Scanners, C)
  <2>1. <<>> \in Seq(Nat)
    BY Nothing
  <2> QED
    BY <2>1, ScanMachine
<1>2. w \in Seq(C)
  <2>1. TakesOn(C, Blank)
    BY WithoutOn
  <2> QED
    BY <2>1 DEF TakesOn
<1>3. \A i \in DOMAIN w : FALSE
  <2> SUFFICES ASSUME NEW i \in DOMAIN w PROVE FALSE
    OBVIOUS
  <2>1. w[i] \notin Blank /\ \E j \in DOMAIN s : w[i] = s[j]
    BY WithoutHas
  <2>2. \A j \in DOMAIN s : s[j] \in Blank
    BY DEF ToSet
  <2> HIDE DEF w
  <2> QED
    BY <2>1, <2>2
<1>4. Scanned(s) = Walk(step, a, w)
  BY <1>1, ScannedIsAWalk, SpacesAreSkipped
<1> HIDE DEF w
<1>5. w = <<>>
  BY <1>2, <1>3, Vacant
<1>6. Walk(step, a, <<>>) = a
  <2> HIDE DEF step, a
  <2> QED
    BY <1>1, WalkOn
<1> QED
  BY <1>4, <1>5, <1>6

\* A JSON array is decoded as the bytes it is made of, and otherwise refused.
Decodes(es) ==
  LET got == DecodeByteList(Join(es))
  IN  /\ \A b \in Seq(Octets) : Plain(es) = Decimals(b) => got = Value(b)
      /\ got.ok => \E b \in Seq(Octets) : Plain(es) = Decimals(b)

\* The decoder, over whole arrays.
LEMMA ListDecoded ==
  ASSUME NEW C, Comma \in C, Open \in C, Close \in C, NEW E, E \subseteq Seq(C), \A e \in E : JsonElement(e),
         NEW es \in Seq(E)
  PROVE  Decodes(es)
<1> DEFINE s == Flat(es)
<1> DEFINE st == Scanned(s)
<1> DEFINE raw == Join(es)
<1> DEFINE got == DecodeByteList(raw)
<1>1. s \in Seq(C) /\ st \in Scanners /\ Listed(es, st)
  BY ListScanned
<1>2. raw = <<Open>> \o s \o <<Close>>
  BY DEF Join, Flat, Parts, Comma, Open, Close
<1> HIDE DEF raw
<1>3. raw \notin {<<>>, Null} /\ raw[1] = Open /\ Last(raw) = Close /\ SubSeq(raw, 2, Len(raw) - 1) = s
  <2> HIDE DEF s
  <2> QED
    BY <1>1, <1>2, BetweenBrackets
<1>4. got = IF ToSet(s) \subseteq Blank THEN Value(<<>>)
            ELSE IF st.ok /\ Flush(st).ok THEN Value(Flush(st).out)
            ELSE Malformed
  <2> DEFINE u == SubSeq(raw, 2, Len(raw) - 1)
  <2>1. u = s
    BY <1>3
  <2>2. got = IF raw \in {<<>>, Null} THEN Nil
              ELSE IF raw[1] # "[" \/ Last(raw) # "]" THEN Malformed
              ELSE IF ToSet(u) \subseteq Blank THEN Value(<<>>)
              ELSE IF Scanned(u).ok /\ Flush(Scanned(u)).ok THEN Value(Flush(Scanned(u)).out)
              ELSE Malformed
    BY DEF DecodeByteList
  <2> HIDE DEF u, got, s
  <2>3. raw[1] = "[" /\ Last(raw) = "]"
    BY <1>3 DEF Open, Close
  <2> QED
    BY <1>3, <2>1, <2>2, <2>3
<1>5. \A es0 \in Seq(Seq(C)) : Plain(es0) \in Seq(Seq(C)) /\ Len(Plain(es0)) = Len(es0)
  BY PlainOn
<1>6. es \in Seq(Seq(C)) /\ Plain(<<>>) = <<>> /\ Decimals(<<>>) = <<>> /\ <<>> \in Seq(Octets)
  <2>1. es \in Seq(Seq(C))
    BY Wider
  <2>2. Plain(<<>>) = <<>>
    BY PlainOn
  <2>3. <<>> \in Seq(Octets)
    OBVIOUS
  <2> QED
    BY <2>1, <2>2, <2>3, DecimalsOn
<1>7. ASSUME NEW b \in Seq(Octets) PROVE Len(Decimals(b)) = Len(b) /\ (b = <<>> <=> Len(b) = 0)
  BY DecimalsOn
<1>8. Len(Plain(es)) = Len(es) /\ (es = <<>> <=> Len(es) = 0)
  BY <1>5, <1>6
<1> HIDE DEF got
<1>9. CASE es = <<>>
  <2>1. s = <<>>
    <3>1. FlattenSeq(<<>>) = <<>>
      BY FlattenOn
    <3>2. Parts(<<>>) = <<>>
      BY DEF Parts
    <3> QED
      BY <1>9, <3>1, <3>2 DEF Flat
  <2>2. ToSet(s) \subseteq Blank
    BY <2>1 DEF ToSet
  <2>3. got = Value(<<>>)
    BY <1>4, <2>2
  <2>4. \A b \in Seq(Octets) : Plain(es) = Decimals(b) => b = <<>>
    BY <1>7, <1>8, <1>9
  <2>5. Plain(es) = Decimals(<<>>)
    BY <1>6, <1>9
  <2> QED
    BY <1>6, <2>3, <2>4, <2>5 DEF Decodes, got, raw
<1>10. CASE es # <<>>
  <2>1. ~(ToSet(s) \subseteq Blank)
    <3> SUFFICES ASSUME ToSet(s) \subseteq Blank PROVE FALSE
      OBVIOUS
    <3>1. st = Fresh(<<>>)
      BY <1>1, OnlySpaces
    <3> HIDE DEF st, s
    <3>2. st.ok /\ st.digits = 0
      BY <3>1 DEF Fresh
    <3>3. PICK b \in Seq(Octets), n \in Octets : Plain(es) = Append(Decimals(b), Decimal(n))
      BY <1>1, <1>10, <3>2 DEF Listed
    <3>4. PICK k \in 1..3 : st = MadeOf(b, n, k)
      BY <1>1, <3>3 DEF Listed
    <3>5. st.digits = k
      BY <3>4 DEF MadeOf
    <3>6. \A i \in 1..3 : i # 0
      OBVIOUS
    <3> QED
      BY <3>2, <3>5, <3>6
  <2> HIDE DEF s, st
  <2>2. ASSUME NEW b \in Seq(Octets), Plain(es) = Decimals(b) PROVE got = Value(b)
    <3>1. b # <<>>
      BY <1>7, <1>8, <1>10, <2>2
    <3>2. PICK c \in Seq(Octets), n \in Octets : b = Append(c, n)
      BY <3>1, OctetsAre
    <3>3. Plain(es) = Append(Decimals(c), Decimal(n))
      BY <2>2, <3>2, DecimalsOn
    <3>4. PICK k \in 1..3 : st = MadeOf(c, n, k)
      BY <1>1, <3>3 DEF Listed
    <3>5. st.ok /\ st.digits # 0 /\ st.out = c /\ st.n = n
      <4>1. \A i \in 1..3 : i # 0
        OBVIOUS
      <4> QED
        BY <3>4, <4>1 DEF MadeOf
    <3> DEFINE more == Append(st.out, st.n)
    <3>6. more = b
      BY <3>2, <3>5
    <3> HIDE DEF more
    <3>7. Flush(st) = [st EXCEPT !.out = more, !.n = 0, !.digits = 0]
      BY <3>5 DEF Flush, more
    <3>8. Flush(st).ok /\ Flush(st).out = more
      BY <1>1, <3>5, <3>7 DEF Scanners
    <3>9. got = Value(Flush(st).out)
      <4>1. got = IF st.ok /\ Flush(st).ok THEN Value(Flush(st).out) ELSE Malformed
        BY <1>4, <2>1, Zenon
      <4> QED
        BY <3>5, <3>8, <4>1, Zenon
    <3> QED
      BY <3>6, <3>8, <3>9, Zenon
  <2>3. ASSUME got.ok PROVE \E b \in Seq(Octets) : Plain(es) = Decimals(b)
    <3>1. st.ok
      BY <1>4, <2>1, <2>3 DEF Malformed
    <3>2. PICK c \in Seq(Octets), n \in Octets : Plain(es) = Append(Decimals(c), Decimal(n))
      BY <1>1, <1>10, <3>1 DEF Listed
    <3> DEFINE b == Append(c, n)
    <3>3. Decimals(b) = Append(Decimals(c), Decimal(n)) /\ b \in Seq(Octets)
      BY DecimalsOn
    <3> HIDE DEF b
    <3> QED
      BY <3>2, <3>3
  <2> QED
    BY <2>2, <2>3 DEF Decodes, got, raw
<1> QED
  BY <1>9, <1>10

\* Any JSON array of elements is decoded as BytesSurvive says (decodeByteList).
THEOREM ByteListsSurvive ==
  ASSUME NEW C, Comma \in C, Open \in C, Close \in C, NEW E, E \subseteq Seq(C), \A e \in E : JsonElement(e),
         NEW es \in Seq(E)
  PROVE  BytesSurvive(es)
<1> DEFINE bytes == {Decimal(n) : n \in 0..255}
<1> DEFINE got == DecodeByteList(Join(es))
<1> DEFINE plain == Plain(es)
<1> DEFINE N == Len(es)
<1>1. Decodes(es)
  BY ListDecoded
<1>2. N \in Nat /\ DOMAIN es = 1..N /\ DOMAIN plain = 1..N
  BY DEF Plain
<1>3. ToSet(plain) \subseteq bytes <=> \A i \in 1..N : \E n \in 0..255 : plain[i] = Decimal(n)
  <2>1. \A x : x \in bytes <=> \E n \in 0..255 : x = Decimal(n)
    OBVIOUS
  <2> HIDE DEF plain, N, bytes
  <2>2. ToSet(plain) = {plain[i] : i \in 1..N}
    BY <1>2 DEF ToSet
  <2>3. ToSet(plain) \subseteq bytes <=> \A i \in 1..N : plain[i] \in bytes
    BY <2>2, Zenon
  <2> QED
    BY <2>1, <2>3, Zenon
<1> HIDE DEF bytes
<1>4. ASSUME NEW b \in Seq(Octets), plain = Decimals(b)
      PROVE  \A i \in 1..N : \E n \in 0..255 : plain[i] = Decimal(n)
  <2> SUFFICES ASSUME NEW i \in 1..N PROVE \E n \in 0..255 : plain[i] = Decimal(n)
    OBVIOUS
  <2>1. DOMAIN plain = DOMAIN b /\ plain[i] = Decimal(b[i])
    <3> HIDE DEF plain, N
    <3>1. DOMAIN Decimals(b) = DOMAIN b
      BY DEF Decimals
    <3> QED
      BY <1>2, <1>4, <3>1 DEF Decimals
  <2>2. b[i] \in 0..255
    <3>1. i \in DOMAIN b
      BY <1>2, <2>1
    <3>2. b[i] \in Octets
      BY <3>1
    <3> QED
      BY <3>2 DEF Octets
  <2> HIDE DEF plain
  <2> QED
    BY <2>1, <2>2
<1>5. ASSUME \A i \in 1..N : \E n \in 0..255 : plain[i] = Decimal(n)
      PROVE  \E b \in Seq(Octets) : plain = Decimals(b)
  <2> DEFINE b == [i \in 1..N |-> CHOOSE n \in 0..255 : plain[i] = Decimal(n)]
  <2> HIDE DEF plain, N
  <2>1. \A i \in 1..N : b[i] \in 0..255 /\ plain[i] = Decimal(b[i])
    BY <1>5
  <2>2. b \in [1..N -> Octets]
    BY <1>5 DEF Octets
  <2>3. DOMAIN b = 1..N /\ b \in Seq(Octets)
    <3> HIDE DEF b
    <3>1. b \in Seq(Octets)
      BY <1>2, <2>2
    <3> QED
      BY <2>2, <3>1
  <2>4. plain = [i \in 1..N |-> plain[i]]
    BY <1>2 DEF plain, Plain
  <2> HIDE DEF b
  <2>5. plain = Decimals(b)
    BY <2>1, <2>3, <2>4 DEF Decimals
  <2> QED
    BY <2>3, <2>5
<1>6. got.ok <=> ToSet(plain) \subseteq bytes
  <2>1. ASSUME got.ok PROVE ToSet(plain) \subseteq bytes
    <3>1. PICK b \in Seq(Octets) : plain = Decimals(b)
      BY <1>1, <2>1 DEF Decodes
    <3> HIDE DEF plain, N
    <3> QED
      BY <1>3, <1>4, <3>1
  <2>2. ASSUME ToSet(plain) \subseteq bytes PROVE got.ok
    <3>1. PICK b \in Seq(Octets) : plain = Decimals(b)
      <4> HIDE DEF plain, N
      <4> QED
        BY <1>3, <1>5, <2>2
    <3>2. got = Value(b)
      BY <1>1, <3>1 DEF Decodes
    <3> QED
      BY <3>2 DEF Value
  <2> QED
    BY <2>1, <2>2
<1>7. ASSUME got.ok PROVE got # Nil /\ ByteList(got.is) = Join(plain)
  <2>1. PICK b \in Seq(Octets) : plain = Decimals(b)
    BY <1>1, <1>7 DEF Decodes
  <2>2. got = Value(b)
    BY <1>1, <2>1 DEF Decodes
  <2> HIDE DEF got, plain
  <2>3. got # Nil
    <3>1. DOMAIN got = {"ok", "is"}
      BY <2>2 DEF Value
    <3>2. DOMAIN Nil = {"ok", "isNil"}
      BY DEF Nil
    <3>3. "is" # "ok" /\ "is" # "isNil"
      OBVIOUS
    <3>4. {"ok", "is"} # {"ok", "isNil"}
      BY <3>3
    <3> QED
      BY <3>1, <3>2, <3>4
  <2>4. got.is = b
    BY <2>2 DEF Value
  <2>5. ByteList(b) = Join(plain)
    BY <2>1 DEF ByteList, Decimals
  <2> QED
    BY <2>3, <2>4, <2>5
<1>8. plain = [i \in DOMAIN es |-> Without(es[i], Blank)]
  BY DEF Plain
<1> HIDE DEF got, plain
<1> QED
  BY <1>6, <1>7, <1>8 DEF BytesSurvive, got, bytes

\* What has none of the elements to be left out stays as it is.
LEMMA NothingLeft ==
  ASSUME NEW C, NEW left
  PROVE  \A s \in Seq(C) : (\A i \in DOMAIN s : s[i] \notin left) => Without(s, left) = s
<1> DEFINE Fine(s) == (\A i \in DOMAIN s : s[i] \notin left) => Without(s, left) = s
<1> DEFINE G == {s \in Seq(C) : Fine(s)}
<1>1. TakesOn(C, left)
  BY WithoutOn
<1>2. <<>> \in G
  <2>1. Without(<<>>, left) = <<>> /\ <<>> \in Seq(C)
    BY <1>1, Nothing DEF TakesOn
  <2> QED
    BY <2>1
<1>3. ASSUME NEW s \in Seq(C), NEW c \in C, s \in G PROVE Append(s, c) \in G
  <2> DEFINE t == Append(s, c)
  <2>1. /\ t \in Seq(C) /\ DOMAIN t = 1..Len(s) + 1 /\ t[Len(s) + 1] = c /\ Len(s) \in Nat
        /\ DOMAIN s = 1..Len(s) /\ \A j \in 1..Len(s) : t[j] = s[j]
    BY Appended
  <2>2. Without(t, left) = IF c \in left THEN Without(s, left) ELSE Append(Without(s, left), c)
    BY <1>1 DEF TakesOn
  <2>3. Fine(s)
    BY <1>3
  <2>4. ASSUME \A i \in DOMAIN t : t[i] \notin left PROVE Without(t, left) = t
    <3>1. Len(s) + 1 \in DOMAIN t /\ \A i \in DOMAIN s : i \in DOMAIN t /\ t[i] = s[i]
      <4> HIDE DEF t
      <4> QED
        BY <2>1
    <3>2. c \notin left /\ Without(s, left) = s
      <4> HIDE DEF t
      <4> QED
        BY <2>1, <2>3, <2>4, <3>1
    <3> QED
      BY <2>2, <3>2
  <2> HIDE DEF t
  <2>5. Fine(t)
    BY <2>4
  <2> HIDE DEF Fine
  <2> QED
    BY <2>1, <2>5 DEF t
<1>4. \A s \in Seq(C) : s \in G
  <2> HIDE DEF G
  <2> QED
    BY <1>2, <1>3, AllSequences
<1> QED
  BY <1>4

\* The digits of a byte are a number as JSON writes it.
LEMMA BytesAreNumbers ==
  \A v \in 0..255 : NumberLike(Decimal(v))
<1> DEFINE Zero == "0"
<1> DEFINE Fine(t) == t # <<>> /\ (\A i \in DOMAIN t : t[i] \in DOMAIN DigitOf) /\ t[1] # Zero
<1>1. \A d \in 0..9 : Digit[d + 1] \in DOMAIN DigitOf
  BY DigitsForth
<1>2. \A d \in 1..9 : Digit[d + 1] # Zero
  BY DEF Digit
<1> HIDE DEF Zero
<1>3. ASSUME NEW v \in 0..9
      PROVE  /\ Decimal(v) # <<>> /\ Len(Decimal(v)) = 1
             /\ (\A i \in DOMAIN Decimal(v) : Decimal(v)[i] \in DOMAIN DigitOf)
             /\ Decimal(v)[1] = Digit[v + 1]
  <2> DEFINE z == Digit[v + 1]
  <2>1. Decimal(v) = <<z>> /\ z \in DOMAIN DigitOf
    BY <1>1, DecimalGrows
  <2> HIDE DEF z
  <2>2. <<z>> # <<>> /\ Len(<<z>>) = 1 /\ DOMAIN <<z>> = 1..1 /\ <<z>>[1] = z
    OBVIOUS
  <2>3. \A i \in 1..1 : i = 1
    OBVIOUS
  <2> QED
    BY <2>1, <2>2, <2>3 DEF z
<1>4. ASSUME NEW m \in 1..25, NEW d \in 0..9, m * 10 + d <= 255, Fine(Decimal(m)) PROVE Fine(Decimal(m * 10 + d))
  <2> DEFINE A == DOMAIN DigitOf
  <2> DEFINE s == Decimal(m)
  <2> DEFINE z == Digit[d + 1]
  <2> DEFINE t == Append(s, z)
  <2>1. Decimal(m * 10 + d) = t
    BY <1>4, DecimalGrows
  <2>2. s \in Seq(Chars) /\ Len(s) \in 1..3
    <3>1. m \in 0..255
      OBVIOUS
    <3> QED
      BY <3>1, DecimalTypes
  <2>3. s # <<>> /\ (\A i \in DOMAIN s : s[i] \in A) /\ s[1] # Zero
    BY <1>4
  <2>4. z \in A /\ z \in Chars
    BY <1>1 DEF Chars
  <2> HIDE DEF A, s, z
  <2>5. /\ DOMAIN t = 1..Len(s) + 1 /\ t[Len(s) + 1] = z /\ Len(s) \in Nat /\ t # <<>>
        /\ DOMAIN s = 1..Len(s) /\ \A j \in 1..Len(s) : t[j] = s[j]
    BY <2>2, <2>4, Appended
  <2> HIDE DEF t
  <2>6. \A i \in DOMAIN t : t[i] \in A
    <3> SUFFICES ASSUME NEW i \in DOMAIN t PROVE t[i] \in A
      OBVIOUS
    <3>1. i \in 1..Len(s) \/ i = Len(s) + 1
      BY <2>5
    <3> QED
      BY <2>3, <2>4, <2>5, <3>1
  <2>7. t[1] # Zero
    <3>1. 1 \in 1..Len(s)
      BY <2>2
    <3> QED
      BY <2>3, <2>5, <3>1
  <2> QED
    BY <2>1, <2>5, <2>6, <2>7 DEF A
<1>5. \A v \in 1..9 : Fine(Decimal(v))
  BY <1>2, <1>3
<1>6. ASSUME NEW v \in 10..99 PROVE Fine(Decimal(v))
  <2>1. v \div 10 \in 1..9 /\ v \div 10 \in 1..25 /\ v % 10 \in 0..9 /\ (v \div 10) * 10 + (v % 10) = v
    OBVIOUS
  <2> HIDE DEF Fine
  <2> QED
    BY <1>4, <1>5, <2>1
<1>7. ASSUME NEW v \in 100..255 PROVE Fine(Decimal(v))
  <2>1. v \div 10 \in 10..99 /\ v \div 10 \in 1..25 /\ v % 10 \in 0..9 /\ (v \div 10) * 10 + (v % 10) = v
    OBVIOUS
  <2> HIDE DEF Fine
  <2> QED
    BY <1>4, <1>6, <2>1
<1> SUFFICES ASSUME NEW v \in 0..255 PROVE NumberLike(Decimal(v))
  OBVIOUS
<1>8. CASE v = 0
  <2>1. v \in 0..9 /\ ~(1 > 1)
    BY <1>8
  <2> QED
    BY <1>3, <2>1 DEF NumberLike
<1>9. CASE v # 0
  <2>1. v \in 1..9 \/ v \in 10..99 \/ v \in 100..255
    BY <1>9
  <2>2. Fine(Decimal(v))
    <3> HIDE DEF Fine
    <3> QED
      BY <1>5, <1>6, <1>7, <2>1
  <2> QED
    BY <2>2 DEF NumberLike, Zero
<1> QED
  BY <1>8, <1>9

\* A byte string of any length, the empty one too, comes back from its JSON
\* array as it was sent (byteList, decodeByteList).
THEOREM BytesComeBack ==
  \A b \in Seq(Octets) : DecodeByteList(ByteList(b)) = Value(b)
<1> SUFFICES ASSUME NEW b \in Seq(Octets) PROVE DecodeByteList(ByteList(b)) = Value(b)
  OBVIOUS
<1> DEFINE E == {Decimal(n) : n \in Octets}
<1> DEFINE C == Chars
<1> DEFINE es == Decimals(b)
<1>1. Comma \in C /\ Open \in C /\ Close \in C
  BY DEF Comma, Open, Close, Chars
<1>2. E \subseteq Seq(C)
  BY DecimalTypes DEF Octets
<1>3. ASSUME NEW n \in Octets PROVE Without(Decimal(n), Blank) = Decimal(n) /\ JsonElement(Decimal(n))
  <2> DEFINE t == Decimal(n)
  <2>1. t \in Seq(Chars) /\ NumberLike(t)
    BY DecimalTypes, BytesAreNumbers DEF Octets
  <2> HIDE DEF t
  <2>2. \A i \in DOMAIN t : t[i] \notin Blank
    <3>1. \A c \in DOMAIN DigitOf : c \notin Blank
      BY DigitsAreNaturals DEF Blank
    <3> QED
      BY <2>1, <3>1 DEF NumberLike
  <2>3. Without(t, Blank) = t
    BY <2>1, <2>2, NothingLeft
  <2>4. JsonElement(t)
    BY <2>1, <2>3 DEF JsonElement, NumberLike, ToSet
  <2> QED
    BY <2>3, <2>4 DEF t
<1>4. DOMAIN b = 1..Len(b) /\ Len(b) \in Nat /\ \A i \in 1..Len(b) : b[i] \in Octets
  OBVIOUS
<1>5. es \in Seq(E) /\ DOMAIN es = DOMAIN b /\ \A i \in DOMAIN b : es[i] \in E
  <2>1. es = [i \in 1..Len(b) |-> Decimal(b[i])]
    BY <1>4 DEF Decimals
  <2>2. es \in [1..Len(b) -> E]
    BY <1>4, <2>1
  <2> HIDE DEF es, E
  <2> QED
    BY <1>4, <2>2
<1>6. Plain(es) = es
  <2>1. \A i \in DOMAIN b : es[i] = Decimal(b[i]) /\ Without(Decimal(b[i]), Blank) = Decimal(b[i])
    BY <1>3, <1>4 DEF Decimals
  <2>2. es = [i \in DOMAIN b |-> Decimal(b[i])]
    BY DEF Decimals
  <2>3. Plain(es) = [i \in DOMAIN b |-> Without(es[i], Blank)]
    BY <1>5 DEF Plain
  <2> HIDE DEF es
  <2> QED
    BY <2>1, <2>2, <2>3
<1>7. \A e \in E : JsonElement(e)
  BY <1>3
<1> HIDE DEF E, C, es
<1>8. Decodes(es)
  BY <1>1, <1>2, <1>5, <1>7, ListDecoded
<1>9. Join(es) = ByteList(b)
  BY DEF es, Decimals, ByteList
<1> QED
  BY <1>6, <1>8, <1>9 DEF Decodes, es

-----------------------------------------------------------------------------
(* Frames and arrays as inputs.                                            *)

\* Frames whose length fits into the header.
ShortFrames == {f \in Frames : Len(f.body) <= MaxBody}

\* Of frames whose length fits, those that writeFrame has written are read as
\* they are, to the first that is refused (writeFrame, readFrame).
THEOREM FramesAreFaithful ==
  ASSUME NEW version \in Nat, NEW frames \in Seq(ShortFrames)
  PROVE  FramesSurvive(version, frames)
<1> DEFINE left == {f \in ToSet(frames) : ~WriteFrame(version, f).ok}
<1> DEFINE written == Without(frames, left)
<1>1. \A i \in DOMAIN frames : frames[i] \in ShortFrames /\ frames[i] \in ToSet(frames)
  BY DEF ToSet
<1>2. written \in Seq(ShortFrames)
  <2>1. TakesOn(ShortFrames, left)
    BY WithoutOn
  <2> HIDE DEF left
  <2> QED
    BY <2>1 DEF TakesOn
<1>3. \A i \in DOMAIN written : written[i] \notin left /\ \E j \in DOMAIN frames : written[i] = frames[j]
  <2> HIDE DEF left
  <2> QED
    BY WithoutHas
<1>4. written \in Seq(Frames)
  <2>1. ShortFrames \subseteq Frames
    BY DEF ShortFrames
  <2> HIDE DEF written
  <2> QED
    BY <1>2, <2>1, Wider
<1> HIDE DEF written
<1>5. \A i \in DOMAIN written : WriteFrame(version, written[i]).ok /\ Fits(Len(written[i].body))
  <2> SUFFICES ASSUME NEW i \in DOMAIN written
               PROVE  WriteFrame(version, written[i]).ok /\ Fits(Len(written[i].body))
    OBVIOUS
  <2>1. written[i] \in ShortFrames /\ written[i] \in ToSet(frames) /\ written[i] \notin left
    <3> HIDE DEF left
    <3> QED
      BY <1>1, <1>3
  <2> DEFINE f == written[i]
  <2>2. WriteFrame(version, f).ok
    BY <2>1
  <2>3. Len(f.body) \in Nat /\ Len(f.body) <= MaxBody
    <3>1. f \in Frames /\ Len(f.body) <= MaxBody
      BY <2>1 DEF ShortFrames
    <3> HIDE DEF f
    <3> QED
      BY <3>1 DEF Frames
  <2>4. Fits(Len(f.body))
    <3> DEFINE n == Len(f.body)
    <3>1. n \in Nat /\ n <= MaxBody
      BY <2>3
    <3> HIDE DEF n
    <3>2. Fits(n)
      BY <3>1, ShorterFits, TextAssumption
    <3> QED
      BY <3>2 DEF n
  <2> QED
    BY <2>2, <2>4
<1>6. WrittenSurvive(version, written)
  <2> HIDE DEF left
  <2> QED
    BY <1>4, <1>5, WrittenFramesSurvive
<1> QED
  BY <1>6 DEF FramesSurvive, written

\* Any array of such elements is decoded as bytes, or refused.
LEMMA BytesAreFaithful ==
  ASSUME NEW elements \in Seq(ArrayElements)
  PROVE  BytesSurvive(elements)
<1> DEFINE C == STRING
<1> DEFINE S == C \cup {Comma, Open, Close}
<1>1. ArrayElements \subseteq Seq(C) /\ \A e \in ArrayElements : JsonElement(e)
  BY TextAssumption
<1> HIDE DEF C
<1>2. Comma \in S /\ Open \in S /\ Close \in S /\ C \subseteq S
  OBVIOUS
<1> HIDE DEF S
<1>3. ASSUME NEW e \in Seq(C) PROVE e \in Seq(S)
  BY <1>2, Wider
<1> QED
  BY <1>1, <1>2, <1>3, ByteListsSurvive

-----------------------------------------------------------------------------
(* The inputs.                                                             *)

SqlInputs == [is : {"sql"}, sql : Seq(SqlCharacters), args : Seq(Values)]
ScriptInputs == [is : {"script"}, statements : Seq(Statements)]
FrameInputs == [is : {"frames"}, version : {Version, Version + 1}, frames : Seq(ShortFrames)]
ByteInputs == [is : {"bytes"}, elements : Seq(ArrayElements)]

\* What an input can be, in any number of steps.
Inputs == SqlInputs \cup ScriptInputs \cup FrameInputs \cup ByteInputs

\* The type of the input.
InputTyped == input \in Inputs

\* An input of one kind is of this type.
LEMMA InputsByKind ==
  ASSUME NEW i \in Inputs
  PROVE  /\ i.is = "sql" => i \in SqlInputs
         /\ i.is = "script" => i \in ScriptInputs
         /\ i.is = "frames" => i \in FrameInputs
         /\ i.is = "bytes" => i \in ByteInputs
<1>1. \A x \in SqlInputs : x.is = "sql"
  BY DEF SqlInputs
<1>2. \A x \in ScriptInputs : x.is = "script"
  BY DEF ScriptInputs
<1>3. \A x \in FrameInputs : x.is = "frames"
  BY DEF FrameInputs
<1>4. \A x \in ByteInputs : x.is = "bytes"
  BY DEF ByteInputs
<1> QED
  BY <1>1, <1>2, <1>3, <1>4 DEF Inputs

\* The first input of each kind.
LEMMA FirstInputs == Init => input \in Inputs
<1> SUFFICES ASSUME Init PROVE input \in Inputs
  OBVIOUS
<1> DEFINE none == <<>>
<1>1. /\ none \in Seq(SqlCharacters) /\ none \in Seq(Values) /\ none \in Seq(Statements)
      /\ none \in Seq(ShortFrames) /\ none \in Seq(ArrayElements)
  BY Nothing
<1>2. \/ input \in [is : {"sql"}, sql : {none}, args : {none}]
      \/ input \in [is : {"script"}, statements : {none}]
      \/ input \in [is : {"frames"}, version : {Version, Version + 1}, frames : {none}]
      \/ input \in [is : {"bytes"}, elements : {none}]
  BY DEF Init
<1> HIDE DEF none
<1>3. CASE input \in [is : {"sql"}, sql : {none}, args : {none}]
  BY <1>1, <1>3 DEF Inputs, SqlInputs
<1>4. CASE input \in [is : {"script"}, statements : {none}]
  BY <1>1, <1>4 DEF Inputs, ScriptInputs
<1>5. CASE input \in [is : {"frames"}, version : {Version, Version + 1}, frames : {none}]
  BY <1>1, <1>5 DEF Inputs, FrameInputs
<1>6. CASE input \in [is : {"bytes"}, elements : {none}]
  BY <1>1, <1>6 DEF Inputs, ByteInputs
<1> QED
  BY <1>2, <1>3, <1>4, <1>5, <1>6

\* A frame of MoreFrames is short.
LEMMA FramesAreShort ==
  ASSUME NEW tag \in {tagRequest, tagResponse, tagPing}, NEW n \in 0..MaxBody, NEW b \in {0, 1}
  PROVE  [tag |-> tag, body |-> [i \in 1..n |-> b]] \in ShortFrames
<1> DEFINE body == [i \in 1..n |-> b]
<1>1. MaxBody \in Nat
  BY TextAssumption
<1>2. n \in Nat /\ n <= MaxBody /\ b \in Nat
  BY <1>1
<1>3. body \in Seq(Nat) /\ Len(body) = n
  <2>1. body \in [1..n -> Nat]
    BY <1>2
  <2> HIDE DEF body
  <2> QED
    BY <1>2, <2>1
<1>4. tag \in Nat
  BY DEF tagRequest, tagResponse, tagPing
<1> DEFINE f == [tag |-> tag, body |-> body]
<1> HIDE DEF body
<1>5. f \in Frames /\ f.body = body
  BY <1>3, <1>4 DEF Frames
<1> HIDE DEF f
<1>6. f \in ShortFrames
  BY <1>2, <1>3, <1>5 DEF ShortFrames
<1> QED
  BY <1>6 DEF f, body

\* Each step keeps the type of the input.
LEMMA InputsGrow == input \in Inputs /\ [Next]_input => input' \in Inputs
<1> SUFFICES ASSUME input \in Inputs, [Next]_input PROVE input' \in Inputs
  OBVIOUS
<1>1. CASE MoreText
  <2>1. PICK c \in SqlCharacters : input' = [input EXCEPT !.sql = Append(@, c)]
    BY <1>1 DEF MoreText
  <2>2. input \in SqlInputs
    BY <1>1, InputsByKind DEF MoreText
  <2> DEFINE more == Append(input.sql, c)
  <2>3. more \in Seq(SqlCharacters)
    <3>1. input.sql \in Seq(SqlCharacters)
      BY <2>2 DEF SqlInputs
    <3> QED
      BY <3>1, Appended
  <2>4. input' = [input EXCEPT !.sql = more]
    BY <2>1
  <2> HIDE DEF more
  <2> QED
    BY <2>2, <2>3, <2>4 DEF SqlInputs, Inputs
<1>2. CASE MoreArgs
  <2>1. PICK c \in Values : input' = [input EXCEPT !.args = Append(@, c)]
    BY <1>2 DEF MoreArgs
  <2>2. input \in SqlInputs
    BY <1>2, InputsByKind DEF MoreArgs
  <2> DEFINE more == Append(input.args, c)
  <2>3. more \in Seq(Values)
    <3>1. input.args \in Seq(Values)
      BY <2>2 DEF SqlInputs
    <3> QED
      BY <3>1, Appended
  <2>4. input' = [input EXCEPT !.args = more]
    BY <2>1
  <2> HIDE DEF more
  <2> QED
    BY <2>2, <2>3, <2>4 DEF SqlInputs, Inputs
<1>3. CASE MoreStatements
  <2>1. PICK c \in Statements : input' = [input EXCEPT !.statements = Append(@, c)]
    BY <1>3 DEF MoreStatements
  <2>2. input \in ScriptInputs
    BY <1>3, InputsByKind DEF MoreStatements
  <2> DEFINE more == Append(input.statements, c)
  <2>3. more \in Seq(Statements)
    <3>1. input.statements \in Seq(Statements)
      BY <2>2 DEF ScriptInputs
    <3> QED
      BY <3>1, Appended
  <2>4. input' = [input EXCEPT !.statements = more]
    BY <2>1
  <2> HIDE DEF more
  <2> QED
    BY <2>2, <2>3, <2>4 DEF ScriptInputs, Inputs
<1>4. CASE MoreFrames
  <2>1. PICK tag \in {tagRequest, tagResponse, tagPing}, n \in 0..MaxBody, b \in {0, 1} :
          input' = [input EXCEPT !.frames = Append(@, [tag |-> tag, body |-> [i \in 1..n |-> b]])]
    BY <1>4 DEF MoreFrames
  <2> DEFINE f == [tag |-> tag, body |-> [i \in 1..n |-> b]]
  <2>2. input \in FrameInputs
    BY <1>4, InputsByKind DEF MoreFrames
  <2>3. f \in ShortFrames
    BY FramesAreShort
  <2>4. input' = [input EXCEPT !.frames = Append(@, f)]
    BY <2>1
  <2> HIDE DEF f
  <2> DEFINE more == Append(input.frames, f)
  <2>5. more \in Seq(ShortFrames)
    <3>1. input.frames \in Seq(ShortFrames)
      BY <2>2 DEF FrameInputs
    <3> QED
      BY <2>3, <3>1, Appended
  <2>6. input' = [input EXCEPT !.frames = more]
    BY <2>4
  <2> HIDE DEF more
  <2> QED
    BY <2>2, <2>5, <2>6 DEF FrameInputs, Inputs
<1>5. CASE MoreElements
  <2>1. PICK c \in ArrayElements : input' = [input EXCEPT !.elements = Append(@, c)]
    BY <1>5 DEF MoreElements
  <2>2. input \in ByteInputs
    BY <1>5, InputsByKind DEF MoreElements
  <2> DEFINE more == Append(input.elements, c)
  <2>3. more \in Seq(ArrayElements)
    <3>1. input.elements \in Seq(ArrayElements)
      BY <2>2 DEF ByteInputs
    <3> QED
      BY <3>1, Appended
  <2>4. input' = [input EXCEPT !.elements = more]
    BY <2>1
  <2> HIDE DEF more
  <2> QED
    BY <2>2, <2>3, <2>4 DEF ByteInputs, Inputs
<1>6. CASE UNCHANGED input
  BY <1>6
<1> QED
  BY <1>1, <1>2, <1>3, <1>4, <1>5, <1>6 DEF Next

\* Whatever frames are written and cut off, and whatever array is decoded, what
\* is read is what was written or is refused (wire.go).
THEOREM WireStaysFaithful == Spec => []WireIsFaithful
<1>1. input \in Inputs => WireIsFaithful
  <2> SUFFICES ASSUME input \in Inputs PROVE WireIsFaithful
    OBVIOUS
  <2>1. ASSUME input.is = "frames" PROVE FramesSurvive(input.version, input.frames)
    <3>1. input.version \in {Version, Version + 1} /\ input.frames \in Seq(ShortFrames)
      BY <2>1, InputsByKind DEF FrameInputs
    <3>2. input.version \in Nat
      BY <3>1 DEF Version
    <3> QED
      BY <3>1, <3>2, FramesAreFaithful
  <2>2. ASSUME input.is = "bytes" PROVE BytesSurvive(input.elements)
    <3>1. input.elements \in Seq(ArrayElements)
      BY <2>2, InputsByKind DEF ByteInputs
    <3> QED
      BY <3>1, BytesAreFaithful
  <2> QED
    BY <2>1, <2>2 DEF WireIsFaithful
<1>2. Init => InputTyped
  BY FirstInputs DEF InputTyped
<1>3. InputTyped /\ [Next]_input => InputTyped'
  BY InputsGrow DEF InputTyped
<1>4. InputTyped => WireIsFaithful
  BY <1>1 DEF InputTyped
<1> QED
  BY <1>2, <1>3, <1>4, PTL DEF Spec

-----------------------------------------------------------------------------
(* The server's lexer as a machine.                                        *)

\* Where it is.
AtText == "text"
AtOpen == "open"
AtClosed == "closed"

\* A literal with this body.
Literal(body) == <<"literal", body>>

\* What is not told apart by these proofs.
LEMMA CharactersDiffer ==
  /\ Quote # Mark /\ Quote # Space /\ Mark # Space /\ Quote # Control /\ Mark # Control
  /\ Quote # Semicolon /\ Mark # Semicolon /\ Control # Semicolon /\ Control # Space
  /\ AtText # AtOpen /\ AtText # AtClosed /\ AtOpen # AtClosed
BY DEF Quote, Mark, Space, Control, Semicolon, AtText, AtOpen, AtClosed

\* A literal is no character, and has its body.
LEMMA LiteralsDiffer ==
  ASSUME NEW body
  PROVE  Literal(body) # Mark /\ Literal(body) # Control /\ Literal(body)[2] = body
BY DEF Literal, Mark, Control

\* Characters and literals.
LexemesOf(C) == C \cup {Literal(body) : body \in Seq(C)}

Lexers(C) == [at : {AtText, AtOpen, AtClosed}, done : Seq(LexemesOf(C)), body : Seq(C)]

Lexer(at, done, body) == [at |-> at, done |-> done, body |-> body]

\* What a lexer is made of.
LEMMA LexerIs ==
  ASSUME NEW C
  PROVE  /\ \A at \in {AtText, AtOpen, AtClosed}, done \in Seq(LexemesOf(C)), body \in Seq(C) :
              Lexer(at, done, body) \in Lexers(C)
         /\ \A st \in Lexers(C) :
              /\ st = Lexer(st.at, st.done, st.body)
              /\ st.at \in {AtText, AtOpen, AtClosed} /\ st.done \in Seq(LexemesOf(C)) /\ st.body \in Seq(C)
BY DEF Lexers, Lexer

\* The parts of a lexer.
LEMMA LexerHas ==
  ASSUME NEW at, NEW done, NEW body
  PROVE  Lexer(at, done, body).at = at /\ Lexer(at, done, body).done = done /\ Lexer(at, done, body).body = body
BY DEF Lexer

\* A lexer with another literal, or with more behind it.
Rebodied(st, at, body) == [st EXCEPT !.at = at, !.body = body]
Redone(st, at, done) == [st EXCEPT !.at = at, !.done = done]

\* A lexer with other parts.
LEMMA LexerWith ==
  ASSUME NEW C, NEW st \in Lexers(C), NEW x \in {AtText, AtOpen, AtClosed}
  PROVE  /\ \A y \in Seq(C) : Rebodied(st, x, y) = Lexer(x, st.done, y)
         /\ \A y \in Seq(LexemesOf(C)) : Redone(st, x, y) = Lexer(x, y, st.body)
<1>1. ASSUME NEW y \in Seq(C) PROVE Rebodied(st, x, y) = Lexer(x, st.done, y)
  <2> DEFINE u == Rebodied(st, x, y)
  <2>1. u \in Lexers(C) /\ u.at = x /\ u.done = st.done /\ u.body = y
    BY DEF Lexers, Rebodied
  <2> HIDE DEF u
  <2>2. u = Lexer(x, st.done, y)
    BY <2>1, LexerIs
  <2> QED
    BY <2>2 DEF u
<1>2. ASSUME NEW y \in Seq(LexemesOf(C)) PROVE Redone(st, x, y) = Lexer(x, y, st.body)
  <2> DEFINE u == Redone(st, x, y)
  <2>1. u \in Lexers(C) /\ u.at = x /\ u.done = y /\ u.body = st.body
    BY DEF Lexers, Redone
  <2> HIDE DEF u
  <2>2. u = Lexer(x, y, st.body)
    BY <2>1, LexerIs
  <2> QED
    BY <2>2 DEF u
<1> QED
  BY <1>1, <1>2

\* What has been read outside of an open literal.
LEMMA ReadIs ==
  ASSUME NEW C, NEW st \in Lexers(C)
  PROVE  /\ Read(st) = IF st.at = AtText THEN st.done ELSE Append(st.done, Literal(st.body))
         /\ Read(st) \in Seq(LexemesOf(C))
<1>1. Read(st) = IF st.at = AtText THEN st.done ELSE Append(st.done, Literal(st.body))
  BY DEF Read, AtText, Literal
<1>2. st.done \in Seq(LexemesOf(C)) /\ Literal(st.body) \in LexemesOf(C)
  BY LexerIs DEF LexemesOf
<1> DEFINE x == Literal(st.body)
<1> HIDE DEF x
<1>3. Append(st.done, x) \in Seq(LexemesOf(C))
  BY <1>2, Appended DEF x
<1> QED
  BY <1>1, <1>2, <1>3 DEF x

\* What the lexer does with a character.
Lexed(st, c) ==
  IF c = Quote
    THEN IF st.at = AtText THEN Lexer(AtOpen, st.done, <<>>)
         ELSE IF st.at = AtOpen THEN Lexer(AtClosed, st.done, st.body)
         ELSE Lexer(AtOpen, st.done, Append(st.body, Quote))
    ELSE IF st.at = AtOpen THEN Lexer(AtOpen, st.done, Append(st.body, c))
         ELSE Lexer(AtText, Append(Read(st), c), st.body)

\* It does this.
LEMMA LexIs ==
  ASSUME NEW C, NEW st \in Lexers(C), NEW c \in C, Quote \in C
  PROVE  Lex(st, c) = Lexed(st, c)
<1> DEFINE L == LexemesOf(C)
<1>1. st.done \in Seq(L) /\ st.body \in Seq(C) /\ Read(st) \in Seq(L) /\ c \in L
  BY LexerIs, ReadIs DEF LexemesOf
<1> HIDE DEF L
<1>2. <<>> \in Seq(C) /\ Append(st.body, Quote) \in Seq(C) /\ Append(Read(st), c) \in Seq(L)
  BY <1>1, Appended, Nothing
<1>3. st = Lexer(st.at, st.done, st.body) /\ st.at \in {AtText, AtOpen, AtClosed}
  BY LexerIs
<1>4. CASE c = Quote /\ st.at = AtText
  <2>1. Lex(st, c) = [st EXCEPT !.at = "open", !.body = <<>>]
    BY <1>4 DEF Lex, AtText
  <2> DEFINE y == <<>>
  <2>2. Lex(st, c) = Rebodied(st, AtOpen, y)
    BY <2>1 DEF AtOpen, Rebodied
  <2>4. y \in Seq(C)
    BY <1>2
  <2> HIDE DEF y
  <2>3. Lex(st, c) = Lexer(AtOpen, st.done, y)
    BY <2>2, <2>4, LexerWith
  <2> QED
    BY <1>4, <2>3 DEF Lexed, y
<1>5. CASE c = Quote /\ st.at = AtOpen
  <2>1. Lex(st, c) = [st EXCEPT !.at = "closed"]
    BY <1>5 DEF Lex, AtOpen
  <2>2. [st EXCEPT !.at = "closed"] = Lexer(AtClosed, st.done, st.body)
    BY <1>3 DEF Lexer, AtClosed
  <2> QED
    BY <1>5, <2>1, <2>2, CharactersDiffer DEF Lexed
<1>6. CASE c = Quote /\ st.at = AtClosed
  <2>1. Lex(st, c) = [st EXCEPT !.at = "open", !.body = Append(@, Quote)]
    BY <1>6 DEF Lex, AtClosed
  <2> DEFINE y == Append(st.body, Quote)
  <2>2. Lex(st, c) = Rebodied(st, AtOpen, y)
    BY <2>1 DEF AtOpen, Rebodied
  <2>4. y \in Seq(C)
    BY <1>2
  <2> HIDE DEF y
  <2>3. Lex(st, c) = Lexer(AtOpen, st.done, y)
    BY <2>2, <2>4, LexerWith
  <2> QED
    BY <1>6, <2>3, CharactersDiffer DEF Lexed, y
<1>7. CASE c # Quote /\ st.at = AtOpen
  <2>1. Lex(st, c) = [st EXCEPT !.body = Append(@, c)]
    BY <1>7 DEF Lex, AtOpen
  <2> DEFINE y == Append(st.body, c)
  <2>2. y \in Seq(C)
    BY <1>1, Appended
  <2>3. Lex(st, c) = [st EXCEPT !.body = y]
    BY <2>1
  <2> HIDE DEF y
  <2>4. [st EXCEPT !.body = y] = Lexer(AtOpen, st.done, y)
    BY <1>3, <1>7 DEF Lexer
  <2> QED
    BY <1>7, <2>3, <2>4 DEF Lexed, y
<1>8. CASE c # Quote /\ st.at # AtOpen
  <2>1. Lex(st, c) = [st EXCEPT !.at = "text", !.done = Append(Read(st), c)]
    BY <1>8 DEF Lex, AtOpen
  <2> DEFINE y == Append(Read(st), c)
  <2>2. Lex(st, c) = Redone(st, AtText, y)
    BY <2>1 DEF AtText, Redone
  <2>4. y \in Seq(LexemesOf(C))
    BY <1>2 DEF L
  <2> HIDE DEF y
  <2>3. Lex(st, c) = Lexer(AtText, y, st.body)
    BY <2>2, <2>4, LexerWith
  <2> QED
    BY <1>8, <2>3 DEF Lexed, y
<1> QED
  BY <1>3, <1>4, <1>5, <1>6, <1>7, <1>8

\* A lexer remains one.
LEMMA LexedTypes ==
  ASSUME NEW C, NEW st \in Lexers(C), NEW c \in C, Quote \in C
  PROVE  Lexed(st, c) \in Lexers(C)
<1> DEFINE L == LexemesOf(C)
<1>1. st.done \in Seq(L) /\ st.body \in Seq(C) /\ Read(st) \in Seq(L) /\ c \in L
  BY LexerIs, ReadIs DEF LexemesOf
<1>2. <<>> \in Seq(C) /\ Append(st.body, c) \in Seq(C) /\ Append(st.body, Quote) \in Seq(C)
  BY <1>1, Appended, Nothing
<1> HIDE DEF L
<1>3. Append(Read(st), c) \in Seq(L)
  BY <1>1, Appended
<1> QED
  BY <1>1, <1>2, <1>3, LexerIs DEF Lexed, L

LexStep(C) == [p \in Lexers(C) \X C |-> Lexed(p[1], p[2])]

\* Nothing has been read.
FirstLexer == Lexer(AtText, <<>>, <<>>)

\* The lexer is a machine.
LEMMA LexMachine ==
  ASSUME NEW C, Quote \in C
  PROVE  /\ Machine(LexStep(C), Lexers(C), C) /\ FirstLexer \in Lexers(C)
         /\ \A st \in Lexers(C), c \in C : LexStep(C)[<<st, c>>] = Lexed(st, c)
<1>1. \A st \in Lexers(C), c \in C : Lexed(st, c) \in Lexers(C)
  BY LexedTypes
<1>2. FirstLexer \in Lexers(C)
  <2>1. <<>> \in Seq(C) /\ <<>> \in Seq(LexemesOf(C))
    BY Nothing
  <2> QED
    BY <2>1, LexerIs DEF FirstLexer
<1> QED
  BY <1>1, <1>2 DEF Machine, LexStep

\* What the lexer makes of a text.
LexOf(C, s) == Walk(LexStep(C), FirstLexer, s)

\* Lexemes is what has been read at the end.
LEMMA LexemesIsAWalk ==
  ASSUME NEW C, Quote \in C, NEW s \in Seq(C)
  PROVE  Lexemes(s) = IF LexOf(C, s).at = AtOpen THEN Refused ELSE Ok(Read(LexOf(C, s)))
<1> DEFINE n == Len(s)
<1> DEFINE step == LexStep(C)
<1> DEFINE a == FirstLexer
<1> DEFINE Is(f) == f = [i \in 0..n |-> IF i = 0 THEN a ELSE Lex(f[i - 1], s[i])]
<1>1. n \in Nat /\ \A i \in 1..n : s[i] \in C
  OBVIOUS
<1>2. PICK f : Trace(f, Lexers(C), step, a, s)
  <2>1. Machine(step, Lexers(C), C) /\ a \in Lexers(C)
    BY LexMachine
  <2> HIDE DEF step, a
  <2> QED
    BY <2>1, WalkExists
<1>3. /\ f \in [0..n -> Lexers(C)] /\ f[0] = a /\ Walk(step, a, s) = f[n]
      /\ \A i \in 1..n : f[i] = step[<<f[i - 1], s[i]>>]
  <2> HIDE DEF step, a
  <2> QED
    BY <1>2 DEF Trace
<1>4. \A st \in Lexers(C), c \in C : step[<<st, c>>] = Lex(st, c)
  BY LexMachine, LexIs
<1>5. Lexemes(s) = LET end == (CHOOSE g : Is(g))[n] IN IF end.at = AtOpen THEN Refused ELSE Ok(Read(end))
  BY DEF Lexemes, FirstLexer, Lexer, AtText, AtOpen
<1> HIDE DEF step, a, n
<1>6. \A i \in 1..n : f[i] = Lex(f[i - 1], s[i])
  <2> SUFFICES ASSUME NEW i \in 1..n PROVE f[i] = Lex(f[i - 1], s[i])
    OBVIOUS
  <2>1. i - 1 \in 0..n
    BY <1>1
  <2>2. f[i - 1] \in Lexers(C) /\ s[i] \in C
    BY <1>1, <1>3, <2>1
  <2> QED
    BY <1>3, <1>4, <2>2
<1>7. Is(f)
  <2>1. \A i \in 0..n : i # 0 => i \in 1..n
    BY <1>1
  <2> QED
    BY <1>3, <1>6, <2>1
<1> DEFINE g == CHOOSE x : Is(x)
<1>8. Is(g)
  BY <1>7
<1> HIDE DEF g
<1>9. g[0] = a /\ \A i \in 1..n : g[i] = Lex(g[i - 1], s[i])
  BY <1>1, <1>8
<1> DEFINE Good == {k \in Nat : k <= n => f[k] = g[k]}
<1>10. 0 \in Good
  BY <1>3, <1>9
<1>11. ASSUME NEW k \in Nat, k \in Good PROVE k + 1 \in Good
  <2> SUFFICES ASSUME k + 1 <= n PROVE f[k + 1] = g[k + 1]
    OBVIOUS
  <2>1. k + 1 \in 1..n /\ (k + 1) - 1 = k /\ f[k] = g[k]
    BY <1>1, <1>11
  <2> QED
    BY <1>6, <1>9, <2>1
<1>12. f[n] = g[n]
  <2> HIDE DEF Good
  <2>1. \A k \in Nat : k \in Good
    BY <1>10, <1>11, AllNaturals
  <2>2. n \in Good
    BY <1>1, <2>1
  <2> QED
    BY <1>1, <2>2 DEF Good
<1>13. LexOf(C, s) = g[n]
  BY <1>3, <1>12 DEF LexOf, step, a
<1> QED
  BY <1>5, <1>13 DEF g

-----------------------------------------------------------------------------
(* Placeholders among lexemes.                                             *)

\* How many placeholders there are.
Count(l) == Cardinality(Marks(l))

\* Where x is.
Places(l, x) == {i \in DOMAIN l : l[i] = x}

\* Places are counted one lexeme after the other.
LEMMA PlacesOn ==
  ASSUME NEW L, NEW l \in Seq(L), NEW x \in L, NEW y
  PROVE  /\ IsFiniteSet(Places(l, y)) /\ Cardinality(Places(l, y)) \in Nat
         /\ Places(Append(l, x), y) = IF x = y THEN Places(l, y) \cup {Len(l) + 1} ELSE Places(l, y)
         /\ Cardinality(Places(Append(l, x), y)) =
              IF x = y THEN Cardinality(Places(l, y)) + 1 ELSE Cardinality(Places(l, y))
<1> DEFINE n == Len(l)
<1> DEFINE more == Append(l, x)
<1>1. /\ n \in Nat /\ more \in Seq(L) /\ Len(more) = n + 1 /\ more[n + 1] = x /\ \A i \in 1..n : more[i] = l[i]
      /\ DOMAIN l = 1..n /\ DOMAIN more = 1..n + 1
  BY Appended
<1> HIDE DEF more
<1>2. Places(l, y) = {i \in 1..n : l[i] = y}
  BY <1>1 DEF Places
<1>3. Places(more, y) = {i \in 1..n + 1 : more[i] = y}
  BY <1>1 DEF Places
<1> HIDE DEF n
<1>4. IsFiniteSet(Places(l, y)) /\ Cardinality(Places(l, y)) \in Nat
  <2>1. IsFiniteSet(1..n)
    BY <1>1, FS_Interval
  <2>2. Places(l, y) \subseteq 1..n
    BY <1>2
  <2>3. IsFiniteSet(Places(l, y))
    BY <2>1, <2>2, FS_Subset
  <2> QED
    BY <2>3, FS_CardinalityType
<1>5. n + 1 \notin Places(l, y)
  BY <1>1, <1>2
<1>6. Places(more, y) = IF x = y THEN Places(l, y) \cup {n + 1} ELSE Places(l, y)
  <2>1. \A i \in 1..n + 1 : i \in 1..n \/ i = n + 1
    BY <1>1
  <2>2. 1..n \subseteq 1..n + 1 /\ n + 1 \in 1..n + 1
    BY <1>1
  <2> QED
    BY <1>1, <1>2, <1>3, <2>1, <2>2
<1>7. Cardinality(Places(more, y)) = IF x = y THEN Cardinality(Places(l, y)) + 1 ELSE Cardinality(Places(l, y))
  <2>1. Cardinality(Places(l, y) \cup {n + 1}) = Cardinality(Places(l, y)) + 1
    BY <1>4, <1>5, FS_AddElement
  <2> QED
    BY <1>6, <2>1
<1> QED
  BY <1>4, <1>6, <1>7 DEF n, more

\* And so are the placeholders.
LEMMA MarksOn ==
  ASSUME NEW L, NEW l \in Seq(L), NEW x \in L
  PROVE  /\ Count(l) \in Nat
         /\ Count(Append(l, x)) = IF x = Mark THEN Count(l) + 1 ELSE Count(l)
         /\ \A i \in 1..Len(l) : NthMark(Append(l, x), i) = NthMark(l, i)
         /\ x = Mark => NthMark(Append(l, x), Len(l) + 1) = Count(l) + 1
<1> DEFINE n == Len(l)
<1> DEFINE more == Append(l, x)
<1>1. n \in Nat /\ DOMAIN l = 1..n /\ DOMAIN more = 1..n + 1
  BY Appended
<1>2. /\ Count(l) \in Nat
      /\ Marks(more) = IF x = Mark THEN Marks(l) \cup {n + 1} ELSE Marks(l)
      /\ Count(more) = IF x = Mark THEN Count(l) + 1 ELSE Count(l)
  <2>1. Marks(l) = Places(l, Mark) /\ Marks(more) = Places(more, Mark)
    BY DEF Marks, Places
  <2> QED
    BY <2>1, PlacesOn DEF Count
<1>3. Marks(more) \subseteq 1..n + 1
  BY <1>1 DEF Marks
<1> HIDE DEF n, more
<1>4. ASSUME NEW i \in 1..n PROVE NthMark(more, i) = NthMark(l, i)
  <2>1. ~(n + 1 <= i)
    BY <1>1
  <2>2. {j \in Marks(more) : j <= i} = {j \in Marks(l) : j <= i}
    BY <1>2, <2>1
  <2> QED
    BY <2>2 DEF NthMark
<1>5. ASSUME x = Mark PROVE NthMark(more, n + 1) = Count(l) + 1
  <2>1. \A j \in Marks(more) : j <= n + 1
    BY <1>1, <1>3
  <2>2. {j \in Marks(more) : j <= n + 1} = Marks(more)
    BY <2>1
  <2> QED
    BY <1>2, <1>5, <2>2 DEF NthMark, Count
<1> QED
  BY <1>2, <1>4, <1>5 DEF n, more

\* There are none in nothing.
LEMMA NoMarks == Count(<<>>) = 0
<1>1. Marks(<<>>) = {}
  BY DEF Marks
<1> QED
  BY <1>1, FS_EmptySet DEF Count

\* The lexemes lg are the lexemes la, with the values in the places of the
\* placeholders.
Aligned(la, lg, args) ==
  /\ Len(lg) = Len(la)
  /\ \A i \in 1..Len(la) : IF la[i] = Mark THEN Means(lg[i], args[NthMark(la, i)]) ELSE lg[i] = la[i]

\* Lexemes are aligned one after the other.
LEMMA AlignedOn ==
  ASSUME NEW L, NEW la \in Seq(L), NEW lg \in Seq(L), NEW args, Aligned(la, lg, args),
         NEW x \in L, NEW y \in L, IF x = Mark THEN Means(y, args[Count(la) + 1]) ELSE y = x
  PROVE  Aligned(Append(la, x), Append(lg, y), args)
<1> DEFINE n == Len(la)
<1> DEFINE ma == Append(la, x)
<1> DEFINE mg == Append(lg, y)
<1>1. /\ n \in Nat /\ Len(ma) = n + 1 /\ ma[n + 1] = x /\ \A i \in 1..n : ma[i] = la[i]
  BY Appended
<1>2. Len(lg) = n /\ \A i \in 1..n : IF la[i] = Mark THEN Means(lg[i], args[NthMark(la, i)]) ELSE lg[i] = la[i]
  BY DEF Aligned
<1>3. Len(mg) = n + 1 /\ mg[n + 1] = y /\ \A i \in 1..n : mg[i] = lg[i]
  BY <1>2, Appended
<1>4. /\ \A i \in 1..n : NthMark(ma, i) = NthMark(la, i)
      /\ x = Mark => NthMark(ma, n + 1) = Count(la) + 1
  BY MarksOn
<1> HIDE DEF n, ma, mg
<1>5. ASSUME NEW i \in 1..n + 1 PROVE IF ma[i] = Mark THEN Means(mg[i], args[NthMark(ma, i)]) ELSE mg[i] = ma[i]
  <2>1. CASE i \in 1..n
    BY <1>1, <1>2, <1>3, <1>4, <2>1
  <2>2. CASE i = n + 1
    BY <1>1, <1>3, <1>4, <2>2
  <2> QED
    BY <1>1, <2>1, <2>2
<1>6. Aligned(ma, mg, args)
  BY <1>1, <1>3, <1>5 DEF Aligned
<1> QED
  BY <1>6 DEF ma, mg

\* Nothing is aligned with nothing.
LEMMA NothingAligned == ASSUME NEW args PROVE Aligned(<<>>, <<>>, args)
BY DEF Aligned

-----------------------------------------------------------------------------
(* The text of a value is one lexeme.                                      *)

\* A quote is doubled.
Doubled(C) == [c \in C |-> IF c = Quote THEN <<Quote, Quote>> ELSE <<c>>]

\* A walk of two steps.
LEMMA TwoSteps ==
  ASSUME NEW S, NEW C, NEW step, Machine(step, S, C), NEW a \in S, NEW c \in C, NEW d \in C
  PROVE  Walk(step, a, <<c, d>>) = step[<<step[<<a, c>>], d>>]
<1> DEFINE e == <<c>>
<1>1. e \in Seq(C) /\ <<c, d>> = Append(e, d)
  OBVIOUS
<1>2. Walk(step, a, e) = step[<<a, c>>]
  BY OneStep
<1> HIDE DEF e
<1>3. Walk(step, a, Append(e, d)) = step[<<Walk(step, a, e), d>>]
  BY <1>1, WalkOn
<1> QED
  BY <1>1, <1>2, <1>3

\* Whatever is in a literal, the lexer reads it back.
LEMMA DoubledIsRead ==
  ASSUME NEW C, Quote \in C, NEW done \in Seq(LexemesOf(C)), NEW start \in Seq(C)
  PROVE  \A t \in Seq(C) :
           /\ FlattenSeq(Mapped(Doubled(C), t)) \in Seq(C)
           /\ Walk(LexStep(C), Lexer(AtOpen, done, start), FlattenSeq(Mapped(Doubled(C), t)))
                = Lexer(AtOpen, done, start \o t)
<1> DEFINE h == Doubled(C)
<1> DEFINE B == Seq(C)
<1> DEFINE S == Lexers(C)
<1> DEFINE step == LexStep(C)
<1> DEFINE a == Lexer(AtOpen, done, start)
<1> DEFINE flat(t) == FlattenSeq(Mapped(h, t))
<1>1. ASSUME NEW c \in C
      PROVE  /\ h[c] \in B /\ h[c] = IF c = Quote THEN <<Quote, Quote>> ELSE <<c>>
             /\ \A body \in B : Walk(step, Lexer(AtOpen, done, body), h[c]) = Lexer(AtOpen, done, Append(body, c))
  <2>1. h[c] = IF c = Quote THEN <<Quote, Quote>> ELSE <<c>>
    BY DEF Doubled
  <2>2. <<Quote, Quote>> \in B /\ <<c>> \in B
    OBVIOUS
  <2>3. ASSUME NEW body \in B PROVE Walk(step, Lexer(AtOpen, done, body), h[c]) = Lexer(AtOpen, done, Append(body, c))
    <3> DEFINE st == Lexer(AtOpen, done, body)
    <3>1. st \in S /\ st.at = AtOpen /\ st.done = done /\ st.body = body
      BY LexerIs, LexerHas
    <3> HIDE DEF st
    <3>2. Machine(step, S, C) /\ \A x \in C : step[<<st, x>>] = Lexed(st, x)
      BY <3>1, LexMachine
    <3>3. CASE c = Quote
      <4> DEFINE u == Lexer(AtClosed, done, body)
      <4>1. Lexed(st, Quote) = u
        BY <3>1, CharactersDiffer DEF Lexed
      <4>2. u \in S /\ u.at = AtClosed /\ u.done = done /\ u.body = body
        BY LexerIs, LexerHas
      <4> HIDE DEF u
      <4>3. Lexed(u, Quote) = Lexer(AtOpen, done, Append(body, Quote))
        BY <4>2, CharactersDiffer DEF Lexed
      <4>4. step[<<u, Quote>>] = Lexed(u, Quote)
        BY <4>2, LexMachine
      <4> HIDE DEF step, S, h
      <4>5. Walk(step, st, <<Quote, Quote>>) = step[<<step[<<st, Quote>>], Quote>>]
        BY <3>1, <3>2, TwoSteps
      <4>6. step[<<st, Quote>>] = u
        BY <3>2, <4>1
      <4>7. Walk(step, st, <<Quote, Quote>>) = Lexer(AtOpen, done, Append(body, Quote))
        BY <4>3, <4>4, <4>5, <4>6
      <4> QED
        BY <2>1, <3>3, <4>7 DEF st
    <3>4. CASE c # Quote
      <4>1. Lexed(st, c) = Lexer(AtOpen, done, Append(body, c))
        BY <3>1, <3>4 DEF Lexed
      <4> HIDE DEF step, S, h
      <4>2. Walk(step, st, <<c>>) = step[<<st, c>>]
        BY <3>1, <3>2, OneStep
      <4>3. Walk(step, st, <<c>>) = Lexer(AtOpen, done, Append(body, c))
        BY <3>2, <4>1, <4>2
      <4> QED
        BY <2>1, <3>4, <4>3 DEF st
    <3> QED
      BY <3>3, <3>4
  <2> QED
    BY <2>1, <2>2, <2>3
<1>2. MapsOn(h, C, B)
  <2>1. h \in [C -> B]
    BY <1>1 DEF Doubled
  <2> HIDE DEF h, B
  <2> QED
    BY <2>1, MapOn
<1>3. Machine(step, S, C) /\ a \in S
  BY LexMachine, LexerIs
<1>4. Walk(step, a, <<>>) = a
  <2> HIDE DEF step, S, a
  <2> QED
    BY <1>3, WalkOn
<1>5. FlattenSeq(<<>>) = <<>> /\ \A q \in Seq(B) : FlattenSeq(q) \in B
  BY FlattenOn
<1>6. \A q \in Seq(B), t \in B : FlattenSeq(Append(q, t)) = FlattenSeq(q) \o t
  BY FlattenOn
<1> DEFINE G == {t \in B : flat(t) \in B /\ Walk(step, a, flat(t)) = Lexer(AtOpen, done, start \o t)}
<1>7. <<>> \in G
  <2>1. flat(<<>>) = <<>> /\ <<>> \in B
    BY <1>2, <1>5, Nothing DEF MapsOn
  <2>2. start \o <<>> = start
    BY Behind
  <2> QED
    BY <1>4, <2>1, <2>2
<1>8. ASSUME NEW t \in B, NEW c \in C, t \in G PROVE Append(t, c) \in G
  <2>1. Append(t, c) \in B
    BY Appended
  <2>2. Mapped(h, t) \in Seq(B) /\ Mapped(h, Append(t, c)) = Append(Mapped(h, t), h[c])
    BY <1>2 DEF MapsOn
  <2>3. h[c] \in B
    BY <1>1
  <2>4. flat(Append(t, c)) = flat(t) \o h[c]
    <3> HIDE DEF h, B
    <3> QED
      BY <1>6, <2>2, <2>3
  <2>5. flat(t) \in B /\ Walk(step, a, flat(t)) = Lexer(AtOpen, done, start \o t)
    BY <1>8
  <2> DEFINE f == flat(t)
  <2> DEFINE g == h[c]
  <2>6. f \in Seq(C) /\ g \in Seq(C)
    BY <2>3, <2>5
  <2>7. Walk(step, Lexer(AtOpen, done, start \o t), g) = Lexer(AtOpen, done, start \o Append(t, c))
    <3> DEFINE body == start \o t
    <3>1. body \in B /\ start \o Append(t, c) = Append(body, c)
      BY Behind
    <3> HIDE DEF body
    <3>2. Walk(step, Lexer(AtOpen, done, body), h[c]) = Lexer(AtOpen, done, Append(body, c))
      BY <1>1, <3>1
    <3> QED
      BY <3>1, <3>2 DEF body
  <2> HIDE DEF f, g, step, a, S, h
  <2>8. f \o g \in Seq(C)
    BY <2>6, Behind
  <2>9. Walk(step, a, f \o g) = Walk(step, Walk(step, a, f), g)
    BY <1>3, <2>6, WalkThrough
  <2>10. Walk(step, a, f) = Lexer(AtOpen, done, start \o t)
    BY <2>5 DEF f
  <2>11. Walk(step, a, f \o g) = Lexer(AtOpen, done, start \o Append(t, c))
    BY <2>7, <2>9, <2>10
  <2> QED
    BY <2>1, <2>4, <2>8, <2>11 DEF f, g
<1> HIDE DEF G, step, a, h
<1>9. \A t \in Seq(C) : t \in G
  BY <1>7, <1>8, AllSequences
<1> QED
  BY <1>9 DEF G, step, a, h

\* A literal that has ended goes on after one more quote.
Reopened(st) == IF st.at = AtText THEN <<>> ELSE Append(st.body, Quote)

\* A quoted string is one literal, whatever is in it (quoteSQL), or the rest of
\* one.
LEMMA QuotedIsRead ==
  ASSUME NEW C, Quote \in C, NEW st \in Lexers(C), st.at # AtOpen, NEW t \in Seq(C)
  PROVE  QuoteSQL(t) \in Seq(C) /\ Walk(LexStep(C), st, QuoteSQL(t)) = Lexer(AtClosed, st.done, Reopened(st) \o t)
<1> DEFINE step == LexStep(C)
<1> DEFINE S == Lexers(C)
<1> DEFINE f == FlattenSeq(Mapped(Doubled(C), t))
<1> DEFINE q == <<Quote>>
<1> DEFINE start == Reopened(st)
<1> DEFINE o == Lexer(AtOpen, st.done, start)
<1> DEFINE p == Lexer(AtOpen, st.done, start \o t)
<1>1. QuoteSQL(t) = q \o f \o q
  <2>1. [i \in DOMAIN t |-> IF t[i] = Quote THEN <<Quote, Quote>> ELSE <<t[i]>>] = Mapped(Doubled(C), t)
    <3>1. \A i \in DOMAIN t : t[i] \in C
      OBVIOUS
    <3> QED
      BY <3>1 DEF Mapped, Doubled
  <2> QED
    BY <2>1 DEF QuoteSQL
<1>2. st.done \in Seq(LexemesOf(C)) /\ start \in Seq(C) /\ start \o t \in Seq(C)
  <2>1. st.done \in Seq(LexemesOf(C)) /\ st.body \in Seq(C) /\ <<>> \in Seq(C)
    BY LexerIs, Nothing
  <2>2. start \in Seq(C)
    BY <2>1, Appended DEF Reopened
  <2> HIDE DEF start
  <2> QED
    BY <2>1, <2>2, Behind
<1>3. f \in Seq(C) /\ Walk(step, o, f) = p
  BY <1>2, DoubledIsRead
<1>4. q \in Seq(C)
  OBVIOUS
<1>5. Machine(step, S, C) /\ o \in S /\ p \in S /\ st \in S
  BY <1>2, LexMachine, LexerIs
<1>6. step[<<st, Quote>>] = o
  <2>1. step[<<st, Quote>>] = Lexed(st, Quote)
    BY LexMachine
  <2>2. Lexed(st, Quote) = o
    BY DEF Lexed, Reopened
  <2> QED
    BY <2>1, <2>2
<1> HIDE DEF start
<1>7. step[<<p, Quote>>] = Lexer(AtClosed, st.done, start \o t)
  <2> DEFINE body == start \o t
  <2>3. p = Lexer(AtOpen, st.done, body)
    OBVIOUS
  <2> HIDE DEF body, p
  <2>1. p.at = AtOpen /\ p.done = st.done /\ p.body = body
    BY <2>3, LexerHas
  <2>2. Lexed(p, Quote) = Lexer(AtClosed, st.done, body)
    BY <2>1, CharactersDiffer DEF Lexed
  <2> QED
    BY <1>5, <2>2, LexMachine DEF body
<1> HIDE DEF step, S, f, o, p
<1>8. Walk(step, st, q) = o /\ Walk(step, p, q) = Lexer(AtClosed, st.done, start \o t)
  BY <1>5, <1>6, <1>7, OneStep
<1> HIDE DEF q
<1>9. q \o f \in Seq(C) /\ (q \o f) \o q \in Seq(C)
  BY <1>3, <1>4, Behind
<1>10. Walk(step, st, q \o f) = p
  BY <1>3, <1>4, <1>5, <1>8, WalkThrough
<1>11. Walk(step, st, (q \o f) \o q) = Lexer(AtClosed, st.done, start \o t)
  <2> DEFINE r == q \o f
  <2>1. r \in Seq(C) /\ Walk(step, st, r) = p
    BY <1>9, <1>10
  <2> HIDE DEF r
  <2>2. Walk(step, st, r \o q) = Walk(step, Walk(step, st, r), q)
    BY <1>4, <1>5, <2>1, WalkThrough
  <2>3. Walk(step, st, r \o q) = Lexer(AtClosed, st.done, start \o t)
    BY <1>8, <2>1, <2>2
  <2> QED
    BY <2>3 DEF r
<1> QED
  BY <1>1, <1>9, <1>11 DEF step, start

\* After a text that is no literal it is one.
LEMMA QuotedIsOneLiteral ==
  ASSUME NEW C, Quote \in C, NEW st \in Lexers(C), st.at = AtText, NEW t \in Seq(C)
  PROVE  QuoteSQL(t) \in Seq(C) /\ Walk(LexStep(C), st, QuoteSQL(t)) = Lexer(AtClosed, st.done, t)
<1>1. st.at # AtOpen /\ Reopened(st) = <<>> /\ <<>> \o t = t
  BY CharactersDiffer, Behind DEF Reopened
<1>2. QuoteSQL(t) \in Seq(C) /\ Walk(LexStep(C), st, QuoteSQL(t)) = Lexer(AtClosed, st.done, Reopened(st) \o t)
  BY <1>1, QuotedIsRead
<1> QED
  BY <1>1, <1>2

\* The text of a number.
NumberText(v) == DecimalText(v).is

\* A value that is made of C: its number, if it has one, is a character whose
\* value is exact, and is written if there is such a one.
Bindable(C, v) ==
  /\ v.type \in {"string", "word", "decimal", "rat", "real", "struct"}
  /\ v.type = "string" => v.text \in Seq(C)
  /\ v.type = "word" => v.word \in C \ {Quote, Control}
  /\ v.type \in {"decimal", "rat"} =>
       /\ DecimalText(v).ok <=> HasForm(v)
       /\ DecimalText(v).ok => NumberText(v) \in C \ {Quote, Control} /\ Means(Literal(<<NumberText(v)>>), v)

\* What SQLLiteral renders it to.
Spells(C, v, w) ==
  \/ \E t \in Seq(C) : w = QuoteSQL(t) /\ Means(Literal(t), v)
  \/ \E c \in C \ {Quote, Control} : w = <<c>> /\ Means(c, v)

\* A value is rendered if it has a form, and then to something that means it
\* (SQLLiteral).
LEMMA LiteralSpells ==
  ASSUME NEW C, NEW v, Bindable(C, v)
  PROVE  /\ SQLLiteral(v).ok \in BOOLEAN
         /\ SQLLiteral(v).ok <=> HasForm(v)
         /\ SQLLiteral(v).ok => Spells(C, v, SQLLiteral(v).is) /\ SQLParam(v).ok
<1>1. v.type \in {"string", "word", "decimal", "rat", "real", "struct"}
  BY DEF Bindable
<1>2. CASE v.type = "string"
  <2>1. SQLLiteral(v) = Ok(QuoteSQL(v.text)) /\ SQLParam(v) = Ok(v) /\ HasForm(v)
    BY <1>2 DEF SQLLiteral, SQLParam, HasForm
  <2>2. v.text \in Seq(C)
    BY <1>2 DEF Bindable
  <2>3. Means(Literal(v.text), v)
    BY <1>2 DEF Means, Literal
  <2>4. SQLLiteral(v).ok = TRUE /\ SQLLiteral(v).is = QuoteSQL(v.text) /\ SQLParam(v).ok = TRUE
    BY <2>1 DEF Ok
  <2> QED
    BY <2>1, <2>2, <2>3, <2>4 DEF Spells
<1>3. CASE v.type = "word"
  <2>1. SQLLiteral(v) = Ok(<<v.word>>) /\ SQLParam(v) = Ok(v) /\ HasForm(v)
    BY <1>3 DEF SQLLiteral, SQLParam, HasForm
  <2>2. v.word \in C \ {Quote, Control}
    BY <1>3 DEF Bindable
  <2>3. Means(v.word, v)
    BY <1>3 DEF Means
  <2>4. SQLLiteral(v).ok = TRUE /\ SQLLiteral(v).is = <<v.word>> /\ SQLParam(v).ok = TRUE
    BY <2>1 DEF Ok
  <2> QED
    BY <2>1, <2>2, <2>3, <2>4 DEF Spells
<1>4. CASE v.type \in {"decimal", "rat"}
  <2> DEFINE d == DecimalText(v)
  <2> DEFINE x == NumberText(v)
  <2>1. SQLLiteral(v) = (IF d.ok THEN Ok(QuoteSQL(<<d.is>>)) ELSE Refused)
    BY <1>4 DEF SQLLiteral
  <2>2. SQLParam(v) = (IF d.ok THEN Ok(v) ELSE Refused)
    BY <1>4 DEF SQLParam
  <2>3. (d.ok <=> HasForm(v)) /\ (d.ok => x \in C \ {Quote, Control} /\ Means(Literal(<<x>>), v))
    BY <1>4 DEF Bindable
  <2>4. x = d.is
    BY DEF NumberText
  <2> HIDE DEF d, x
  <2>5. CASE d.ok
    <3>1. SQLLiteral(v) = Ok(QuoteSQL(<<x>>)) /\ SQLParam(v) = Ok(v)
      BY <2>1, <2>2, <2>4, <2>5
    <3>2. SQLLiteral(v).ok = TRUE /\ SQLLiteral(v).is = QuoteSQL(<<x>>) /\ SQLParam(v).ok = TRUE
      BY <3>1 DEF Ok
    <3>3. <<x>> \in Seq(C)
      BY <2>3, <2>5
    <3> QED
      BY <2>3, <2>5, <3>2, <3>3 DEF Spells
  <2>6. CASE ~d.ok
    <3>1. SQLLiteral(v).ok = FALSE
      BY <2>1, <2>6 DEF Refused
    <3> QED
      BY <2>3, <2>6, <3>1
  <2> QED
    BY <2>5, <2>6
<1>5. CASE v.type \in {"real", "struct"}
  <2>1. SQLLiteral(v) = Refused
    BY <1>5 DEF SQLLiteral
  <2>2. ~HasForm(v)
    BY <1>5 DEF HasForm
  <2>3. SQLLiteral(v).ok = FALSE
    BY <2>1 DEF Refused
  <2> QED
    BY <2>2, <2>3
<1> QED
  BY <1>1, <1>2, <1>3, <1>4, <1>5

\* What the lexer makes of such a text: one lexeme more.
OneMore(C, st, next, v) ==
  /\ next \in Lexers(C) /\ next.at \in {AtText, AtClosed}
  /\ \E x \in LexemesOf(C) : Read(next) = Append(st.done, x) /\ Means(x, v) /\ x # Control

\* It makes that of it.
LEMMA ValueIsOneLexeme ==
  ASSUME NEW C, Quote \in C, NEW st \in Lexers(C), st.at = AtText, NEW v, NEW w, Spells(C, v, w)
  PROVE  w \in Seq(C) /\ OneMore(C, st, Walk(LexStep(C), st, w), v)
<1> DEFINE step == LexStep(C)
<1>1. st.done \in Seq(LexemesOf(C)) /\ st.body \in Seq(C)
  BY LexerIs
<1>2. ASSUME NEW t \in Seq(C), w = QuoteSQL(t), Means(Literal(t), v)
      PROVE  w \in Seq(C) /\ OneMore(C, st, Walk(step, st, w), v)
  <2> DEFINE next == Lexer(AtClosed, st.done, t)
  <2>1. w \in Seq(C) /\ Walk(step, st, w) = next
    BY <1>2, QuotedIsOneLiteral
  <2>2. next \in Lexers(C) /\ next.at = AtClosed /\ next.done = st.done /\ next.body = t
    BY <1>1, LexerIs, LexerHas
  <2> HIDE DEF next, step
  <2>3. Read(next) = Append(st.done, Literal(t))
    BY <2>2, ReadIs, CharactersDiffer
  <2>4. Literal(t) \in LexemesOf(C) /\ Literal(t) # Control
    BY LiteralsDiffer DEF LexemesOf
  <2> QED
    BY <1>2, <2>1, <2>2, <2>3, <2>4 DEF OneMore
<1>3. ASSUME NEW c \in C \ {Quote, Control}, w = <<c>>, Means(c, v)
      PROVE  w \in Seq(C) /\ OneMore(C, st, Walk(step, st, w), v)
  <2>1. w \in Seq(C)
    BY <1>3
  <2>2. Walk(step, st, <<c>>) = Lexed(st, c)
    <3>1. Machine(step, Lexers(C), C) /\ step[<<st, c>>] = Lexed(st, c)
      BY LexMachine
    <3> HIDE DEF step
    <3> QED
      BY <3>1, OneStep
  <2> DEFINE next == Lexer(AtText, Append(Read(st), c), st.body)
  <2>3. Lexed(st, c) = next
    BY <1>3, CharactersDiffer DEF Lexed
  <2>4. Read(st) = st.done /\ c \in LexemesOf(C)
    BY ReadIs DEF LexemesOf
  <2> DEFINE more == Append(st.done, c)
  <2>5. more \in Seq(LexemesOf(C))
    BY <1>1, <2>4, Appended
  <2>6. next = Lexer(AtText, more, st.body)
    BY <2>4
  <2> HIDE DEF more, next
  <2>7. next \in Lexers(C) /\ next.at = AtText /\ next.done = more
    BY <1>1, <2>5, <2>6, LexerIs, LexerHas
  <2>8. Read(next) = more
    BY <2>7, ReadIs
  <2> QED
    BY <1>3, <2>1, <2>2, <2>3, <2>4, <2>7, <2>8 DEF OneMore, more
<1> QED
  BY <1>2, <1>3 DEF Spells

-----------------------------------------------------------------------------
(* BindParams as a machine that does not look ahead.                       *)

\* Where it is: outside of a literal, inside of one, or refusing.
Outside == "outside"
Inside == "inside"
Stuck == "stuck"

Binders(C) == [out : Seq(C), next : Nat, phase : {Outside, Inside, Stuck}]

Binder(out, next, phase) == [out |-> out, next |-> next, phase |-> phase]

\* The phases are three.
LEMMA PhasesDiffer == Outside # Inside /\ Outside # Stuck /\ Inside # Stuck
BY DEF Outside, Inside, Stuck

\* What a binder is made of.
LEMMA BinderIs ==
  ASSUME NEW C
  PROVE  /\ \A out \in Seq(C), next \in Nat, phase \in {Outside, Inside, Stuck} : Binder(out, next, phase) \in Binders(C)
         /\ \A st \in Binders(C) :
              /\ st = Binder(st.out, st.next, st.phase)
              /\ st.out \in Seq(C) /\ st.next \in Nat /\ st.phase \in {Outside, Inside, Stuck}
BY DEF Binders, Binder

\* The parts of a binder.
LEMMA BinderHas ==
  ASSUME NEW out, NEW next, NEW phase
  PROVE  Binder(out, next, phase).out = out /\ Binder(out, next, phase).next = next /\ Binder(out, next, phase).phase = phase
BY DEF Binder

\* There is an argument behind the first k, and it has a literal.
CanBind(args, k) == k < Len(args) /\ SQLLiteral(args[k + 1]).ok

\* What the binder does with a character.
Bound(args, st, c) ==
  IF st.phase = Stuck THEN st
  ELSE IF c = Quote THEN Binder(Append(st.out, Quote), st.next, IF st.phase = Inside THEN Outside ELSE Inside)
  ELSE IF st.phase = Inside \/ c # Mark THEN Binder(Append(st.out, c), st.next, st.phase)
  ELSE IF CanBind(args, st.next) THEN Binder(st.out \o SQLLiteral(args[st.next + 1]).is, st.next + 1, Outside)
  ELSE Binder(st.out, st.next, Stuck)

\* What SQLLiteral renders is a text.
LEMMA SpelledTypes ==
  ASSUME NEW C, Quote \in C, NEW v, Bindable(C, v), SQLLiteral(v).ok
  PROVE  SQLLiteral(v).is \in Seq(C) /\ Spells(C, v, SQLLiteral(v).is)
<1>1. Spells(C, v, SQLLiteral(v).is)
  BY LiteralSpells
<1>2. FirstLexer \in Lexers(C) /\ FirstLexer.at = AtText
  BY LexMachine, LexerHas DEF FirstLexer
<1> QED
  BY <1>1, <1>2, ValueIsOneLexeme

\* A binder remains one.
LEMMA BoundTypes ==
  ASSUME NEW C, Quote \in C, NEW V, \A v \in V : Bindable(C, v), NEW args \in Seq(V),
         NEW st \in Binders(C), NEW c \in C
  PROVE  Bound(args, st, c) \in Binders(C)
<1>1. st.out \in Seq(C) /\ st.next \in Nat /\ st.phase \in {Outside, Inside, Stuck}
  BY BinderIs
<1>2. Append(st.out, c) \in Seq(C) /\ Append(st.out, Quote) \in Seq(C) /\ st.next + 1 \in Nat
  BY <1>1, Appended
<1>3. ASSUME CanBind(args, st.next) PROVE st.out \o SQLLiteral(args[st.next + 1]).is \in Seq(C)
  <2>1. st.next + 1 \in 1..Len(args) /\ SQLLiteral(args[st.next + 1]).ok
    BY <1>1, <1>3 DEF CanBind
  <2>2. args[st.next + 1] \in V
    BY <2>1
  <2> DEFINE w == SQLLiteral(args[st.next + 1]).is
  <2>3. w \in Seq(C)
    BY <2>1, <2>2, SpelledTypes
  <2> HIDE DEF w
  <2>4. st.out \o w \in Seq(C)
    BY <1>1, <2>3, Behind
  <2> QED
    BY <2>4 DEF w
<1> QED
  BY <1>1, <1>2, <1>3, BinderIs DEF Bound

BindStep(C, args) == [p \in Binders(C) \X C |-> Bound(args, p[1], p[2])]

\* Nothing has been bound.
FirstBinder == Binder(<<>>, 0, Outside)

\* The binder is a machine.
LEMMA BindMachine ==
  ASSUME NEW C, Quote \in C, NEW V, \A v \in V : Bindable(C, v), NEW args \in Seq(V)
  PROVE  /\ Machine(BindStep(C, args), Binders(C), C) /\ FirstBinder \in Binders(C)
         /\ \A st \in Binders(C), c \in C : BindStep(C, args)[<<st, c>>] = Bound(args, st, c)
<1>1. \A st \in Binders(C), c \in C : Bound(args, st, c) \in Binders(C)
  BY BoundTypes
<1>2. FirstBinder \in Binders(C)
  <2>1. <<>> \in Seq(C)
    BY Nothing
  <2> QED
    BY <2>1, BinderIs DEF FirstBinder
<1> QED
  BY <1>1, <1>2 DEF Machine, BindStep

\* What the binder makes of a text.
BindOf(C, args, s) == Walk(BindStep(C, args), FirstBinder, s)

-----------------------------------------------------------------------------
(* The loop of the code looks ahead.                                       *)

\* The two answers.
Yes == TRUE
No == FALSE

\* The other answer.
Flip(x) == ~x

\* One is true, the other is not.
LEMMA YesOrNo == Yes # No /\ Flip(Yes) = No /\ Flip(No) = Yes
BY DEF Yes, No, Flip

\* The state of the loop.
Scan(out, next, inString, skip, ok) ==
  [out |-> out, next |-> next, inString |-> inString, skip |-> skip, ok |-> ok]

\* What it does with a character that it does not skip.
Scans(out, next, inString, sql, i, args) ==
  IF sql[i] = Quote /\ inString = Yes /\ i < Len(sql) /\ sql[i + 1] = Quote
    THEN Scan(out \o <<Quote, Quote>>, next, inString, Yes, Yes)
  ELSE IF sql[i] = Quote THEN Scan(out \o <<Quote>>, next, Flip(inString), No, Yes)
  ELSE IF sql[i] # Mark \/ inString = Yes THEN Scan(out \o <<sql[i]>>, next, inString, No, Yes)
  ELSE IF CanBind(args, next) THEN Scan(out \o SQLLiteral(args[next + 1]).is, next + 1, inString, No, Yes)
  ELSE Scan(out, next, inString, No, No)

\* One field of it changes.
WithOut(st, x) == [st EXCEPT !.out = x]
WithNext(st, x) == [st EXCEPT !.next = x]
WithString(st, x) == [st EXCEPT !.inString = x]
WithSkip(st, x) == [st EXCEPT !.skip = x]
WithOk(st, x) == [st EXCEPT !.ok = x]

\* The others do not.
LEMMA ScanWith ==
  ASSUME NEW out, NEW next, NEW inString, NEW skip, NEW ok, NEW x
  PROVE  /\ WithOut(Scan(out, next, inString, skip, ok), x) = Scan(x, next, inString, skip, ok)
         /\ WithNext(Scan(out, next, inString, skip, ok), x) = Scan(out, x, inString, skip, ok)
         /\ WithString(Scan(out, next, inString, skip, ok), x) = Scan(out, next, x, skip, ok)
         /\ WithSkip(Scan(out, next, inString, skip, ok), x) = Scan(out, next, inString, x, ok)
         /\ WithOk(Scan(out, next, inString, skip, ok), x) = Scan(out, next, inString, skip, x)
BY DEF Scan, WithOut, WithNext, WithString, WithSkip, WithOk

\* Its fields.
LEMMA ScanHas ==
  ASSUME NEW out, NEW next, NEW inString, NEW skip, NEW ok
  PROVE  /\ Scan(out, next, inString, skip, ok).out = out
         /\ Scan(out, next, inString, skip, ok).next = next
         /\ Scan(out, next, inString, skip, ok).inString = inString
         /\ Scan(out, next, inString, skip, ok).skip = skip
         /\ Scan(out, next, inString, skip, ok).ok = ok
BY DEF Scan

\* One character, field by field.
Binding(st, sql, i, args) ==
  IF st.ok = No \/ st.skip = Yes
    THEN WithSkip(st, No)
  ELSE IF sql[i] = Quote /\ st.inString = Yes /\ i < Len(sql) /\ sql[i + 1] = Quote
    THEN WithSkip(WithOut(st, st.out \o <<Quote, Quote>>), Yes)
  ELSE IF sql[i] = Quote
    THEN WithString(WithOut(st, st.out \o <<Quote>>), Flip(WithOut(st, st.out \o <<Quote>>).inString))
  ELSE IF sql[i] # Mark \/ st.inString = Yes
    THEN WithOut(st, st.out \o <<sql[i]>>)
  ELSE IF CanBind(args, st.next)
    THEN WithNext(WithOut(st, st.out \o SQLLiteral(args[st.next + 1]).is),
                  WithOut(st, st.out \o SQLLiteral(args[st.next + 1]).is).next + 1)
    ELSE WithOk(st, No)

\* The loop does this.
LEMMA BindIs ==
  ASSUME NEW st, st.ok \in {Yes, No}, st.skip \in {Yes, No}, st.inString \in {Yes, No}, NEW sql, NEW i, NEW args
  PROVE  Bind(st, sql, i, args) = Binding(st, sql, i, args)
BY DEF Bind, Binding, WithOut, WithNext, WithString, WithSkip, WithOk, Yes, No, Flip, CanBind

\* And so it does this.
LEMMA BindScans ==
  ASSUME NEW out, NEW next, NEW inString \in {Yes, No}, NEW sql, NEW i, NEW args
  PROVE  /\ \A skip \in {Yes, No} :
              Bind(Scan(out, next, inString, skip, No), sql, i, args) = Scan(out, next, inString, No, No)
         /\ Bind(Scan(out, next, inString, Yes, Yes), sql, i, args) = Scan(out, next, inString, No, Yes)
         /\ Bind(Scan(out, next, inString, No, Yes), sql, i, args) = Scans(out, next, inString, sql, i, args)
<1>1. ASSUME NEW skip \in {Yes, No}
      PROVE  Bind(Scan(out, next, inString, skip, No), sql, i, args) = Scan(out, next, inString, No, No)
  <2> DEFINE st == Scan(out, next, inString, skip, No)
  <2>1. st.inString = inString /\ st.skip = skip /\ st.ok = No
    BY ScanHas
  <2>2. WithSkip(st, No) = Scan(out, next, inString, No, No)
    BY ScanWith
  <2> HIDE DEF st
  <2>3. Bind(st, sql, i, args) = WithSkip(st, No)
    <3>1. Bind(st, sql, i, args) = Binding(st, sql, i, args)
      BY <2>1, BindIs
    <3>2. Binding(st, sql, i, args) = WithSkip(st, No)
      BY <2>1, YesOrNo DEF Binding
    <3> QED
      BY <3>1, <3>2
  <2> QED
    BY <2>2, <2>3 DEF st
<1>2. Bind(Scan(out, next, inString, Yes, Yes), sql, i, args) = Scan(out, next, inString, No, Yes)
  <2> DEFINE st == Scan(out, next, inString, Yes, Yes)
  <2>1. st.inString = inString /\ st.skip = Yes /\ st.ok = Yes
    BY ScanHas
  <2>2. WithSkip(st, No) = Scan(out, next, inString, No, Yes)
    BY ScanWith
  <2> HIDE DEF st
  <2>3. Bind(st, sql, i, args) = WithSkip(st, No)
    <3>1. Bind(st, sql, i, args) = Binding(st, sql, i, args)
      BY <2>1, BindIs
    <3>2. Binding(st, sql, i, args) = WithSkip(st, No)
      BY <2>1, YesOrNo DEF Binding
    <3> QED
      BY <3>1, <3>2
  <2> QED
    BY <2>2, <2>3 DEF st
<1>3. Bind(Scan(out, next, inString, No, Yes), sql, i, args) = Scans(out, next, inString, sql, i, args)
  <2> DEFINE st == Scan(out, next, inString, No, Yes)
  <2>1. st.out = out /\ st.next = next /\ st.inString = inString /\ st.skip = No /\ st.ok = Yes
    BY ScanHas
  <2>2. \A text : WithOut(st, out \o text) = Scan(out \o text, next, inString, No, Yes)
    BY ScanWith
  <2>3. \A text : WithOut(st, out \o text).inString = inString /\ WithOut(st, out \o text).next = next
    BY <2>2, ScanHas
  <2>4. \A text : WithSkip(WithOut(st, out \o text), Yes) = Scan(out \o text, next, inString, Yes, Yes)
    BY <2>2, ScanWith
  <2>5. \A text : WithString(WithOut(st, out \o text), Flip(inString)) = Scan(out \o text, next, Flip(inString), No, Yes)
    BY <2>2, ScanWith
  <2>6. \A text : WithNext(WithOut(st, out \o text), next + 1) = Scan(out \o text, next + 1, inString, No, Yes)
    BY <2>2, ScanWith
  <2>7. WithOk(st, No) = Scan(out, next, inString, No, No)
    BY ScanWith
  <2> HIDE DEF st
  <2>8. Bind(st, sql, i, args) = Scans(out, next, inString, sql, i, args)
    <3>1. Bind(st, sql, i, args) = Binding(st, sql, i, args)
      BY <2>1, BindIs
    <3>2. Binding(st, sql, i, args) = Scans(out, next, inString, sql, i, args)
      BY <2>1, <2>2, <2>3, <2>4, <2>5, <2>6, <2>7, YesOrNo DEF Binding, Scans
    <3> QED
      BY <3>1, <3>2
  <2> QED
    BY <2>8 DEF st
<1> QED
  BY <1>1, <1>2, <1>3

\* A literal has ended at i, unless the next character goes on with it.
Paired(q, sql, i) == i >= 1 /\ q.phase = Outside /\ sql[i] = Quote /\ i < Len(sql) /\ sql[i + 1] = Quote

\* What the loop is in after i characters, where the binder is in q.
Looks(q, sql, i) ==
  IF Paired(q, sql, i) THEN Scan(Append(q.out, Quote), q.next, Yes, Yes, Yes)
  ELSE Scan(q.out, q.next, IF q.phase = Inside THEN Yes ELSE No, No, IF q.phase = Stuck THEN No ELSE Yes)

\* The loop and the binder go on alike.
LEMMA LooksOn ==
  ASSUME NEW C, Quote \in C, NEW sql \in Seq(C), NEW i \in 1..Len(sql), NEW q \in Binders(C), NEW args
  PROVE  Bind(Looks(q, sql, i - 1), sql, i, args) = Looks(Bound(args, q, sql[i]), sql, i)
<1> DEFINE n == Len(sql)
<1> DEFINE r == Bound(args, q, sql[i])
<1>1. q.out \in Seq(C) /\ q.next \in Nat /\ q.phase \in {Outside, Inside, Stuck} /\ q = Binder(q.out, q.next, q.phase)
  BY BinderIs
<1>2. n \in Nat /\ i \in Nat /\ i >= 1 /\ sql[i] \in C /\ (i - 1) + 1 = i /\ i - 1 < n
  OBVIOUS
<1>3. \A out \in Seq(C), c \in C : out \o <<c>> = Append(out, c) /\ Append(out, c) \in Seq(C)
  BY Behind, Appended
<1>4. \A out \in Seq(C) : out \o <<Quote, Quote>> = Append(Append(out, Quote), Quote)
  OBVIOUS
<1> HIDE DEF n
<1>5. CASE q.phase = Stuck
  <2>1. ~Paired(q, sql, i - 1) /\ ~Paired(q, sql, i)
    BY <1>5, PhasesDiffer DEF Paired
  <2>2. Looks(q, sql, i - 1) = Scan(q.out, q.next, No, No, No) /\ Looks(q, sql, i) = Scan(q.out, q.next, No, No, No)
    BY <1>5, <2>1, PhasesDiffer DEF Looks
  <2>3. r = q
    BY <1>5 DEF Bound
  <2>4. Bind(Scan(q.out, q.next, No, No, No), sql, i, args) = Scan(q.out, q.next, No, No, No)
    BY BindScans
  <2> QED
    BY <2>2, <2>3, <2>4
<1>6. CASE Paired(q, sql, i - 1)
  <2>1. q.phase = Outside /\ sql[i] = Quote
    BY <1>2, <1>6 DEF Paired
  <2>2. r = Binder(Append(q.out, Quote), q.next, Inside)
    BY <2>1, PhasesDiffer DEF Bound
  <2>3. r.phase = Inside /\ r.out = Append(q.out, Quote) /\ r.next = q.next
    BY <2>2 DEF Binder
  <2>4. ~Paired(r, sql, i)
    BY <2>3, PhasesDiffer DEF Paired
  <2>5. Looks(r, sql, i) = Scan(Append(q.out, Quote), q.next, Yes, No, Yes)
    BY <2>3, <2>4, PhasesDiffer DEF Looks
  <2>6. Looks(q, sql, i - 1) = Scan(Append(q.out, Quote), q.next, Yes, Yes, Yes)
    BY <1>6 DEF Looks
  <2>7. Bind(Scan(Append(q.out, Quote), q.next, Yes, Yes, Yes), sql, i, args) = Scan(Append(q.out, Quote), q.next, Yes, No, Yes)
    BY BindScans
  <2> QED
    BY <2>5, <2>6, <2>7
<1>7. CASE q.phase # Stuck /\ ~Paired(q, sql, i - 1)
  <2> DEFINE s == IF q.phase = Inside THEN Yes ELSE No
  <2>1. Looks(q, sql, i - 1) = Scan(q.out, q.next, s, No, Yes)
    BY <1>7 DEF Looks
  <2>2. s \in {Yes, No} /\ (s = Yes <=> q.phase = Inside)
    BY YesOrNo
  <2> HIDE DEF s
  <2>3. Bind(Looks(q, sql, i - 1), sql, i, args) = Scans(q.out, q.next, s, sql, i, args)
    BY <2>1, <2>2, BindScans
  <2>4. CASE sql[i] = Quote /\ q.phase = Inside /\ i < n /\ sql[i + 1] = Quote
    <3>1. r = Binder(Append(q.out, Quote), q.next, Outside)
      BY <2>4, PhasesDiffer DEF Bound
    <3>2. r.phase = Outside /\ r.out = Append(q.out, Quote) /\ r.next = q.next
      BY <3>1 DEF Binder
    <3>3. Paired(r, sql, i)
      BY <1>2, <2>4, <3>2 DEF Paired, n
    <3>4. Looks(r, sql, i) = Scan(Append(Append(q.out, Quote), Quote), q.next, Yes, Yes, Yes)
      BY <3>2, <3>3 DEF Looks
    <3>5. Scans(q.out, q.next, s, sql, i, args) = Scan(q.out \o <<Quote, Quote>>, q.next, Yes, Yes, Yes)
      BY <2>2, <2>4 DEF Scans, n
    <3> QED
      BY <1>1, <1>4, <2>3, <3>4, <3>5
  <2>5. CASE sql[i] = Quote /\ q.phase = Inside /\ ~(i < n /\ sql[i + 1] = Quote)
    <3>1. r = Binder(Append(q.out, Quote), q.next, Outside)
      BY <2>5, PhasesDiffer DEF Bound
    <3>2. r.phase = Outside /\ r.out = Append(q.out, Quote) /\ r.next = q.next
      BY <3>1 DEF Binder
    <3>3. ~Paired(r, sql, i)
      BY <2>5 DEF Paired, n
    <3>4. Looks(r, sql, i) = Scan(Append(q.out, Quote), q.next, No, No, Yes)
      BY <3>2, <3>3, PhasesDiffer DEF Looks
    <3>5. Scans(q.out, q.next, s, sql, i, args) = Scan(q.out \o <<Quote>>, q.next, Flip(s), No, Yes)
      BY <2>5 DEF Scans, n
    <3> QED
      BY <1>1, <1>3, <2>2, <2>3, <2>5, <3>4, <3>5, YesOrNo
  <2>6. CASE sql[i] = Quote /\ q.phase = Outside
    <3>1. r = Binder(Append(q.out, Quote), q.next, Inside)
      BY <2>6, PhasesDiffer DEF Bound
    <3>2. r.phase = Inside /\ r.out = Append(q.out, Quote) /\ r.next = q.next
      BY <3>1 DEF Binder
    <3>3. ~Paired(r, sql, i)
      BY <3>2, PhasesDiffer DEF Paired
    <3>4. Looks(r, sql, i) = Scan(Append(q.out, Quote), q.next, Yes, No, Yes)
      BY <3>2, <3>3, PhasesDiffer DEF Looks
    <3>5. s = No /\ s # Yes
      BY <2>2, <2>6, PhasesDiffer, YesOrNo
    <3>6. Scans(q.out, q.next, s, sql, i, args) = Scan(q.out \o <<Quote>>, q.next, Flip(s), No, Yes)
      BY <2>6, <3>5 DEF Scans
    <3> QED
      BY <1>1, <1>3, <2>3, <3>4, <3>5, <3>6, YesOrNo
  <2>7. CASE sql[i] # Quote /\ (q.phase = Inside \/ sql[i] # Mark)
    <3>1. r = Binder(Append(q.out, sql[i]), q.next, q.phase)
      BY <1>7, <2>7 DEF Bound
    <3>2. r.phase = q.phase /\ r.out = Append(q.out, sql[i]) /\ r.next = q.next
      BY <3>1 DEF Binder
    <3>3. ~Paired(r, sql, i)
      BY <2>7 DEF Paired
    <3>4. Looks(r, sql, i) = Scan(Append(q.out, sql[i]), q.next, s, No, Yes)
      BY <1>7, <3>2, <3>3 DEF Looks, s
    <3>5. Scans(q.out, q.next, s, sql, i, args) = Scan(q.out \o <<sql[i]>>, q.next, s, No, Yes)
      BY <2>2, <2>7 DEF Scans
    <3> QED
      BY <1>1, <1>2, <1>3, <2>3, <3>4, <3>5
  <2>8. CASE sql[i] # Quote /\ q.phase # Inside /\ sql[i] = Mark /\ CanBind(args, q.next)
    <3> DEFINE w == SQLLiteral(args[q.next + 1]).is
    <3>1. r = Binder(q.out \o w, q.next + 1, Outside)
      BY <1>7, <2>8 DEF Bound
    <3> HIDE DEF w
    <3>2. r.phase = Outside /\ r.out = q.out \o w /\ r.next = q.next + 1
      BY <3>1 DEF Binder
    <3>3. ~Paired(r, sql, i)
      BY <2>8 DEF Paired
    <3>4. Looks(r, sql, i) = Scan(q.out \o w, q.next + 1, No, No, Yes)
      BY <3>2, <3>3, PhasesDiffer DEF Looks
    <3>5. s = No /\ s # Yes
      BY <2>2, <2>8, YesOrNo
    <3>6. Scans(q.out, q.next, s, sql, i, args) = Scan(q.out \o w, q.next + 1, s, No, Yes)
      BY <2>8, <3>5 DEF Scans, w
    <3> QED
      BY <2>3, <3>4, <3>5, <3>6
  <2>9. CASE sql[i] # Quote /\ q.phase # Inside /\ sql[i] = Mark /\ ~CanBind(args, q.next)
    <3>1. r = Binder(q.out, q.next, Stuck)
      BY <1>7, <2>9 DEF Bound
    <3>2. r.phase = Stuck /\ r.out = q.out /\ r.next = q.next
      BY <3>1 DEF Binder
    <3>3. ~Paired(r, sql, i)
      BY <2>9 DEF Paired
    <3>4. Looks(r, sql, i) = Scan(q.out, q.next, No, No, No)
      BY <3>2, <3>3, PhasesDiffer DEF Looks
    <3>5. s = No /\ s # Yes
      BY <2>2, <2>9, YesOrNo
    <3>6. Scans(q.out, q.next, s, sql, i, args) = Scan(q.out, q.next, s, No, No)
      BY <2>9, <3>5 DEF Scans
    <3> QED
      BY <2>3, <3>4, <3>5, <3>6
  <2> QED
    BY <1>1, <1>7, <2>4, <2>5, <2>6, <2>7, <2>8, <2>9
<1> QED
  BY <1>5, <1>6, <1>7

\* BindParams is where the binder is at the end.
LEMMA BindIsAWalk ==
  ASSUME NEW C, Quote \in C, NEW V, \A v \in V : Bindable(C, v), NEW args \in Seq(V), NEW sql \in Seq(C)
  PROVE  BindParams(sql, args) =
           IF BindOf(C, args, sql).phase = Outside /\ BindOf(C, args, sql).next = Len(args)
             THEN Ok(BindOf(C, args, sql).out) ELSE Refused
<1> DEFINE n == Len(sql)
<1> DEFINE first == Scan(<<>>, 0, No, No, Yes)
<1> DEFINE Is(f) == f = [i \in 0..n |-> IF i = 0 THEN first ELSE Bind(f[i - 1], sql, i, args)]
<1>1. n \in Nat /\ \A i \in 1..n : sql[i] \in C
  OBVIOUS
<1>2. PICK p : Trace(p, Binders(C), BindStep(C, args), FirstBinder, sql)
  <2> DEFINE step == BindStep(C, args)
  <2> DEFINE S == Binders(C)
  <2>1. Machine(step, S, C) /\ FirstBinder \in S
    BY BindMachine
  <2> HIDE DEF step, S
  <2> QED
    BY <2>1, WalkExists DEF step, S
<1>3. /\ p \in [0..n -> Binders(C)] /\ p[0] = FirstBinder /\ BindOf(C, args, sql) = p[n]
      /\ \A i \in 1..n : p[i] = BindStep(C, args)[<<p[i - 1], sql[i]>>]
  BY <1>2 DEF Trace, BindOf
<1>4. BindParams(sql, args) =
        LET end == (CHOOSE g : Is(g))[n]
        IN  IF end.ok /\ ~end.inString /\ end.next = Len(args) THEN Ok(end.out) ELSE Refused
  BY DEF BindParams, Scan, Yes, No
<1> HIDE DEF n, first
<1> DEFINE f == [i \in 0..n |-> Looks(p[i], sql, i)]
<1>5. ASSUME NEW i \in 1..n PROVE f[i] = Bind(f[i - 1], sql, i, args)
  <2>1. i \in 0..n /\ i - 1 \in 0..n /\ sql[i] \in C
    BY <1>1
  <2>2. p[i - 1] \in Binders(C) /\ p[i] = BindStep(C, args)[<<p[i - 1], sql[i]>>]
    BY <1>3, <2>1
  <2>3. p[i] = Bound(args, p[i - 1], sql[i])
    BY <2>1, <2>2, BindMachine
  <2>4. Bind(Looks(p[i - 1], sql, i - 1), sql, i, args) = Looks(Bound(args, p[i - 1], sql[i]), sql, i)
    BY <2>2, LooksOn DEF n
  <2> QED
    BY <2>1, <2>3, <2>4
<1>6. f[0] = first
  <2>1. ~Paired(FirstBinder, sql, 0)
    BY DEF Paired
  <2>2. FirstBinder.out = <<>> /\ FirstBinder.next = 0 /\ FirstBinder.phase = Outside
    BY BinderHas DEF FirstBinder
  <2>3. Looks(FirstBinder, sql, 0) = Scan(<<>>, 0, No, No, Yes)
    BY <2>1, <2>2, PhasesDiffer DEF Looks
  <2>4. 0 \in 0..n
    BY <1>1
  <2> QED
    BY <1>3, <2>3, <2>4 DEF first
<1>7. Is(f)
  <2>1. \A i \in 0..n : i = 0 \/ i \in 1..n
    BY <1>1
  <2> HIDE DEF f
  <2>2. \A i \in 0..n : f[i] = IF i = 0 THEN first ELSE Bind(f[i - 1], sql, i, args)
    BY <1>5, <1>6, <2>1
  <2> QED
    BY <2>2 DEF f
<1> DEFINE g == CHOOSE x : Is(x)
<1>8. Is(g)
  BY <1>7
<1> HIDE DEF g, f
<1>9. g[0] = first /\ \A i \in 1..n : g[i] = Bind(g[i - 1], sql, i, args)
  BY <1>1, <1>8
<1> DEFINE Good == {k \in Nat : k <= n => f[k] = g[k]}
<1>10. 0 \in Good
  BY <1>6, <1>9
<1>11. ASSUME NEW k \in Nat, k \in Good PROVE k + 1 \in Good
  <2> SUFFICES ASSUME k + 1 <= n PROVE f[k + 1] = g[k + 1]
    OBVIOUS
  <2>1. k + 1 \in 1..n /\ (k + 1) - 1 = k /\ f[k] = g[k]
    BY <1>1, <1>11
  <2> QED
    BY <1>5, <1>9, <2>1
<1>12. f[n] = g[n]
  <2> HIDE DEF Good
  <2>1. \A k \in Nat : k \in Good
    BY <1>10, <1>11, AllNaturals
  <2>2. n \in Good
    BY <1>1, <2>1
  <2> QED
    BY <1>1, <2>2 DEF Good
<1> DEFINE q == BindOf(C, args, sql)
<1>13. g[n] = Looks(q, sql, n) /\ q \in Binders(C)
  BY <1>1, <1>3, <1>12 DEF f
<1>14. g[n] = Scan(q.out, q.next, IF q.phase = Inside THEN Yes ELSE No, No, IF q.phase = Stuck THEN No ELSE Yes)
  <2>1. ~Paired(q, sql, n)
    BY <1>1 DEF Paired, n
  <2> QED
    BY <1>13, <2>1 DEF Looks
<1>15. q.phase \in {Outside, Inside, Stuck}
  BY <1>13, BinderIs
<1> HIDE DEF q
<1>16. /\ g[n].out = q.out /\ g[n].next = q.next
       /\ g[n].inString = (IF q.phase = Inside THEN Yes ELSE No)
       /\ g[n].ok = (IF q.phase = Stuck THEN No ELSE Yes)
  BY <1>14, ScanHas
<1>17. (g[n].ok /\ ~g[n].inString) <=> q.phase = Outside
  BY <1>15, <1>16, PhasesDiffer DEF Yes, No
<1>18. BindParams(sql, args) = IF g[n].ok /\ ~g[n].inString /\ g[n].next = Len(args) THEN Ok(g[n].out) ELSE Refused
  BY <1>4 DEF g
<1> QED
  BY <1>16, <1>17, <1>18 DEF q

-----------------------------------------------------------------------------
(* What BindParams refuses.                                                *)

\* What a character does to the place and the count of a lexer.
LEMMA LexedCounts ==
  ASSUME NEW C, Quote \in C, NEW a \in Lexers(C), NEW c \in C
  PROVE  /\ Count(a.done) \in Nat /\ Count(Read(a)) = Count(a.done)
         /\ Lexed(a, c).at = AtOpen <=> (IF c = Quote THEN a.at # AtOpen ELSE a.at = AtOpen)
         /\ Count(Lexed(a, c).done) = IF c = Mark /\ a.at # AtOpen THEN Count(a.done) + 1 ELSE Count(a.done)
<1> DEFINE L == LexemesOf(C)
<1>1. a.done \in Seq(L) /\ Literal(a.body) \in L /\ c \in L /\ Read(a) \in Seq(L) /\ a.at \in {AtText, AtOpen, AtClosed}
  BY LexerIs, ReadIs DEF LexemesOf
<1>2. Read(a) = IF a.at = AtText THEN a.done ELSE Append(a.done, Literal(a.body))
  BY ReadIs
<1>3. Literal(a.body) # Mark /\ Quote # Mark
  BY LiteralsDiffer, CharactersDiffer
<1> DEFINE x == Literal(a.body)
<1> HIDE DEF L, x
<1>4. Count(a.done) \in Nat /\ Count(Append(a.done, x)) = Count(a.done)
  BY <1>1, <1>3, MarksOn DEF x
<1>5. Count(Read(a)) = Count(a.done)
  BY <1>2, <1>4 DEF x
<1>6. Count(Append(Read(a), c)) = IF c = Mark THEN Count(a.done) + 1 ELSE Count(a.done)
  BY <1>1, <1>5, MarksOn
<1>7. CASE c = Quote
  <2>1. Lexed(a, c).done = a.done
    BY <1>7, LexerHas DEF Lexed
  <2>2. Lexed(a, c).at = AtOpen <=> a.at # AtOpen
    BY <1>1, <1>7, LexerHas, CharactersDiffer DEF Lexed
  <2> QED
    BY <1>3, <1>4, <1>5, <1>7, <2>1, <2>2
<1>8. CASE c # Quote /\ a.at = AtOpen
  <2>1. Lexed(a, c).done = a.done /\ Lexed(a, c).at = AtOpen
    BY <1>8, LexerHas DEF Lexed
  <2> QED
    BY <1>4, <1>5, <1>8, <2>1
<1>9. CASE c # Quote /\ a.at # AtOpen
  <2>1. Lexed(a, c).done = Append(Read(a), c) /\ Lexed(a, c).at = AtText
    <3> DEFINE more == Append(Read(a), c)
    <3>1. Lexed(a, c) = Lexer(AtText, more, a.body)
      BY <1>9 DEF Lexed
    <3> HIDE DEF more
    <3>2. Lexed(a, c).done = more /\ Lexed(a, c).at = AtText
      BY <3>1 DEF Lexer
    <3> QED
      BY <3>2 DEF more
  <2> QED
    BY <1>4, <1>5, <1>6, <1>9, <2>1, CharactersDiffer
<1> QED
  BY <1>7, <1>8, <1>9

\* The first k arguments have literals.
Rendered(args, k) == \A i \in 1..k : SQLLiteral(args[i]).ok

\* The binder is in a literal where the lexer is in one, and has replaced each
\* placeholder; or it is stuck for a reason.
Follows(a, b, args) ==
  /\ b.phase # Stuck =>
       /\ b.phase = Inside <=> a.at = AtOpen
       /\ Count(a.done) = b.next /\ b.next <= Len(args) /\ Rendered(args, b.next)
  /\ b.phase = Stuck => Count(a.done) > Len(args) \/ ~Rendered(args, Len(args))

\* It goes on like this.
LEMMA FollowsOn ==
  ASSUME NEW C, Quote \in C, NEW V, NEW args \in Seq(V), NEW a \in Lexers(C), NEW b \in Binders(C), NEW c \in C,
         Follows(a, b, args)
  PROVE  Follows(Lexed(a, c), Bound(args, b, c), args)
<1> DEFINE la == Lexed(a, c)
<1> DEFINE lb == Bound(args, b, c)
<1> DEFINE n == Len(args)
<1> DEFINE k == Count(a.done)
<1>1. /\ k \in Nat /\ n \in Nat
      /\ la.at = AtOpen <=> (IF c = Quote THEN a.at # AtOpen ELSE a.at = AtOpen)
      /\ Count(la.done) = IF c = Mark /\ a.at # AtOpen THEN k + 1 ELSE k
  BY LexedCounts
<1>2. b.next \in Nat /\ b.phase \in {Outside, Inside, Stuck}
  BY BinderIs
<1>3. /\ b.phase # Stuck => (b.phase = Inside <=> a.at = AtOpen) /\ k = b.next /\ b.next <= n /\ Rendered(args, b.next)
      /\ b.phase = Stuck => k > n \/ ~Rendered(args, n)
  BY DEF Follows
<1> HIDE DEF la, k, n
<1>4. CASE b.phase = Stuck
  <2>1. lb = b
    BY <1>4 DEF Bound
  <2>2. Count(la.done) > n \/ ~Rendered(args, n)
    BY <1>1, <1>3, <1>4
  <2> QED
    BY <1>4, <2>1, <2>2 DEF Follows, la, n
<1>5. CASE b.phase # Stuck /\ c = Quote
  <2>1. lb = Binder(Append(b.out, Quote), b.next, IF b.phase = Inside THEN Outside ELSE Inside)
    BY <1>5 DEF Bound
  <2>2. lb.next = b.next /\ lb.phase = IF b.phase = Inside THEN Outside ELSE Inside
    BY <2>1 DEF Binder
  <2> HIDE DEF lb
  <2>3. Count(la.done) = k
    BY <1>1, <1>5, CharactersDiffer
  <2> QED
    BY <1>1, <1>2, <1>3, <1>5, <2>2, <2>3, PhasesDiffer DEF Follows, la, n, lb
<1>6. CASE b.phase # Stuck /\ c # Quote /\ (b.phase = Inside \/ c # Mark)
  <2>1. lb = Binder(Append(b.out, c), b.next, b.phase)
    BY <1>6 DEF Bound
  <2>2. lb.next = b.next /\ lb.phase = b.phase
    BY <2>1 DEF Binder
  <2> HIDE DEF lb
  <2>3. Count(la.done) = k
    BY <1>1, <1>3, <1>6
  <2> QED
    BY <1>1, <1>2, <1>3, <1>6, <2>2, <2>3 DEF Follows, la, n, lb
<1>7. CASE b.phase # Stuck /\ c # Quote /\ b.phase # Inside /\ c = Mark
  <2>1. Count(la.done) = k + 1 /\ la.at # AtOpen
    BY <1>1, <1>3, <1>7
  <2>2. CASE CanBind(args, b.next)
    <3> DEFINE w == SQLLiteral(args[b.next + 1]).is
    <3>1. lb = Binder(b.out \o w, b.next + 1, Outside)
      BY <1>7, <2>2 DEF Bound
    <3> HIDE DEF w
    <3>2. lb.next = b.next + 1 /\ lb.phase = Outside
      BY <3>1 DEF Binder
    <3> HIDE DEF lb
    <3>3. b.next + 1 <= n /\ Rendered(args, b.next + 1)
      <4>1. b.next < n /\ SQLLiteral(args[b.next + 1]).ok
        BY <2>2 DEF CanBind, n
      <4>2. \A i \in 1..b.next + 1 : i \in 1..b.next \/ i = b.next + 1
        BY <1>2
      <4> QED
        BY <1>1, <1>2, <1>3, <1>7, <4>1, <4>2 DEF Rendered
    <3> QED
      BY <1>3, <1>7, <2>1, <3>2, <3>3, PhasesDiffer DEF Follows, la, n, lb
  <2>3. CASE ~CanBind(args, b.next)
    <3>1. lb = Binder(b.out, b.next, Stuck)
      BY <1>7, <2>3 DEF Bound
    <3>2. lb.phase = Stuck
      BY <3>1 DEF Binder
    <3> HIDE DEF lb
    <3>3. k + 1 > n \/ ~Rendered(args, n)
      <4>1. b.next >= n \/ ~SQLLiteral(args[b.next + 1]).ok
        BY <1>1, <1>2, <2>3 DEF CanBind, n
      <4>2. b.next < n => b.next + 1 \in 1..n
        BY <1>1, <1>2
      <4> QED
        BY <1>1, <1>2, <1>3, <1>7, <4>1, <4>2 DEF Rendered
    <3> QED
      BY <2>1, <3>2, <3>3 DEF Follows, la, n, lb
  <2> QED
    BY <2>2, <2>3
<1> QED
  BY <1>4, <1>5, <1>6, <1>7 DEF la

\* The binder follows the lexer through every text.
LEMMA BinderFollows ==
  ASSUME NEW C, Quote \in C, NEW V, \A v \in V : Bindable(C, v), NEW args \in Seq(V)
  PROVE  \A s \in Seq(C) :
           /\ LexOf(C, s) \in Lexers(C) /\ BindOf(C, args, s) \in Binders(C)
           /\ Follows(LexOf(C, s), BindOf(C, args, s), args)
           /\ \A c \in C : /\ LexOf(C, Append(s, c)) = Lexed(LexOf(C, s), c)
                           /\ BindOf(C, args, Append(s, c)) = Bound(args, BindOf(C, args, s), c)
<1> DEFINE lex == LexStep(C)
<1> DEFINE bind == BindStep(C, args)
<1>1. /\ Machine(lex, Lexers(C), C) /\ FirstLexer \in Lexers(C)
      /\ \A st \in Lexers(C), c \in C : lex[<<st, c>>] = Lexed(st, c)
  BY LexMachine
<1>2. /\ Machine(bind, Binders(C), C) /\ FirstBinder \in Binders(C)
      /\ \A st \in Binders(C), c \in C : bind[<<st, c>>] = Bound(args, st, c)
  BY BindMachine
<1> HIDE DEF lex, bind
<1>3. ASSUME NEW s \in Seq(C) PROVE LexOf(C, s) \in Lexers(C) /\ BindOf(C, args, s) \in Binders(C)
  <2>1. Walk(lex, FirstLexer, s) \in Lexers(C)
    BY <1>1, WalkOn
  <2>2. Walk(bind, FirstBinder, s) \in Binders(C)
    BY <1>2, WalkOn
  <2> QED
    BY <2>1, <2>2 DEF LexOf, BindOf, lex, bind
<1>4. ASSUME NEW s \in Seq(C), NEW c \in C
      PROVE  LexOf(C, Append(s, c)) = Lexed(LexOf(C, s), c) /\ BindOf(C, args, Append(s, c)) = Bound(args, BindOf(C, args, s), c)
  <2>1. Walk(lex, FirstLexer, Append(s, c)) = lex[<<Walk(lex, FirstLexer, s), c>>]
    BY <1>1, WalkOn
  <2>2. Walk(bind, FirstBinder, Append(s, c)) = bind[<<Walk(bind, FirstBinder, s), c>>]
    BY <1>2, WalkOn
  <2> QED
    BY <1>1, <1>2, <1>3, <2>1, <2>2 DEF LexOf, BindOf, lex, bind
<1>5. LexOf(C, <<>>) = FirstLexer /\ BindOf(C, args, <<>>) = FirstBinder
  <2>1. Walk(lex, FirstLexer, <<>>) = FirstLexer
    BY <1>1, WalkOn
  <2>2. Walk(bind, FirstBinder, <<>>) = FirstBinder
    BY <1>2, WalkOn
  <2> QED
    BY <2>1, <2>2 DEF LexOf, BindOf, lex, bind
<1>6. Follows(FirstLexer, FirstBinder, args)
  <2>1. FirstBinder.phase = Outside /\ FirstBinder.next = 0 /\ FirstLexer.at = AtText /\ FirstLexer.done = <<>>
    BY BinderHas, LexerHas DEF FirstBinder, FirstLexer
  <2>2. Rendered(args, 0) /\ 0 <= Len(args)
    BY DEF Rendered
  <2> QED
    BY <2>1, <2>2, NoMarks, PhasesDiffer, CharactersDiffer DEF Follows
<1> DEFINE G == {s \in Seq(C) : Follows(LexOf(C, s), BindOf(C, args, s), args)}
<1>7. <<>> \in G
  BY <1>5, <1>6, Nothing
<1>8. ASSUME NEW s \in Seq(C), NEW c \in C, s \in G PROVE Append(s, c) \in G
  <2>1. Follows(Lexed(LexOf(C, s), c), Bound(args, BindOf(C, args, s), c), args)
    BY <1>3, <1>8, FollowsOn
  <2>2. Append(s, c) \in Seq(C)
    BY Appended
  <2> QED
    BY <1>4, <2>1, <2>2
<1>9. \A s \in Seq(C) : s \in G
  <2> HIDE DEF G
  <2> QED
    BY <1>7, <1>8, AllSequences
<1> QED
  BY <1>3, <1>4, <1>9

\* BindParams binds a text if its literals are closed, it has as many
\* placeholders as there are arguments, and these have a form.
LEMMA BindsOrRefuses ==
  ASSUME NEW C, Quote \in C, NEW V, \A v \in V : Bindable(C, v), NEW args \in Seq(V), NEW sql \in Seq(C)
  PROVE  /\ BindParams(sql, args).ok \in BOOLEAN /\ Lexemes(sql).ok \in BOOLEAN
         /\ BindParams(sql, args).ok <=>
              Lexemes(sql).ok /\ Cardinality(Marks(Lexemes(sql).is)) = Len(args) /\ \A v \in ToSet(args) : HasForm(v)
<1> DEFINE a == LexOf(C, sql)
<1> DEFINE b == BindOf(C, args, sql)
<1> DEFINE n == Len(args)
<1>1. a \in Lexers(C) /\ b \in Binders(C) /\ Follows(a, b, args)
  BY BinderFollows
<1>2. Lexemes(sql) = IF a.at = AtOpen THEN Refused ELSE Ok(Read(a))
  BY LexemesIsAWalk
<1>3. BindParams(sql, args) = IF b.phase = Outside /\ b.next = n THEN Ok(b.out) ELSE Refused
  BY BindIsAWalk
<1> HIDE DEF a, b
<1>4. (\A v \in ToSet(args) : HasForm(v)) <=> Rendered(args, n)
  <2>1. \A i \in 1..n : args[i] \in V
    OBVIOUS
  <2>2. \A v \in V : SQLLiteral(v).ok <=> HasForm(v)
    BY LiteralSpells
  <2>3. ToSet(args) = {args[i] : i \in 1..n}
    BY DEF ToSet
  <2> QED
    BY <2>1, <2>2, <2>3 DEF Rendered
<1>5. /\ b.phase # Stuck =>
           /\ b.phase = Inside <=> a.at = AtOpen
           /\ Count(a.done) = b.next /\ b.next <= n /\ Rendered(args, b.next)
      /\ b.phase = Stuck => Count(a.done) > n \/ ~Rendered(args, n)
  BY <1>1 DEF Follows
<1>6. /\ Count(a.done) \in Nat /\ Count(Read(a)) = Count(a.done) /\ n \in Nat
      /\ b.phase \in {Outside, Inside, Stuck} /\ b.next \in Nat
  <2>1. Count(a.done) \in Nat /\ Count(Read(a)) = Count(a.done)
    BY <1>1, LexedCounts
  <2> QED
    BY <1>1, <2>1, BinderIs
<1> HIDE DEF n
<1>7. (b.phase = Outside /\ b.next = n) <=> (a.at # AtOpen /\ Count(Read(a)) = n /\ Rendered(args, n))
  BY <1>5, <1>6, PhasesDiffer
<1>8. Lexemes(sql).ok \in BOOLEAN /\ (Lexemes(sql).ok <=> a.at # AtOpen) /\ (a.at # AtOpen => Lexemes(sql).is = Read(a))
  BY <1>2 DEF Ok, Refused
<1>9. BindParams(sql, args).ok \in BOOLEAN /\ (BindParams(sql, args).ok <=> (b.phase = Outside /\ b.next = n))
  BY <1>3 DEF Ok, Refused
<1> QED
  BY <1>4, <1>7, <1>8, <1>9 DEF Count, n

-----------------------------------------------------------------------------
(* What the server reads from what BindParams has bound.                   *)

\* The lexer of a longer text.
LEMMA LexOn ==
  ASSUME NEW C, Quote \in C
  PROVE  /\ LexOf(C, <<>>) = FirstLexer
         /\ \A s \in Seq(C) : LexOf(C, s) \in Lexers(C)
         /\ \A s \in Seq(C), c \in C : LexOf(C, Append(s, c)) = Lexed(LexOf(C, s), c)
         /\ \A s \in Seq(C), t \in Seq(C) : LexOf(C, s \o t) = Walk(LexStep(C), LexOf(C, s), t)
<1> DEFINE lex == LexStep(C)
<1>1. /\ Machine(lex, Lexers(C), C) /\ FirstLexer \in Lexers(C)
      /\ \A st \in Lexers(C), c \in C : lex[<<st, c>>] = Lexed(st, c)
  BY LexMachine
<1> HIDE DEF lex
<1>2. Walk(lex, FirstLexer, <<>>) = FirstLexer
  BY <1>1, WalkOn
<1>3. ASSUME NEW s \in Seq(C) PROVE Walk(lex, FirstLexer, s) \in Lexers(C)
  BY <1>1, WalkOn
<1>4. ASSUME NEW s \in Seq(C), NEW c \in C
      PROVE  Walk(lex, FirstLexer, Append(s, c)) = Lexed(Walk(lex, FirstLexer, s), c)
  <2>1. Walk(lex, FirstLexer, Append(s, c)) = lex[<<Walk(lex, FirstLexer, s), c>>]
    BY <1>1, WalkOn
  <2> QED
    BY <1>1, <1>3, <2>1
<1>5. ASSUME NEW s \in Seq(C), NEW t \in Seq(C)
      PROVE  Walk(lex, FirstLexer, s \o t) = Walk(lex, Walk(lex, FirstLexer, s), t)
  BY <1>1, WalkThrough
<1> QED
  BY <1>2, <1>3, <1>4, <1>5 DEF LexOf, lex

\* A text ends in a character.
EndsIn(s, c) == s # <<>> /\ s[Len(s)] = c

\* What standing apart says of the last character, and of those before.
LEMMA ApartOn ==
  ASSUME NEW C, NEW s \in Seq(C), NEW c \in C, StandApart(Append(s, c))
  PROVE  /\ StandApart(s) /\ EndsIn(Append(s, c), c)
         /\ c = Mark /\ s # <<>> => EndsIn(s, Space)
         /\ EndsIn(s, Mark) => c = Space
<1> DEFINE n == Len(s)
<1> DEFINE t == Append(s, c)
<1>1. /\ t \in Seq(C) /\ Len(t) = n + 1 /\ n \in Nat /\ t[n + 1] = c /\ (\A i \in 1..n : t[i] = s[i])
      /\ DOMAIN s = 1..n /\ DOMAIN t = 1..n + 1
  BY Appended
<1>2. s # <<>> => n \in 1..n
  BY EmptySeq, <1>1
<1>3. \A i \in 1..n + 1 : t[i] = Mark => (i > 1 => t[i - 1] = Space) /\ (i < n + 1 => t[i + 1] = Space)
  BY <1>1 DEF StandApart
<1>4. t # <<>>
  BY <1>1
<1> HIDE DEF n, t
<1>5. ASSUME NEW i \in 1..n, s[i] = Mark PROVE (i > 1 => s[i - 1] = Space) /\ (i < n => s[i + 1] = Space)
  <2>1. i \in 1..n + 1 /\ t[i] = Mark
    BY <1>1, <1>5
  <2>2. i > 1 => i - 1 \in 1..n
    BY <1>1
  <2>3. i < n => i + 1 \in 1..n /\ i < n + 1
    BY <1>1
  <2> QED
    BY <1>1, <1>3, <2>1, <2>2, <2>3
<1>6. StandApart(s)
  BY <1>1, <1>5 DEF StandApart, n
<1>7. EndsIn(t, c)
  BY <1>1, <1>4 DEF EndsIn
<1>8. ASSUME c = Mark, s # <<>> PROVE EndsIn(s, Space)
  <2>1. n + 1 \in 1..n + 1 /\ n + 1 > 1 /\ (n + 1) - 1 = n
    BY <1>1, <1>2, <1>8
  <2>2. t[n] = Space
    BY <1>1, <1>3, <1>8, <2>1
  <2> QED
    BY <1>1, <1>2, <1>8, <2>2 DEF EndsIn, n
<1>9. ASSUME EndsIn(s, Mark) PROVE c = Space
  <2>1. n \in 1..n /\ s[n] = Mark
    BY <1>2, <1>9 DEF EndsIn, n
  <2>2. n \in 1..n + 1 /\ n < n + 1 /\ t[n] = Mark
    BY <1>1, <2>1
  <2> QED
    BY <1>1, <1>3, <2>2
<1> QED
  BY <1>6, <1>7, <1>8, <1>9 DEF t

\* The lexers are at the same place, and what they have read is aligned.
Alike(a, g, args) ==
  g.at = a.at /\ Aligned(a.done, g.done, args) /\ (a.at # AtText => g.body = a.body)

\* Then they have read the same.
LEMMA AlikeRead ==
  ASSUME NEW C, NEW a \in Lexers(C), NEW g \in Lexers(C), NEW args, Alike(a, g, args)
  PROVE  Aligned(Read(a), Read(g), args)
<1> DEFINE L == LexemesOf(C)
<1>1. /\ a.done \in Seq(L) /\ g.done \in Seq(L) /\ Literal(a.body) \in L /\ Literal(a.body) # Mark
      /\ Read(a) = IF a.at = AtText THEN a.done ELSE Append(a.done, Literal(a.body))
      /\ Read(g) = IF g.at = AtText THEN g.done ELSE Append(g.done, Literal(g.body))
  BY LexerIs, ReadIs, LiteralsDiffer DEF LexemesOf
<1>2. g.at = a.at /\ Aligned(a.done, g.done, args) /\ (a.at # AtText => g.body = a.body)
  BY DEF Alike
<1> DEFINE x == Literal(a.body)
<1> HIDE DEF L
<1>3. CASE a.at = AtText
  BY <1>1, <1>2, <1>3
<1>4. CASE a.at # AtText
  <2>1. Literal(g.body) = x /\ x \in L /\ x # Mark
    BY <1>1, <1>2, <1>4
  <2> HIDE DEF x
  <2>2. Aligned(Append(a.done, x), Append(g.done, x), args)
    BY <1>1, <1>2, <2>1, AlignedOn
  <2> QED
    BY <1>1, <1>2, <1>4, <2>1, <2>2 DEF x
<1> QED
  BY <1>3, <1>4

\* They go on alike, unless they meet a placeholder.
LEMMA AlikeOn ==
  ASSUME NEW C, Quote \in C, NEW a \in Lexers(C), NEW g \in Lexers(C), NEW args, Alike(a, g, args),
         NEW c \in C, c # Mark \/ a.at = AtOpen
  PROVE  Alike(Lexed(a, c), Lexed(g, c), args) /\ (Lexed(a, c).at = AtClosed => c = Quote)
<1> DEFINE L == LexemesOf(C)
<1>1. /\ a.done \in Seq(L) /\ g.done \in Seq(L) /\ Read(a) \in Seq(L) /\ Read(g) \in Seq(L) /\ c \in L
      /\ a.at \in {AtText, AtOpen, AtClosed}
  BY LexerIs, ReadIs DEF LexemesOf
<1>2. g.at = a.at /\ Aligned(a.done, g.done, args) /\ (a.at # AtText => g.body = a.body)
  BY DEF Alike
<1>3. Aligned(Read(a), Read(g), args)
  BY AlikeRead
<1> DEFINE nothing == <<>>
<1> HIDE DEF L, nothing
<1>4. CASE c = Quote /\ a.at = AtText
  <2>1. Lexed(a, c) = Lexer(AtOpen, a.done, nothing) /\ Lexed(g, c) = Lexer(AtOpen, g.done, nothing)
    BY <1>2, <1>4 DEF Lexed, nothing
  <2> QED
    BY <1>2, <1>4, <2>1 DEF Alike, Lexer
<1>5. CASE c = Quote /\ a.at = AtOpen
  <2>1. Lexed(a, c) = Lexer(AtClosed, a.done, a.body) /\ Lexed(g, c) = Lexer(AtClosed, g.done, g.body)
    BY <1>2, <1>5, CharactersDiffer DEF Lexed
  <2> QED
    BY <1>2, <1>5, <2>1, CharactersDiffer DEF Alike, Lexer
<1>6. CASE c = Quote /\ a.at = AtClosed
  <2> DEFINE more == Append(a.body, Quote)
  <2>1. g.body = a.body
    BY <1>2, <1>6, CharactersDiffer
  <2>2. Lexed(a, c) = Lexer(AtOpen, a.done, more) /\ Lexed(g, c) = Lexer(AtOpen, g.done, more)
    BY <1>2, <1>6, <2>1, CharactersDiffer DEF Lexed
  <2> HIDE DEF more
  <2> QED
    BY <1>2, <1>6, <2>2 DEF Alike, Lexer
<1>7. CASE c # Quote /\ a.at = AtOpen
  <2> DEFINE more == Append(a.body, c)
  <2>1. g.body = a.body
    BY <1>2, <1>7, CharactersDiffer
  <2>2. Lexed(a, c) = Lexer(AtOpen, a.done, more) /\ Lexed(g, c) = Lexer(AtOpen, g.done, more)
    BY <1>2, <1>7, <2>1 DEF Lexed
  <2> HIDE DEF more
  <2> QED
    BY <1>2, <2>2, CharactersDiffer DEF Alike, Lexer
<1>8. CASE c # Quote /\ a.at # AtOpen
  <2> DEFINE ma == Append(Read(a), c)
  <2> DEFINE mg == Append(Read(g), c)
  <2>1. Lexed(a, c) = Lexer(AtText, ma, a.body) /\ Lexed(g, c) = Lexer(AtText, mg, g.body)
    BY <1>2, <1>8 DEF Lexed
  <2>2. Aligned(ma, mg, args)
    BY <1>1, <1>3, <1>8, AlignedOn
  <2> HIDE DEF ma, mg
  <2> QED
    BY <2>1, <2>2, CharactersDiffer DEF Alike, Lexer
<1> QED
  BY <1>1, <1>4, <1>5, <1>6, <1>7, <1>8

\* They are alike, or the last character was a placeholder and its value has
\* been read.
Agree(s, a, g, args) ==
  \/ Alike(a, g, args) /\ (a.at = AtClosed => EndsIn(s, Quote))
  \/ EndsIn(s, Mark) /\ a.at = AtText /\ g.at # AtOpen /\ Aligned(a.done, Read(g), args)

\* At the end of what has been bound, all is aligned.
LEMMA AgreeRead ==
  ASSUME NEW C, NEW a \in Lexers(C), NEW g \in Lexers(C), NEW args, NEW s, Agree(s, a, g, args), a.at # AtOpen
  PROVE  g.at # AtOpen /\ Aligned(Read(a), Read(g), args)
<1>1. CASE Alike(a, g, args)
  BY <1>1, AlikeRead DEF Alike
<1>2. CASE a.at = AtText /\ g.at # AtOpen /\ Aligned(a.done, Read(g), args)
  BY <1>2, ReadIs
<1> QED
  BY <1>1, <1>2 DEF Agree

\* The lexers of the text and of what has been bound agree further on.
LEMMA AgreeOn ==
  ASSUME NEW C, Quote \in C, NEW V, \A v \in V : Bindable(C, v), NEW args \in Seq(V),
         NEW s \in Seq(C), NEW c \in C, StandApart(Append(s, c)),
         NEW a \in Lexers(C), NEW b \in Binders(C), Follows(a, b, args), Agree(s, a, LexOf(C, b.out), args),
         b.phase # Stuck, Bound(args, b, c).phase # Stuck
  PROVE  Agree(Append(s, c), Lexed(a, c), LexOf(C, Bound(args, b, c).out), args)
<1> DEFINE g == LexOf(C, b.out)
<1> DEFINE t == Append(s, c)
<1> DEFINE L == LexemesOf(C)
<1>1. b.out \in Seq(C) /\ b.next \in Nat /\ b.phase \in {Outside, Inside, Stuck}
  BY BinderIs
<1>2. g \in Lexers(C) /\ (\A d \in C : LexOf(C, Append(b.out, d)) = Lexed(g, d))
  BY <1>1, LexOn
<1>3. /\ EndsIn(t, c) /\ (c = Mark /\ s # <<>> => EndsIn(s, Space)) /\ (EndsIn(s, Mark) => c = Space)
  BY ApartOn
<1>4. (b.phase = Inside <=> a.at = AtOpen) /\ Count(a.done) = b.next
  BY DEF Follows
<1>5. /\ a.done \in Seq(L) /\ Read(a) \in Seq(L) /\ g.done \in Seq(L) /\ Read(g) \in Seq(L) /\ C \subseteq L
      /\ a.at \in {AtText, AtOpen, AtClosed}
  BY <1>2, LexerIs, ReadIs DEF LexemesOf
<1>6. c # Mark \/ b.phase = Inside => Bound(args, b, c).out = Append(b.out, c)
  BY PhasesDiffer, CharactersDiffer DEF Bound, Binder
<1> HIDE DEF g, L, t
<1>7. CASE Alike(a, g, args) /\ (c # Mark \/ a.at = AtOpen)
  <2>1. LexOf(C, Bound(args, b, c).out) = Lexed(g, c)
    BY <1>2, <1>4, <1>6, <1>7
  <2>2. Alike(Lexed(a, c), Lexed(g, c), args) /\ (Lexed(a, c).at = AtClosed => c = Quote)
    BY <1>2, <1>7, AlikeOn
  <2> QED
    BY <1>3, <2>1, <2>2 DEF Agree, t
<1>8. CASE Alike(a, g, args) /\ (a.at = AtClosed => EndsIn(s, Quote)) /\ c = Mark /\ a.at # AtOpen
  <2>1. a.at = AtText
    <3>1. ~(EndsIn(s, Quote) /\ EndsIn(s, Space))
      BY CharactersDiffer DEF EndsIn
    <3>2. EndsIn(s, Quote) => s # <<>>
      BY DEF EndsIn
    <3> QED
      BY <1>3, <1>5, <1>8, <3>1, <3>2
  <2>2. g.at = AtText /\ Aligned(a.done, g.done, args)
    BY <1>8, <2>1 DEF Alike
  <2>3. Lexed(a, c).at = AtText /\ Lexed(a, c).done = Append(a.done, Mark)
    <3> DEFINE more == Append(Read(a), c)
    <3>1. Lexed(a, c) = Lexer(AtText, more, a.body)
      BY <1>8, CharactersDiffer DEF Lexed
    <3>2. more = Append(a.done, Mark)
      BY <1>8, <2>1, ReadIs
    <3> HIDE DEF more
    <3>3. Lexed(a, c).at = AtText /\ Lexed(a, c).done = more
      BY <3>1 DEF Lexer
    <3> QED
      BY <3>2, <3>3
  <2> DEFINE v == args[b.next + 1]
  <2> DEFINE w == SQLLiteral(v).is
  <2>4. CanBind(args, b.next)
    BY <1>4, <1>8, CharactersDiffer DEF Bound, Binder
  <2>5. v \in V /\ SQLLiteral(v).ok
    <3>1. b.next + 1 \in 1..Len(args)
      BY <1>1, <2>4 DEF CanBind
    <3> QED
      BY <2>4, <3>1 DEF CanBind
  <2>6. Bound(args, b, c).out = b.out \o w
    <3>1. Bound(args, b, c) = Binder(b.out \o w, b.next + 1, Outside)
      BY <1>4, <1>8, <2>4, CharactersDiffer DEF Bound
    <3> HIDE DEF w
    <3> QED
      BY <3>1 DEF Binder
  <2>7. w \in Seq(C) /\ Spells(C, v, w)
    BY <2>5, SpelledTypes
  <2> DEFINE h == Walk(LexStep(C), g, w)
  <2> HIDE DEF v, w
  <2>8. LexOf(C, Bound(args, b, c).out) = h
    BY <1>1, <2>6, <2>7, LexOn DEF g
  <2>9. OneMore(C, g, h, v)
    BY <1>2, <2>2, <2>7, ValueIsOneLexeme
  <2>10. PICK x \in L : Read(h) = Append(g.done, x) /\ Means(x, v)
    BY <2>9 DEF OneMore, L
  <2>11. h.at # AtOpen
    BY <2>9, CharactersDiffer DEF OneMore
  <2> HIDE DEF h
  <2>12. Means(x, args[Count(a.done) + 1]) /\ Mark \in L
    BY <1>4, <1>5, <1>8, <2>10 DEF v
  <2>13. Aligned(Append(a.done, Mark), Append(g.done, x), args)
    BY <1>5, <2>2, <2>10, <2>12, AlignedOn
  <2> QED
    BY <1>3, <1>8, <2>3, <2>8, <2>10, <2>11, <2>13 DEF Agree, t
<1>9. CASE EndsIn(s, Mark) /\ a.at = AtText /\ g.at # AtOpen /\ Aligned(a.done, Read(g), args)
  <2>1. c = Space /\ c # Mark /\ c # Quote
    BY <1>3, <1>9, CharactersDiffer
  <2>2. LexOf(C, Bound(args, b, c).out) = Lexed(g, c)
    BY <1>2, <1>6, <2>1
  <2> DEFINE ma == Append(Read(a), c)
  <2> DEFINE mg == Append(Read(g), c)
  <2>3. Lexed(a, c) = Lexer(AtText, ma, a.body) /\ Lexed(g, c) = Lexer(AtText, mg, g.body)
    BY <1>9, <2>1, CharactersDiffer DEF Lexed
  <2>4. Aligned(Read(a), Read(g), args) /\ c \in L
    BY <1>5, <1>9, ReadIs
  <2>5. Aligned(ma, mg, args)
    BY <1>5, <2>1, <2>4, AlignedOn
  <2> HIDE DEF ma, mg
  <2>6. Alike(Lexed(a, c), Lexed(g, c), args) /\ Lexed(a, c).at # AtClosed
    BY <2>3, <2>5, CharactersDiffer DEF Alike, Lexer
  <2> QED
    BY <2>2, <2>6 DEF Agree
<1> QED
  BY <1>7, <1>8, <1>9 DEF Agree, g

\* A binder that is stuck remains so.
LEMMA StuckStays ==
  ASSUME NEW args, NEW b, NEW c, Bound(args, b, c).phase # Stuck
  PROVE  b.phase # Stuck
BY DEF Bound

\* The lexers agree on every text whose placeholders stand apart.
LEMMA BoundAgrees ==
  ASSUME NEW C, Quote \in C, NEW V, \A v \in V : Bindable(C, v), NEW args \in Seq(V)
  PROVE  \A s \in Seq(C) :
           StandApart(s) /\ BindOf(C, args, s).phase # Stuck
             => Agree(s, LexOf(C, s), LexOf(C, BindOf(C, args, s).out), args)
<1> DEFINE a(s) == LexOf(C, s)
<1> DEFINE b(s) == BindOf(C, args, s)
<1>1. ASSUME NEW s \in Seq(C)
      PROVE  /\ a(s) \in Lexers(C) /\ b(s) \in Binders(C) /\ Follows(a(s), b(s), args)
             /\ \A c \in C : a(Append(s, c)) = Lexed(a(s), c) /\ b(Append(s, c)) = Bound(args, b(s), c)
  BY BinderFollows
<1>2. a(<<>>) = FirstLexer /\ b(<<>>) = FirstBinder
  <2>1. Walk(BindStep(C, args), FirstBinder, <<>>) = FirstBinder
    <3> DEFINE bind == BindStep(C, args)
    <3>1. Machine(bind, Binders(C), C) /\ FirstBinder \in Binders(C)
      BY BindMachine
    <3> HIDE DEF bind
    <3> QED
      BY <3>1, WalkOn DEF bind
  <2> QED
    BY <2>1, LexOn DEF BindOf
<1> HIDE DEF a, b
<1> DEFINE G == {s \in Seq(C) : StandApart(s) /\ b(s).phase # Stuck => Agree(s, a(s), LexOf(C, b(s).out), args)}
<1>3. <<>> \in G
  <2>1. FirstBinder.out = <<>> /\ FirstLexer.at = AtText /\ FirstLexer.done = <<>>
    BY DEF FirstBinder, Binder, FirstLexer, Lexer
  <2>2. LexOf(C, FirstBinder.out) = FirstLexer
    BY <2>1, LexOn
  <2>3. Alike(FirstLexer, FirstLexer, args)
    BY <2>1, NothingAligned DEF Alike
  <2>4. Agree(<<>>, FirstLexer, FirstLexer, args)
    BY <2>1, <2>3, CharactersDiffer DEF Agree
  <2> QED
    BY <1>2, <2>2, <2>4, Nothing
<1>4. ASSUME NEW s \in Seq(C), NEW c \in C, s \in G PROVE Append(s, c) \in G
  <2>1. Append(s, c) \in Seq(C)
    BY Appended
  <2>2. ASSUME StandApart(Append(s, c)), b(Append(s, c)).phase # Stuck
        PROVE  Agree(Append(s, c), a(Append(s, c)), LexOf(C, b(Append(s, c)).out), args)
    <3>1. a(Append(s, c)) = Lexed(a(s), c) /\ b(Append(s, c)) = Bound(args, b(s), c)
      BY <1>1
    <3>2. Bound(args, b(s), c).phase # Stuck /\ b(s).phase # Stuck
      BY <2>2, <3>1, StuckStays
    <3>3. StandApart(s)
      BY <2>2, ApartOn
    <3>4. Agree(s, a(s), LexOf(C, b(s).out), args)
      BY <1>4, <3>2, <3>3
    <3>5. Agree(Append(s, c), Lexed(a(s), c), LexOf(C, Bound(args, b(s), c).out), args)
      BY <1>1, <2>2, <3>2, <3>4, AgreeOn
    <3> QED
      BY <3>1, <3>5
  <2> QED
    BY <2>1, <2>2
<1>5. \A s \in Seq(C) : s \in G
  <2> HIDE DEF G
  <2> QED
    BY <1>3, <1>4, AllSequences
<1> QED
  BY <1>5 DEF a, b

\* BindParams, for every text and all arguments: it refuses what the server
\* could not have bound, and the server reads from the bound text the
\* statement with each placeholder's own value in it, and exactly that value
\* (BindParams, SQLLiteral).
THEOREM EveryBindIsFaithful ==
  ASSUME NEW C, Quote \in C, NEW V, \A v \in V : Bindable(C, v), NEW args \in Seq(V), NEW sql \in Seq(C)
  PROVE  BindIsFaithful(sql, args)
<1> DEFINE bound == BindParams(sql, args)
<1> DEFINE asked == Lexemes(sql)
<1>1. /\ bound.ok \in BOOLEAN /\ asked.ok \in BOOLEAN
      /\ bound.ok <=> asked.ok /\ Cardinality(Marks(asked.is)) = Len(args) /\ \A v \in ToSet(args) : HasForm(v)
  BY BindsOrRefuses
<1>2. ASSUME bound.ok, StandApart(sql)
      PROVE  LET got == Lexemes(bound.is) IN
             /\ got.ok /\ Len(got.is) = Len(asked.is)
             /\ \A i \in DOMAIN asked.is :
                  IF asked.is[i] = Mark THEN Means(got.is[i], args[NthMark(asked.is, i)])
                                        ELSE got.is[i] = asked.is[i]
  <2> DEFINE a == LexOf(C, sql)
  <2> DEFINE b == BindOf(C, args, sql)
  <2> DEFINE g == LexOf(C, b.out)
  <2>1. a \in Lexers(C) /\ b \in Binders(C)
    BY BinderFollows
  <2>2. b.out \in Seq(C)
    BY <2>1, BinderIs
  <2>3. g \in Lexers(C)
    BY <2>2, LexOn
  <2>4. bound = (IF b.phase = Outside /\ b.next = Len(args) THEN Ok(b.out) ELSE Refused)
    BY BindIsAWalk
  <2>5. asked = IF a.at = AtOpen THEN Refused ELSE Ok(Read(a))
    BY LexemesIsAWalk
  <2>6. Lexemes(b.out) = IF g.at = AtOpen THEN Refused ELSE Ok(Read(g))
    BY <2>2, LexemesIsAWalk
  <2>7. b.phase # Stuck => Agree(sql, a, g, args)
    BY <1>2, BoundAgrees
  <2>8. Read(a) \in Seq(LexemesOf(C))
    BY <2>1, ReadIs
  <2> HIDE DEF a, b, g, bound, asked
  <2>9. b.phase = Outside /\ bound.is = b.out
    BY <1>2, <2>4 DEF Ok, Refused
  <2>10. a.at # AtOpen /\ asked.is = Read(a)
    BY <1>1, <1>2, <2>5 DEF Ok, Refused
  <2>11. g.at # AtOpen /\ Aligned(Read(a), Read(g), args)
    BY <2>1, <2>3, <2>7, <2>9, <2>10, AgreeRead, PhasesDiffer
  <2>12. Lexemes(bound.is).ok /\ Lexemes(bound.is).is = Read(g)
    BY <2>6, <2>9, <2>11 DEF Ok
  <2>13. DOMAIN asked.is = 1..Len(Read(a))
    BY <2>8, <2>10
  <2> QED
    BY <2>10, <2>11, <2>12, <2>13 DEF Aligned
<1> QED
  BY <1>1, <1>2 DEF BindIsFaithful

\* What BindParams can bind, SQLParam has a parameter for (sqlBody).
LEMMA EveryBindIsAlike ==
  ASSUME NEW C, Quote \in C, NEW V, \A v \in V : Bindable(C, v), NEW args \in Seq(V), NEW sql \in Seq(C)
  PROVE  ParamsAreAlike(sql, args)
<1>1. SUFFICES ASSUME BindParams(sql, args).ok
               PROVE  SqlBody(sql, args, TRUE).ok /\ (SqlBody(sql, args, FALSE).ok <=> args = <<>>)
  BY DEF ParamsAreAlike
<1>2. \A v \in ToSet(args) : HasForm(v) /\ v \in V
  <2>1. \A v \in ToSet(args) : HasForm(v)
    BY <1>1, BindsOrRefuses
  <2>2. \A v \in ToSet(args) : v \in V
    BY DEF ToSet
  <2> QED
    BY <2>1, <2>2
<1>3. \A v \in ToSet(args) : SQLParam(v).ok
  BY <1>2, LiteralSpells
<1> DEFINE body == [sql |-> sql, params |-> [i \in DOMAIN args |-> SQLParam(args[i]).is]]
<1> DEFINE with == SqlBody(sql, args, TRUE)
<1> DEFINE without == SqlBody(sql, args, FALSE)
<1>4. with = Ok(body)
  BY <1>3 DEF SqlBody
<1>5. without = IF args = <<>> THEN Ok(body) ELSE Refused
  BY DEF SqlBody
<1> HIDE DEF body, with, without
<1>6. with.ok
  BY <1>4 DEF Ok
<1>7. without.ok <=> args = <<>>
  <2>1. ASSUME args = <<>> PROVE without.ok
    BY <1>5, <2>1 DEF Ok
  <2>2. ASSUME args # <<>> PROVE without.ok = FALSE
    BY <1>5, <2>2 DEF Refused
  <2> QED
    BY <2>1, <2>2
<1> QED
  BY <1>6, <1>7 DEF with, without

-----------------------------------------------------------------------------
(* Words that control a transaction, in what has been bound.               *)

\* How many of them there are.
Controls(l) == Cardinality(Places(l, Control))

\* They are counted one lexeme after the other.
LEMMA ControlsOn ==
  ASSUME NEW L, NEW l \in Seq(L), NEW x \in L
  PROVE  /\ Controls(l) \in Nat
         /\ Controls(Append(l, x)) = IF x = Control THEN Controls(l) + 1 ELSE Controls(l)
BY PlacesOn DEF Controls

\* There are none in nothing.
LEMMA NoControls == Controls(<<>>) = 0
<1>1. Places(<<>>, Control) = {}
  BY DEF Places
<1> QED
  BY <1>1, FS_EmptySet DEF Controls

\* What a character does to the number of them.
LEMMA LexedControls ==
  ASSUME NEW C, Quote \in C, NEW a \in Lexers(C), NEW c \in C
  PROVE  /\ Controls(a.done) \in Nat /\ Controls(Read(a)) = Controls(a.done)
         /\ Controls(Lexed(a, c).done) =
              IF c = Control /\ a.at # AtOpen THEN Controls(a.done) + 1 ELSE Controls(a.done)
<1> DEFINE L == LexemesOf(C)
<1>1. a.done \in Seq(L) /\ Literal(a.body) \in L /\ c \in L /\ Read(a) \in Seq(L) /\ a.at \in {AtText, AtOpen, AtClosed}
  BY LexerIs, ReadIs DEF LexemesOf
<1>2. Read(a) = IF a.at = AtText THEN a.done ELSE Append(a.done, Literal(a.body))
  BY ReadIs
<1>3. Literal(a.body) # Control /\ Quote # Control
  BY LiteralsDiffer, CharactersDiffer
<1> DEFINE x == Literal(a.body)
<1> HIDE DEF L, x
<1>4. Controls(a.done) \in Nat /\ Controls(Append(a.done, x)) = Controls(a.done)
  BY <1>1, <1>3, ControlsOn DEF x
<1>5. Controls(Read(a)) = Controls(a.done)
  BY <1>2, <1>4 DEF x
<1>6. Controls(Append(Read(a), c)) = IF c = Control THEN Controls(a.done) + 1 ELSE Controls(a.done)
  BY <1>1, <1>5, ControlsOn
<1>7. CASE c = Quote
  <2>1. Lexed(a, c).done = a.done
    BY <1>7, LexerHas DEF Lexed
  <2> QED
    BY <1>3, <1>4, <1>5, <1>7, <2>1
<1>8. CASE c # Quote /\ a.at = AtOpen
  <2>1. Lexed(a, c).done = a.done
    BY <1>8, LexerHas DEF Lexed
  <2> QED
    BY <1>4, <1>5, <1>8, <2>1
<1>9. CASE c # Quote /\ a.at # AtOpen
  <2> DEFINE more == Append(Read(a), c)
  <2>1. Lexed(a, c) = Lexer(AtText, more, a.body)
    BY <1>9 DEF Lexed
  <2> HIDE DEF more
  <2>2. Lexed(a, c).done = more
    BY <2>1 DEF Lexer
  <2> QED
    BY <1>4, <1>5, <1>6, <1>9, <2>2 DEF more
<1> QED
  BY <1>7, <1>8, <1>9

\* Outside of an open literal, with n words of control before it.
Past(C, st, n) == st \in Lexers(C) /\ st.at # AtOpen /\ Controls(st.done) = n

\* The text of a value has no such word, whatever it stands behind.
LEMMA ValueHasNoControl ==
  ASSUME NEW C, Quote \in C, NEW st, NEW n, Past(C, st, n), NEW v, NEW w, Spells(C, v, w)
  PROVE  w \in Seq(C) /\ Past(C, Walk(LexStep(C), st, w), n)
<1> DEFINE step == LexStep(C)
<1>1. st \in Lexers(C) /\ st.at # AtOpen /\ Controls(st.done) = n
  BY DEF Past
<1>2. ASSUME NEW t \in Seq(C), w = QuoteSQL(t) PROVE w \in Seq(C) /\ Past(C, Walk(step, st, w), n)
  <2> DEFINE body == Reopened(st) \o t
  <2> DEFINE next == Lexer(AtClosed, st.done, body)
  <2>1. w \in Seq(C) /\ Walk(step, st, w) = next
    BY <1>1, <1>2, QuotedIsRead
  <2>2. body \in Seq(C) /\ st.done \in Seq(LexemesOf(C))
    <3>1. st.body \in Seq(C) /\ <<>> \in Seq(C) /\ st.done \in Seq(LexemesOf(C))
      BY <1>1, LexerIs, Nothing
    <3>2. Reopened(st) \in Seq(C)
      BY <3>1, Appended DEF Reopened
    <3> QED
      BY <3>1, <3>2, Behind
  <2> HIDE DEF body, step
  <2>3. next \in Lexers(C)
    BY <2>2, LexerIs
  <2>4. next.at = AtClosed /\ next.done = st.done
    BY DEF Lexer
  <2> QED
    BY <1>1, <2>1, <2>3, <2>4, CharactersDiffer DEF Past
<1>3. ASSUME NEW c \in C \ {Quote, Control}, w = <<c>> PROVE w \in Seq(C) /\ Past(C, Walk(step, st, w), n)
  <2>1. Machine(step, Lexers(C), C) /\ step[<<st, c>>] = Lexed(st, c)
    BY <1>1, LexMachine
  <2> HIDE DEF step
  <2>2. Walk(step, st, <<c>>) = Lexed(st, c)
    BY <1>1, <2>1, OneStep
  <2>3. Lexed(st, c) \in Lexers(C) /\ Lexed(st, c).at # AtOpen /\ Controls(Lexed(st, c).done) = n
    BY <1>1, LexedTypes, LexedCounts, LexedControls
  <2> QED
    BY <1>3, <2>2, <2>3 DEF Past
<1> QED
  BY <1>2, <1>3 DEF Spells

\* Where the binder is not stuck, the lexer of what it has bound is in a
\* literal where the lexer of the text is, and has read as many such words.
Keeps(a, b, g) == b.phase # Stuck => (g.at = AtOpen <=> a.at = AtOpen) /\ Controls(g.done) = Controls(a.done)

\* It goes on like this.
LEMMA KeepsOn ==
  ASSUME NEW C, Quote \in C, NEW V, \A v \in V : Bindable(C, v), NEW args \in Seq(V), NEW c \in C,
         NEW a \in Lexers(C), NEW b \in Binders(C), Follows(a, b, args), Keeps(a, b, LexOf(C, b.out))
  PROVE  Keeps(Lexed(a, c), Bound(args, b, c), LexOf(C, Bound(args, b, c).out))
<1> DEFINE g == LexOf(C, b.out)
<1> SUFFICES ASSUME Bound(args, b, c).phase # Stuck
             PROVE  LET h == LexOf(C, Bound(args, b, c).out)
                    IN  (h.at = AtOpen <=> Lexed(a, c).at = AtOpen) /\ Controls(h.done) = Controls(Lexed(a, c).done)
  BY DEF Keeps
<1>1. b.out \in Seq(C) /\ b.next \in Nat /\ b.phase \in {Outside, Inside, Stuck}
  BY BinderIs
<1>2. g \in Lexers(C) /\ (\A d \in C : LexOf(C, Append(b.out, d)) = Lexed(g, d))
  BY <1>1, LexOn
<1>3. b.phase # Stuck
  BY StuckStays
<1>4. (b.phase = Inside <=> a.at = AtOpen) /\ (g.at = AtOpen <=> a.at = AtOpen) /\ Controls(g.done) = Controls(a.done)
  BY <1>3 DEF Follows, Keeps
<1>5. /\ Lexed(a, c).at = AtOpen <=> (IF c = Quote THEN a.at # AtOpen ELSE a.at = AtOpen)
      /\ Controls(Lexed(a, c).done) = IF c = Control /\ a.at # AtOpen THEN Controls(a.done) + 1 ELSE Controls(a.done)
  BY LexedCounts, LexedControls
<1>6. c # Mark \/ b.phase = Inside => Bound(args, b, c).out = Append(b.out, c)
  BY <1>3, PhasesDiffer, CharactersDiffer DEF Bound, Binder
<1> HIDE DEF g
<1>7. CASE c # Mark \/ a.at = AtOpen
  <2>1. LexOf(C, Bound(args, b, c).out) = Lexed(g, c)
    BY <1>2, <1>4, <1>6, <1>7
  <2>2. /\ Lexed(g, c).at = AtOpen <=> (IF c = Quote THEN g.at # AtOpen ELSE g.at = AtOpen)
        /\ Controls(Lexed(g, c).done) = IF c = Control /\ g.at # AtOpen THEN Controls(g.done) + 1 ELSE Controls(g.done)
    BY <1>2, LexedCounts, LexedControls
  <2> QED
    BY <1>4, <1>5, <2>1, <2>2
<1>8. CASE c = Mark /\ a.at # AtOpen
  <2> DEFINE v == args[b.next + 1]
  <2> DEFINE w == SQLLiteral(v).is
  <2>1. CanBind(args, b.next)
    BY <1>3, <1>4, <1>8, CharactersDiffer DEF Bound, Binder
  <2>2. v \in V /\ SQLLiteral(v).ok
    <3>1. b.next + 1 \in 1..Len(args)
      BY <1>1, <2>1 DEF CanBind
    <3> QED
      BY <2>1, <3>1 DEF CanBind
  <2>3. Bound(args, b, c).out = b.out \o w
    <3>1. Bound(args, b, c) = Binder(b.out \o w, b.next + 1, Outside)
      BY <1>3, <1>4, <1>8, <2>1, CharactersDiffer DEF Bound
    <3> HIDE DEF w
    <3> QED
      BY <3>1 DEF Binder
  <2>4. w \in Seq(C) /\ Spells(C, v, w)
    BY <2>2, SpelledTypes
  <2> DEFINE h == Walk(LexStep(C), g, w)
  <2> HIDE DEF v, w
  <2>5. LexOf(C, Bound(args, b, c).out) = h
    BY <1>1, <2>3, <2>4, LexOn DEF g
  <2>6. Past(C, g, Controls(a.done))
    BY <1>2, <1>4, <1>8 DEF Past
  <2>7. Past(C, h, Controls(a.done))
    BY <2>4, <2>6, ValueHasNoControl
  <2> HIDE DEF h
  <2>8. h.at # AtOpen /\ Controls(h.done) = Controls(a.done)
    BY <2>7 DEF Past
  <2>9. Lexed(a, c).at # AtOpen /\ Controls(Lexed(a, c).done) = Controls(a.done)
    BY <1>5, <1>8, CharactersDiffer
  <2> QED
    BY <2>5, <2>8, <2>9
<1> QED
  BY <1>7, <1>8

\* So it is for every text.
LEMMA ControlsAreKept ==
  ASSUME NEW C, Quote \in C, NEW V, \A v \in V : Bindable(C, v), NEW args \in Seq(V)
  PROVE  \A s \in Seq(C) : Keeps(LexOf(C, s), BindOf(C, args, s), LexOf(C, BindOf(C, args, s).out))
<1> DEFINE a(s) == LexOf(C, s)
<1> DEFINE b(s) == BindOf(C, args, s)
<1>1. ASSUME NEW s \in Seq(C)
      PROVE  /\ a(s) \in Lexers(C) /\ b(s) \in Binders(C) /\ Follows(a(s), b(s), args)
             /\ \A c \in C : a(Append(s, c)) = Lexed(a(s), c) /\ b(Append(s, c)) = Bound(args, b(s), c)
  BY BinderFollows
<1>2. a(<<>>) = FirstLexer /\ b(<<>>).out = <<>>
  <2>1. Walk(BindStep(C, args), FirstBinder, <<>>) = FirstBinder
    <3> DEFINE bind == BindStep(C, args)
    <3>1. Machine(bind, Binders(C), C) /\ FirstBinder \in Binders(C)
      BY BindMachine
    <3> HIDE DEF bind
    <3> QED
      BY <3>1, WalkOn DEF bind
  <2> QED
    BY <2>1, LexOn DEF BindOf, FirstBinder, Binder
<1>3. LexOf(C, <<>>) = FirstLexer
  BY LexOn
<1> HIDE DEF a, b
<1> DEFINE G == {s \in Seq(C) : Keeps(a(s), b(s), LexOf(C, b(s).out))}
<1>4. <<>> \in G
  <2>1. Keeps(FirstLexer, b(<<>>), FirstLexer)
    BY DEF Keeps
  <2> QED
    BY <1>2, <1>3, <2>1, Nothing
<1>5. ASSUME NEW s \in Seq(C), NEW c \in C, s \in G PROVE Append(s, c) \in G
  <2>1. Keeps(Lexed(a(s), c), Bound(args, b(s), c), LexOf(C, Bound(args, b(s), c).out))
    BY <1>1, <1>5, KeepsOn
  <2>2. Append(s, c) \in Seq(C)
    BY Appended
  <2> QED
    BY <1>1, <2>1, <2>2
<1>6. \A s \in Seq(C) : s \in G
  <2> HIDE DEF G
  <2> QED
    BY <1>4, <1>5, AllSequences
<1> QED
  BY <1>6 DEF a, b

-----------------------------------------------------------------------------
(* The text of a script.                                                   *)

\* Between two lexemes, none of which is an unfinished literal.
Between(C, st, n) == Past(C, st, n) /\ st.at = AtText

\* A character that is neither a quote nor in a literal.
LEMMA BetweenOn ==
  ASSUME NEW C, Quote \in C, NEW st, NEW n, Past(C, st, n), NEW c \in C, c # Quote
  PROVE  Between(C, Lexed(st, c), IF c = Control THEN n + 1 ELSE n)
<1>1. st \in Lexers(C) /\ st.at # AtOpen /\ Controls(st.done) = n
  BY DEF Past
<1>2. Lexed(st, c) \in Lexers(C) /\ Controls(Lexed(st, c).done) = IF c = Control THEN n + 1 ELSE n
  BY <1>1, LexedTypes, LexedControls
<1>3. Lexed(st, c).at = AtText
  <2> DEFINE more == Append(Read(st), c)
  <2>1. Lexed(st, c) = Lexer(AtText, more, st.body)
    BY <1>1 DEF Lexed
  <2> HIDE DEF more
  <2> QED
    BY <2>1 DEF Lexer
<1> QED
  BY <1>2, <1>3, CharactersDiffer DEF Between, Past

\* A semicolon and a space behind a statement.
LEMMA SeparatorIsRead ==
  ASSUME NEW C, Quote \in C, Semicolon \in C, Space \in C, NEW st, NEW n, Past(C, st, n)
  PROVE  Between(C, Walk(LexStep(C), st, <<Semicolon, Space>>), n)
<1> DEFINE step == LexStep(C)
<1> DEFINE u == Lexed(st, Semicolon)
<1>1. st \in Lexers(C)
  BY DEF Past
<1>2. Between(C, u, n)
  BY BetweenOn, CharactersDiffer
<1> HIDE DEF u
<1>3. u \in Lexers(C) /\ Past(C, u, n)
  BY <1>2 DEF Between, Past
<1>4. Between(C, Lexed(u, Space), n)
  BY <1>3, BetweenOn, CharactersDiffer
<1>5. Machine(step, Lexers(C), C) /\ step[<<st, Semicolon>>] = u /\ step[<<u, Space>>] = Lexed(u, Space)
  BY <1>1, <1>3, LexMachine DEF u
<1> HIDE DEF step
<1>6. Walk(step, st, <<Semicolon, Space>>) = Lexed(u, Space)
  BY <1>1, <1>5, TwoSteps
<1> QED
  BY <1>4, <1>6 DEF step

\* A text whose literals are closed, without a word of control outside of them.
Whole(C, t) == t \in Seq(C) /\ Past(C, LexOf(C, t), 0)

\* Between lexemes such a text is read as it is read alone.
LEMMA WholeIsRead ==
  ASSUME NEW C, Quote \in C, NEW st, NEW n \in Nat, Between(C, st, n), NEW t, Whole(C, t)
  PROVE  Past(C, Walk(LexStep(C), st, t), n)
<1> DEFINE step == LexStep(C)
<1> DEFINE l(s) == Walk(step, st, s)
<1> DEFINE o(s) == LexOf(C, s)
<1>1. st \in Lexers(C) /\ st.at = AtText /\ Controls(st.done) = n
  BY DEF Between, Past
<1>2. Machine(step, Lexers(C), C) /\ \A u \in Lexers(C), c \in C : step[<<u, c>>] = Lexed(u, c)
  BY LexMachine
<1>3. l(<<>>) = st /\ o(<<>>) = FirstLexer
  <2> HIDE DEF step
  <2> QED
    BY <1>1, <1>2, WalkOn, LexOn
<1>4. ASSUME NEW s \in Seq(C)
      PROVE  /\ l(s) \in Lexers(C) /\ o(s) \in Lexers(C)
             /\ \A c \in C : l(Append(s, c)) = Lexed(l(s), c) /\ o(Append(s, c)) = Lexed(o(s), c)
  <2>1. l(s) \in Lexers(C) /\ \A c \in C : l(Append(s, c)) = step[<<l(s), c>>]
    <3> HIDE DEF step
    <3> QED
      BY <1>1, <1>2, WalkOn
  <2> HIDE DEF l, step
  <2> QED
    BY <1>2, <2>1, LexOn
<1> HIDE DEF l, o, step
<1> DEFINE G == {s \in Seq(C) : l(s).at = o(s).at /\ Controls(l(s).done) = n + Controls(o(s).done)}
<1>5. <<>> \in G
  <2>1. FirstLexer.at = AtText /\ FirstLexer.done = <<>>
    BY DEF FirstLexer, Lexer
  <2> QED
    BY <1>1, <1>3, <2>1, NoControls, Nothing
<1>6. ASSUME NEW s \in Seq(C), NEW c \in C, s \in G PROVE Append(s, c) \in G
  <2> DEFINE p == l(s)
  <2> DEFINE q == o(s)
  <2>1. p \in Lexers(C) /\ q \in Lexers(C) /\ p.at = q.at /\ Controls(p.done) = n + Controls(q.done)
    BY <1>4, <1>6
  <2>2. l(Append(s, c)) = Lexed(p, c) /\ o(Append(s, c)) = Lexed(q, c) /\ Append(s, c) \in Seq(C)
    BY <1>4, Appended
  <2> HIDE DEF p, q
  <2>3. /\ Controls(q.done) \in Nat
        /\ Controls(Lexed(p, c).done) = (IF c = Control /\ p.at # AtOpen THEN Controls(p.done) + 1 ELSE Controls(p.done))
        /\ Controls(Lexed(q, c).done) = (IF c = Control /\ q.at # AtOpen THEN Controls(q.done) + 1 ELSE Controls(q.done))
    BY <2>1, LexedControls
  <2>4. Lexed(p, c).at = Lexed(q, c).at
    <3>1. Lexed(p, c).at = IF c = Quote THEN (IF p.at = AtOpen THEN AtClosed ELSE AtOpen)
                           ELSE IF p.at = AtOpen THEN AtOpen ELSE AtText
      BY CharactersDiffer DEF Lexed, Lexer
    <3>2. Lexed(q, c).at = IF c = Quote THEN (IF q.at = AtOpen THEN AtClosed ELSE AtOpen)
                           ELSE IF q.at = AtOpen THEN AtOpen ELSE AtText
      BY CharactersDiffer DEF Lexed, Lexer
    <3> QED
      BY <2>1, <3>1, <3>2
  <2>5. Controls(Lexed(p, c).done) = n + Controls(Lexed(q, c).done)
    BY <2>1, <2>3
  <2> QED
    BY <2>2, <2>4, <2>5
<1>7. t \in G
  <2> HIDE DEF G
  <2>1. \A s \in Seq(C) : s \in G
    BY <1>5, <1>6, AllSequences
  <2> QED
    BY <2>1 DEF Whole
<1>8. l(t) \in Lexers(C) /\ o(t).at # AtOpen /\ Controls(o(t).done) = 0
  BY <1>4 DEF Whole, Past, o
<1> QED
  BY <1>7, <1>8 DEF Past, l, step

\* The statements with a semicolon and a space behind each.
Texts(S) == [s \in S |-> StatementText(s) \o <<Semicolon, Space>>]

Separated(S, q) == FlattenSeq(Mapped(Texts(S), q))

Opening == <<Control, Semicolon, Space>>

ScriptOf(S, q) == Opening \o Separated(S, q) \o <<Control>>

\* The lexer of the opening.
LEMMA OpeningIsRead ==
  ASSUME NEW C, {Quote, Semicolon, Space, Control} \subseteq C
  PROVE  Opening \in Seq(C) /\ Between(C, LexOf(C, Opening), 1)
<1> DEFINE nothing == <<>>
<1> DEFINE a == Append(nothing, Control)
<1> DEFINE b == Append(a, Semicolon)
<1>1. nothing \in Seq(C) /\ Opening = Append(b, Space)
  BY Nothing DEF Opening
<1>2. Past(C, LexOf(C, nothing), 0)
  <2>1. FirstLexer.at = AtText /\ FirstLexer.done = <<>> /\ FirstLexer \in Lexers(C)
    BY LexMachine DEF FirstLexer, Lexer
  <2> QED
    BY <2>1, LexOn, NoControls, CharactersDiffer DEF Past
<1> HIDE DEF nothing
<1>3. a \in Seq(C) /\ Past(C, LexOf(C, a), 1)
  <2>1. LexOf(C, a) = Lexed(LexOf(C, nothing), Control) /\ a \in Seq(C)
    BY <1>1, LexOn, Appended
  <2>2. Between(C, Lexed(LexOf(C, nothing), Control), 0 + 1)
    BY <1>2, BetweenOn, CharactersDiffer
  <2> QED
    BY <2>1, <2>2 DEF Between
<1> HIDE DEF a
<1>4. b \in Seq(C) /\ Past(C, LexOf(C, b), 1)
  <2>1. LexOf(C, b) = Lexed(LexOf(C, a), Semicolon) /\ b \in Seq(C)
    BY <1>3, LexOn, Appended
  <2>2. Between(C, Lexed(LexOf(C, a), Semicolon), 1)
    BY <1>3, BetweenOn, CharactersDiffer
  <2> QED
    BY <2>1, <2>2 DEF Between
<1> HIDE DEF b
<1>5. Append(b, Space) \in Seq(C) /\ LexOf(C, Append(b, Space)) = Lexed(LexOf(C, b), Space)
  BY <1>4, LexOn, Appended
<1>6. Between(C, Lexed(LexOf(C, b), Space), 1)
  BY <1>4, BetweenOn, CharactersDiffer
<1> QED
  BY <1>1, <1>5, <1>6

\* The parts of a list of sequences, one behind the other.
LEMMA ListOn ==
  ASSUME NEW S, NEW C, NEW h \in [S -> Seq(C)]
  PROVE  /\ FlattenSeq(Mapped(h, <<>>)) = <<>>
         /\ \A q \in Seq(S) : FlattenSeq(Mapped(h, q)) \in Seq(C)
         /\ \A q \in Seq(S), s \in S : FlattenSeq(Mapped(h, Append(q, s))) = FlattenSeq(Mapped(h, q)) \o h[s]
<1> DEFINE B == Seq(C)
<1>1. MapsOn(h, S, B)
  <2> HIDE DEF B
  <2>1. h \in [S -> B]
    BY DEF B
  <2> QED
    BY <2>1, MapOn
<1>2. FlattenSeq(<<>>) = <<>> /\ \A q \in Seq(B) : FlattenSeq(q) \in B
  BY FlattenOn
<1>3. \A q \in Seq(B), t \in B : FlattenSeq(Append(q, t)) = FlattenSeq(q) \o t
  BY FlattenOn
<1>4. \A s \in S : h[s] \in B
  OBVIOUS
<1> HIDE DEF B
<1>5. /\ Mapped(h, <<>>) = <<>> /\ \A q \in Seq(S) : Mapped(h, q) \in Seq(B)
      /\ \A q \in Seq(S), s \in S : Mapped(h, Append(q, s)) = Append(Mapped(h, q), h[s])
  BY <1>1 DEF MapsOn
<1>6. \A q \in Seq(S) : FlattenSeq(Mapped(h, q)) \in B
  BY <1>2, <1>5
<1>7. \A q \in Seq(S), s \in S : FlattenSeq(Mapped(h, Append(q, s))) = FlattenSeq(Mapped(h, q)) \o h[s]
  BY <1>3, <1>4, <1>5
<1> QED
  BY <1>2, <1>5, <1>6, <1>7 DEF B

\* A script of whole statements has two words of control.
LEMMA ScriptIsRead ==
  ASSUME NEW C, {Quote, Semicolon, Space, Control} \subseteq C,
         NEW S, \A s \in S : Whole(C, StatementText(s)), NEW q \in Seq(S)
  PROVE  ScriptOf(S, q) \in Seq(C) /\ Past(C, LexOf(C, ScriptOf(S, q)), 2)
<1> DEFINE step == LexStep(C)
<1> DEFINE st == LexOf(C, Opening)
<1> DEFINE h == Texts(S)
<1> DEFINE flat(p) == FlattenSeq(Mapped(h, p))
<1> DEFINE sep == <<Semicolon, Space>>
<1>1. Opening \in Seq(C) /\ Between(C, st, 1) /\ st \in Lexers(C)
  BY OpeningIsRead DEF Between, Past
<1>2. sep \in Seq(C)
  OBVIOUS
<1> HIDE DEF sep
<1>3. \A s \in S : StatementText(s) \in Seq(C) /\ h[s] = StatementText(s) \o sep
  BY DEF Whole, Texts, sep
<1>4. h \in [S -> Seq(C)]
  <2>1. \A s \in S : StatementText(s) \o sep \in Seq(C)
    BY <1>2, <1>3, Behind
  <2> QED
    BY <2>1 DEF Texts, sep
<1> HIDE DEF h
<1>5. /\ flat(<<>>) = <<>> /\ \A p \in Seq(S) : flat(p) \in Seq(C)
      /\ \A p \in Seq(S), s \in S : flat(Append(p, s)) = flat(p) \o h[s]
  BY <1>4, ListOn
<1>6. Machine(step, Lexers(C), C)
  BY LexMachine
<1> HIDE DEF flat, st
<1> DEFINE G == {p \in Seq(S) : Between(C, Walk(step, st, flat(p)), 1)}
<1>7. <<>> \in G
  <2>1. Walk(step, st, <<>>) = st
    <3> HIDE DEF step
    <3> QED
      BY <1>1, <1>6, WalkOn
  <2> QED
    BY <1>1, <1>5, <2>1, Nothing
<1>8. ASSUME NEW p \in Seq(S), NEW s \in S, p \in G PROVE Append(p, s) \in G
  <2> DEFINE t == StatementText(s)
  <2> DEFINE u == Walk(step, st, flat(p))
  <2> DEFINE f == flat(p)
  <2> DEFINE v == t \o sep
  <2>1. f \in Seq(C) /\ t \in Seq(C) /\ flat(Append(p, s)) = f \o v
    BY <1>3, <1>5
  <2>2. Between(C, u, 1) /\ u \in Lexers(C)
    BY <1>8 DEF Between, Past
  <2>3. Past(C, Walk(step, u, t), 1)
    BY <2>2, WholeIsRead
  <2>4. Between(C, Walk(step, Walk(step, u, t), sep), 1)
    BY <2>3, SeparatorIsRead DEF sep
  <2> HIDE DEF step, t, f
  <2>5. v \in Seq(C) /\ Walk(step, u, v) = Walk(step, Walk(step, u, t), sep)
    BY <1>2, <1>6, <2>1, <2>2, WalkThrough, Behind
  <2> HIDE DEF v
  <2>6. Walk(step, st, f \o v) = Walk(step, Walk(step, st, f), v)
    BY <1>1, <1>6, <2>1, <2>5, WalkThrough
  <2>7. Walk(step, st, f \o v) = Walk(step, Walk(step, u, t), sep)
    BY <2>5, <2>6 DEF f
  <2>8. Append(p, s) \in Seq(S)
    BY Appended
  <2> QED
    BY <2>1, <2>4, <2>7, <2>8
<1>9. q \in G
  <2> HIDE DEF G
  <2>1. \A p \in Seq(S) : p \in G
    BY <1>7, <1>8, AllSequences
  <2> QED
    BY <2>1
<1> DEFINE body == flat(q)
<1> DEFINE text == Opening \o body
<1>10. body \in Seq(C) /\ text \in Seq(C) /\ text \o <<Control>> = Append(text, Control) /\ Append(text, Control) \in Seq(C)
  BY <1>1, <1>5, Behind, Appended
<1>11. ScriptOf(S, q) = text \o <<Control>>
  BY DEF ScriptOf, Separated, flat, h
<1>12. Between(C, Walk(step, st, body), 1)
  BY <1>9
<1> HIDE DEF body
<1>13. LexOf(C, text) = Walk(step, st, body)
  BY <1>1, <1>10, LexOn DEF st
<1> HIDE DEF text
<1>14. LexOf(C, Append(text, Control)) = Lexed(LexOf(C, text), Control)
  BY <1>10, LexOn
<1>15. Past(C, LexOf(C, text), 1)
  BY <1>12, <1>13 DEF Between
<1> DEFINE l == Lexed(LexOf(C, text), Control)
<1>16. Between(C, l, 1 + 1)
  BY <1>15, BetweenOn, CharactersDiffer
<1> HIDE DEF l
<1>17. 1 + 1 = 2
  OBVIOUS
<1>18. Past(C, l, 2)
  BY <1>16, <1>17 DEF Between
<1> QED
  BY <1>10, <1>11, <1>14, <1>18 DEF l

-----------------------------------------------------------------------------
(* Binding a script is binding its statements one by one.                  *)

\* Three sequences, one behind the other.
LEMMA Associates ==
  ASSUME NEW C, NEW r \in Seq(C), NEW s \in Seq(C), NEW t \in Seq(C)
  PROVE  r \o (s \o t) = (r \o s) \o t
OBVIOUS

\* The binder behind a text o and k arguments.
Later(o, k, st) == Binder(o \o st.out, k + st.next, st.phase)

\* The arguments are those of all behind the first k.
Within(args, all, k) == \A j \in 1..Len(args) : k + j <= Len(all) /\ all[k + j] = args[j]

\* It does there what it does with these arguments alone.
LEMMA LaterOn ==
  ASSUME NEW C, Quote \in C, NEW V, \A v \in V : Bindable(C, v), NEW args \in Seq(V), NEW all \in Seq(V),
         NEW k \in Nat, Within(args, all, k), NEW o \in Seq(C), NEW st \in Binders(C), NEW c \in C,
         Bound(args, st, c).phase # Stuck
  PROVE  Bound(all, Later(o, k, st), c) = Later(o, k, Bound(args, st, c))
<1> DEFINE t == o \o st.out
<1> DEFINE l == Later(o, k, st)
<1>1. st.out \in Seq(C) /\ st.next \in Nat /\ st.phase # Stuck
  BY BinderIs, StuckStays
<1>2. l.out = t /\ l.next = k + st.next /\ l.phase = st.phase
  <2> HIDE DEF t
  <2> QED
    BY DEF Later, Binder, t
<1> HIDE DEF l
<1>3. ASSUME NEW d \in C PROVE o \o Append(st.out, d) = Append(t, d)
  <2>1. \A r \in Seq(C) : o \o Append(r, d) = Append(o \o r, d)
    BY Behind
  <2> QED
    BY <1>1, <2>1
<1> HIDE DEF t
<1>4. CASE c = Quote
  <2> DEFINE p == IF st.phase = Inside THEN Outside ELSE Inside
  <2> DEFINE x == Append(st.out, Quote)
  <2>1. Bound(args, st, c) = Binder(x, st.next, p)
    BY <1>1, <1>4 DEF Bound
  <2>2. Bound(all, l, c) = Binder(Append(t, Quote), k + st.next, p)
    BY <1>1, <1>2, <1>4 DEF Bound
  <2>3. o \o x = Append(t, Quote)
    BY <1>3
  <2> HIDE DEF x, p
  <2>4. Later(o, k, Binder(x, st.next, p)) = Binder(o \o x, k + st.next, p)
    BY DEF Later, Binder
  <2> QED
    BY <2>1, <2>2, <2>3, <2>4 DEF l
<1>5. CASE c # Quote /\ (st.phase = Inside \/ c # Mark)
  <2> DEFINE x == Append(st.out, c)
  <2>1. Bound(args, st, c) = Binder(x, st.next, st.phase)
    BY <1>1, <1>5 DEF Bound
  <2>2. Bound(all, l, c) = Binder(Append(t, c), k + st.next, st.phase)
    BY <1>1, <1>2, <1>5 DEF Bound
  <2>3. o \o x = Append(t, c)
    BY <1>3
  <2> HIDE DEF x
  <2>4. Later(o, k, Binder(x, st.next, st.phase)) = Binder(o \o x, k + st.next, st.phase)
    BY DEF Later, Binder
  <2> QED
    BY <2>1, <2>2, <2>3, <2>4 DEF l
<1>6. CASE c # Quote /\ st.phase # Inside /\ c = Mark
  <2> DEFINE w == SQLLiteral(args[st.next + 1]).is
  <2> DEFINE x == st.out \o w
  <2>1. CanBind(args, st.next)
    <3>1. ASSUME ~CanBind(args, st.next) PROVE FALSE
      <4>1. Bound(args, st, c) = Binder(st.out, st.next, Stuck)
        BY <1>1, <1>6, <3>1 DEF Bound
      <4> QED
        BY <4>1 DEF Binder
    <3> QED
      BY <3>1
  <2>2. st.next + 1 \in 1..Len(args) /\ SQLLiteral(args[st.next + 1]).ok
    BY <1>1, <2>1 DEF CanBind
  <2>3. all[k + st.next + 1] = args[st.next + 1] /\ k + st.next < Len(all)
    BY <1>1, <2>2 DEF Within
  <2>4. CanBind(all, k + st.next)
    BY <2>2, <2>3 DEF CanBind
  <2>5. Bound(args, st, c) = Binder(x, st.next + 1, Outside)
    BY <1>1, <1>6, <2>1 DEF Bound
  <2>6. Bound(all, l, c) = Binder(t \o w, k + st.next + 1, Outside)
    BY <1>1, <1>2, <1>6, <2>3, <2>4 DEF Bound
  <2>7. w \in Seq(C)
    <3>1. args[st.next + 1] \in V
      BY <2>2
    <3> QED
      BY <2>2, <3>1, SpelledTypes
  <2> HIDE DEF w
  <2>8. o \o x = t \o w
    <3>1. \A r \in Seq(C) : o \o (r \o w) = (o \o r) \o w
      BY <2>7, Associates
    <3>2. o \o (st.out \o w) = (o \o st.out) \o w
      BY <1>1, <3>1
    <3> QED
      BY <3>2 DEF t
  <2>9. k + (st.next + 1) = k + st.next + 1
    BY <1>1
  <2> HIDE DEF x
  <2>10. Later(o, k, Binder(x, st.next + 1, Outside)) = Binder(o \o x, k + (st.next + 1), Outside)
    BY DEF Later, Binder
  <2> QED
    BY <2>5, <2>6, <2>8, <2>9, <2>10 DEF l
<1> QED
  BY <1>4, <1>5, <1>6 DEF l

\* The binder of a longer text.
LEMMA BindOn ==
  ASSUME NEW C, Quote \in C, NEW V, \A v \in V : Bindable(C, v), NEW args \in Seq(V)
  PROVE  /\ BindOf(C, args, <<>>) = FirstBinder
         /\ \A s \in Seq(C) : BindOf(C, args, s) \in Binders(C)
         /\ \A s \in Seq(C), c \in C : BindOf(C, args, Append(s, c)) = Bound(args, BindOf(C, args, s), c)
         /\ \A s \in Seq(C), t \in Seq(C) :
              BindOf(C, args, s \o t) = Walk(BindStep(C, args), BindOf(C, args, s), t)
<1> DEFINE bind == BindStep(C, args)
<1>1. /\ Machine(bind, Binders(C), C) /\ FirstBinder \in Binders(C)
      /\ \A st \in Binders(C), c \in C : bind[<<st, c>>] = Bound(args, st, c)
  BY BindMachine
<1> HIDE DEF bind
<1>2. Walk(bind, FirstBinder, <<>>) = FirstBinder
  BY <1>1, WalkOn
<1>3. ASSUME NEW s \in Seq(C) PROVE Walk(bind, FirstBinder, s) \in Binders(C)
  BY <1>1, WalkOn
<1>4. ASSUME NEW s \in Seq(C), NEW c \in C
      PROVE  Walk(bind, FirstBinder, Append(s, c)) = Bound(args, Walk(bind, FirstBinder, s), c)
  <2>1. Walk(bind, FirstBinder, Append(s, c)) = bind[<<Walk(bind, FirstBinder, s), c>>]
    BY <1>1, WalkOn
  <2> QED
    BY <1>1, <1>3, <2>1
<1>5. ASSUME NEW s \in Seq(C), NEW t \in Seq(C)
      PROVE  Walk(bind, FirstBinder, s \o t) = Walk(bind, Walk(bind, FirstBinder, s), t)
  BY <1>1, WalkThrough
<1> QED
  BY <1>2, <1>3, <1>4, <1>5 DEF BindOf, bind

\* What it makes of a text behind o it makes of the text alone.
LEMMA LaterThrough ==
  ASSUME NEW C, Quote \in C, NEW V, \A v \in V : Bindable(C, v), NEW args \in Seq(V), NEW all \in Seq(V),
         NEW k \in Nat, Within(args, all, k), NEW o \in Seq(C)
  PROVE  \A t \in Seq(C) :
           BindOf(C, args, t).phase # Stuck =>
             Walk(BindStep(C, all), Binder(o, k, Outside), t) = Later(o, k, BindOf(C, args, t))
<1> DEFINE step == BindStep(C, all)
<1> DEFINE st == Binder(o, k, Outside)
<1> DEFINE w(t) == Walk(step, st, t)
<1> DEFINE b(t) == BindOf(C, args, t)
<1>1. st \in Binders(C)
  BY BinderIs
<1>2. Machine(step, Binders(C), C) /\ \A u \in Binders(C), c \in C : step[<<u, c>>] = Bound(all, u, c)
  BY BindMachine
<1>3. w(<<>>) = st
  <2> HIDE DEF step, st
  <2> QED
    BY <1>1, <1>2, WalkOn
<1>4. ASSUME NEW t \in Seq(C) PROVE w(t) \in Binders(C) /\ \A c \in C : w(Append(t, c)) = Bound(all, w(t), c)
  <2>1. w(t) \in Binders(C) /\ \A c \in C : w(Append(t, c)) = step[<<w(t), c>>]
    <3> HIDE DEF step, st
    <3> QED
      BY <1>1, <1>2, WalkOn
  <2> HIDE DEF w
  <2> QED
    BY <1>2, <2>1
<1>5. b(<<>>) = FirstBinder
  BY BindOn
<1>6. ASSUME NEW t \in Seq(C) PROVE b(t) \in Binders(C) /\ \A c \in C : b(Append(t, c)) = Bound(args, b(t), c)
  BY BindOn
<1> HIDE DEF w, b
<1> DEFINE G == {t \in Seq(C) : b(t).phase # Stuck => w(t) = Later(o, k, b(t))}
<1>7. <<>> \in G
  <2>1. FirstBinder.out = <<>> /\ FirstBinder.next = 0 /\ FirstBinder.phase = Outside
    BY DEF FirstBinder, Binder
  <2>2. o \o <<>> = o /\ k + 0 = k
    OBVIOUS
  <2>3. Later(o, k, FirstBinder) = st
    BY <2>1, <2>2 DEF Later
  <2> QED
    BY <1>3, <1>5, <2>3, Nothing
<1>8. ASSUME NEW t \in Seq(C), NEW c \in C, t \in G PROVE Append(t, c) \in G
  <2>1. Append(t, c) \in Seq(C)
    BY Appended
  <2>2. ASSUME b(Append(t, c)).phase # Stuck PROVE w(Append(t, c)) = Later(o, k, b(Append(t, c)))
    <3>1. b(t) \in Binders(C) /\ b(Append(t, c)) = Bound(args, b(t), c)
      BY <1>6
    <3>2. Bound(args, b(t), c).phase # Stuck /\ b(t).phase # Stuck
      BY <2>2, <3>1, StuckStays
    <3>3. w(t) = Later(o, k, b(t))
      BY <1>8, <3>2
    <3>4. Bound(all, Later(o, k, b(t)), c) = Later(o, k, Bound(args, b(t), c))
      BY <3>1, <3>2, LaterOn
    <3> QED
      BY <1>4, <3>1, <3>3, <3>4
  <2> QED
    BY <2>1, <2>2
<1>9. \A t \in Seq(C) : t \in G
  <2> HIDE DEF G
  <2> QED
    BY <1>7, <1>8, AllSequences
<1> QED
  BY <1>9 DEF w, b, step, st

\* What is neither a quote nor a placeholder passes the binder.
Passes(C, args, o, k) ==
  \A t \in Seq(C \ {Quote, Mark}) :
    t \in Seq(C) /\ Walk(BindStep(C, args), Binder(o, k, Outside), t) = Binder(o \o t, k, Outside)

\* It does, behind every text and all arguments.
LEMMA PlainIsBound ==
  ASSUME NEW C, Quote \in C, NEW V, \A v \in V : Bindable(C, v), NEW args \in Seq(V),
         NEW o \in Seq(C), NEW k \in Nat
  PROVE  Passes(C, args, o, k)
<1> DEFINE D == C \ {Quote, Mark}
<1> DEFINE step == BindStep(C, args)
<1> DEFINE st == Binder(o, k, Outside)
<1> DEFINE w(t) == Walk(step, st, t)
<1>1. st \in Binders(C)
  BY BinderIs
<1>2. Machine(step, Binders(C), C) /\ \A u \in Binders(C), c \in C : step[<<u, c>>] = Bound(args, u, c)
  BY BindMachine
<1>3. w(<<>>) = st
  <2> HIDE DEF step, st
  <2> QED
    BY <1>1, <1>2, WalkOn
<1>4. ASSUME NEW t \in Seq(C) PROVE w(t) \in Binders(C) /\ \A c \in C : w(Append(t, c)) = Bound(args, w(t), c)
  <2>1. w(t) \in Binders(C) /\ \A c \in C : w(Append(t, c)) = step[<<w(t), c>>]
    <3> HIDE DEF step, st
    <3> QED
      BY <1>1, <1>2, WalkOn
  <2> HIDE DEF w
  <2> QED
    BY <1>2, <2>1
<1>5. \A c \in D : c \in C /\ c # Quote /\ c # Mark
  OBVIOUS
<1> HIDE DEF w, D
<1> DEFINE G == {t \in Seq(C) : w(t) = Binder(o \o t, k, Outside)}
<1>6. <<>> \in G
  <2>1. o \o <<>> = o
    OBVIOUS
  <2> QED
    BY <1>3, <2>1, Nothing
<1>7. ASSUME NEW t \in Seq(D), NEW c \in D, t \in G PROVE Append(t, c) \in G
  <2> DEFINE x == o \o t
  <2>1. t \in Seq(C) /\ w(t) = Binder(x, k, Outside) /\ c \in C /\ c # Quote /\ c # Mark
    BY <1>5, <1>7
  <2>2. Append(t, c) \in Seq(C) /\ o \o Append(t, c) = Append(x, c)
    BY <2>1, Appended, Behind
  <2> HIDE DEF x
  <2> DEFINE b == Binder(x, k, Outside)
  <2>3. b.out = x /\ b.next = k /\ b.phase = Outside
    BY DEF Binder
  <2> HIDE DEF b
  <2>4. Bound(args, b, c) = Binder(Append(x, c), k, Outside)
    BY <2>1, <2>3, PhasesDiffer DEF Bound
  <2>5. w(Append(t, c)) = Bound(args, b, c)
    BY <1>4, <2>1 DEF b
  <2> QED
    BY <2>2, <2>4, <2>5
<1>8. \A t \in Seq(D) : t \in G
  <2> HIDE DEF G
  <2> QED
    BY <1>6, <1>7, AllSequences
<1> QED
  BY <1>8 DEF Passes, w, D, step, st

\* Without arguments there is nothing to bind: the text stays as it is.
LEMMA NothingToBind ==
  ASSUME NEW C, Quote \in C
  PROVE  \A t \in Seq(C) : BindOf(C, <<>>, t).phase # Stuck => BindOf(C, <<>>, t).out = t
<1> DEFINE args == <<>>
<1> DEFINE V == {}
<1> DEFINE b(t) == BindOf(C, args, t)
<1>1. args \in Seq(V) /\ \A k \in Nat : ~CanBind(args, k)
  <2>1. args \in Seq(V)
    BY Nothing
  <2>2. Len(args) = 0
    OBVIOUS
  <2> HIDE DEF args
  <2> QED
    BY <2>1, <2>2 DEF CanBind
<1>2. \A v \in V : Bindable(C, v)
  OBVIOUS
<1> HIDE DEF args, V
<1>3. /\ b(<<>>) = FirstBinder
      /\ \A t \in Seq(C) : b(t) \in Binders(C) /\ \A c \in C : b(Append(t, c)) = Bound(args, b(t), c)
  BY <1>1, <1>2, BindOn
<1> HIDE DEF b
<1> DEFINE G == {t \in Seq(C) : b(t).phase # Stuck => b(t).out = t}
<1>4. <<>> \in G
  <2>1. FirstBinder.out = <<>>
    BY DEF FirstBinder, Binder
  <2> QED
    BY <1>3, <2>1, Nothing
<1>5. ASSUME NEW t \in Seq(C), NEW c \in C, t \in G PROVE Append(t, c) \in G
  <2>1. Append(t, c) \in Seq(C)
    BY Appended
  <2>2. ASSUME b(Append(t, c)).phase # Stuck PROVE b(Append(t, c)).out = Append(t, c)
    <3> DEFINE st == b(t)
    <3>1. st \in Binders(C) /\ b(Append(t, c)) = Bound(args, st, c)
      BY <1>3
    <3>2. Bound(args, st, c).phase # Stuck /\ st.phase # Stuck /\ st.next \in Nat
      BY <2>2, <3>1, StuckStays, BinderIs
    <3>3. st.out = t
      BY <1>5, <3>2
    <3> HIDE DEF st
    <3>4. ~CanBind(args, st.next)
      BY <1>1, <3>2
    <3>5. Bound(args, st, c).out = Append(st.out, c)
      <4>1. CASE c = Quote
        <5> DEFINE x == Append(st.out, Quote)
        <5> DEFINE p == IF st.phase = Inside THEN Outside ELSE Inside
        <5>1. Bound(args, st, c) = Binder(x, st.next, p)
          BY <3>2, <4>1 DEF Bound
        <5> HIDE DEF x, p
        <5> QED
          BY <4>1, <5>1 DEF Binder, x
      <4>2. CASE c # Quote /\ (st.phase = Inside \/ c # Mark)
        <5> DEFINE x == Append(st.out, c)
        <5>1. Bound(args, st, c) = Binder(x, st.next, st.phase)
          BY <3>2, <4>2 DEF Bound
        <5> HIDE DEF x
        <5> QED
          BY <5>1 DEF Binder, x
      <4>3. CASE c # Quote /\ st.phase # Inside /\ c = Mark
        <5>1. Bound(args, st, c) = Binder(st.out, st.next, Stuck)
          BY <3>2, <3>4, <4>3 DEF Bound
        <5>2. Bound(args, st, c).phase = Stuck
          BY <5>1 DEF Binder
        <5> QED
          BY <3>2, <5>2
      <4> QED
        BY <4>1, <4>2, <4>3
    <3> QED
      BY <3>1, <3>3, <3>5
  <2> QED
    BY <2>1, <2>2
<1>6. \A t \in Seq(C) : t \in G
  <2> HIDE DEF G
  <2> QED
    BY <1>4, <1>5, AllSequences
<1> QED
  BY <1>6 DEF b, args

\* The arguments of the statements, in one list.
Given(S) == [s \in S |-> s.args]

ParamsOf(S, q) == FlattenSeq(Mapped(Given(S), q))

\* The statements bound one by one, each with a semicolon and a space behind it.
BoundText(s) == BindParams(StatementText(s), s.args).is

BoundTexts(S) == [s \in S |-> BoundText(s) \o <<Semicolon, Space>>]

BoundOnes(S, q) == FlattenSeq(Mapped(BoundTexts(S), q))

\* A statement and its arguments.
Statement(C, V, s) == StatementText(s) \in Seq(C) /\ s.args \in Seq(V)

\* What the binder makes of s with its separator, behind o and k arguments.
BoundBehind(C, all, s, k, o) ==
  /\ BoundText(s) \o <<Semicolon, Space>> \in Seq(C) /\ StatementText(s) \o <<Semicolon, Space>> \in Seq(C)
  /\ Walk(BindStep(C, all), Binder(o, k, Outside), StatementText(s) \o <<Semicolon, Space>>)
       = Binder(o \o (BoundText(s) \o <<Semicolon, Space>>), k + Len(s.args), Outside)

\* Values, and statements each of which can be bound.
Scripts(C, V, S) ==
  /\ {Quote, Semicolon, Space, Control} \subseteq C
  /\ \A v \in V : Bindable(C, v)
  /\ \A s \in S : Statement(C, V, s) /\ BindParams(StatementText(s), s.args).ok

\* Behind a text a statement that can be bound is bound as it is alone.
LEMMA StatementIsBound ==
  ASSUME NEW C, {Quote, Semicolon, Space} \subseteq C, NEW V, \A v \in V : Bindable(C, v), NEW all \in Seq(V),
         NEW s, Statement(C, V, s), BindParams(StatementText(s), s.args).ok, NEW k \in Nat, Within(s.args, all, k), NEW o \in Seq(C)
  PROVE  BoundBehind(C, all, s, k, o)
<1> DEFINE t == StatementText(s)
<1> DEFINE args == s.args
<1> DEFINE b == BindOf(C, args, t)
<1> DEFINE step == BindStep(C, all)
<1> DEFINE st == Binder(o, k, Outside)
<1> DEFINE sep == <<Semicolon, Space>>
<1> DEFINE w == BoundText(s)
<1> DEFINE D == C \ {Quote, Mark}
<1>1. t \in Seq(C) /\ args \in Seq(V)
  BY DEF Statement
<1>2. sep \in Seq(D) /\ sep \in Seq(C)
  <2>1. Semicolon \in D /\ Space \in D
    BY CharactersDiffer
  <2> HIDE DEF D
  <2> QED
    BY <2>1
<1>3. BindParams(t, args) = IF b.phase = Outside /\ b.next = Len(args) THEN Ok(b.out) ELSE Refused
  BY <1>1, BindIsAWalk
<1>4. BindParams(t, args).ok /\ w = BindParams(t, args).is
  BY DEF BoundText
<1>5. b \in Binders(C)
  BY <1>1, BindOn
<1>6. BindOf(C, args, t).phase # Stuck => Walk(step, st, t) = Later(o, k, b)
  BY <1>1, LaterThrough
<1>7. Machine(step, Binders(C), C) /\ st \in Binders(C)
  BY BindMachine, BinderIs
<1> HIDE DEF step, sep, D, b, w
<1>8. b.phase = Outside /\ b.next = Len(args) /\ b.out = w /\ w \in Seq(C)
  <2>1. b.phase = Outside /\ b.next = Len(args)
    BY <1>3, <1>4 DEF Refused
  <2>2. BindParams(t, args) = Ok(b.out)
    BY <1>3, <2>1
  <2>3. w = b.out
    BY <1>4, <2>2 DEF Ok
  <2> QED
    BY <1>5, <2>1, <2>3, BinderIs
<1> DEFINE mid == o \o w
<1> DEFINE n == k + Len(args)
<1>9. Walk(step, st, t) = Binder(mid, n, Outside)
  BY <1>6, <1>8, PhasesDiffer DEF Later, b
<1>10. mid \in Seq(C) /\ n \in Nat /\ w \o sep \in Seq(C) /\ t \o sep \in Seq(C)
  BY <1>1, <1>2, <1>8, Behind
<1>11. o \o (w \o sep) = mid \o sep
  <2> HIDE DEF mid, n, t, args, st
  <2>1. o \in Seq(C) /\ w \in Seq(C) /\ sep \in Seq(C)
    BY <1>2, <1>8
  <2>2. o \o (w \o sep) = (o \o w) \o sep
    BY <2>1, Associates
  <2> QED
    BY <2>2 DEF mid
<1> HIDE DEF mid, n, t
<1>12. Walk(step, Binder(mid, n, Outside), sep) = Binder(mid \o sep, n, Outside)
  <2> HIDE DEF args, st
  <2>1. Quote \in C /\ mid \in Seq(C) /\ n \in Nat
    BY <1>10
  <2>2. Passes(C, all, mid, n)
    BY <2>1, PlainIsBound
  <2> QED
    BY <1>2, <2>2 DEF Passes, step, D
<1> HIDE DEF st
<1>13. Walk(step, st, t \o sep) = Walk(step, Walk(step, st, t), sep)
  BY <1>1, <1>2, <1>7, WalkThrough
<1>14. Walk(step, st, t \o sep) = Binder(o \o (w \o sep), n, Outside)
  BY <1>9, <1>11, <1>12, <1>13
<1> QED
  BY <1>10, <1>14 DEF BoundBehind, step, st, t, sep, w, n

\* What is behind another list is behind more arguments.
LEMMA WithinBoth ==
  ASSUME NEW V, NEW a \in Seq(V), NEW b \in Seq(V), NEW all \in Seq(V), Within(a \o b, all, 0)
  PROVE  Within(a, all, 0) /\ Within(b, all, Len(a)) /\ Len(a \o b) = Len(a) + Len(b) /\ a \o b \in Seq(V)
<1>1. /\ Len(a \o b) = Len(a) + Len(b) /\ a \o b \in Seq(V) /\ Len(a) \in Nat /\ Len(b) \in Nat
      /\ \A i \in 1..Len(a) : (a \o b)[i] = a[i]
      /\ \A i \in 1..Len(b) : (a \o b)[Len(a) + i] = b[i]
  OBVIOUS
<1>2. \A j \in 1..Len(a) + Len(b) : j <= Len(all) /\ all[j] = (a \o b)[j]
  BY <1>1 DEF Within
<1>3. \A j \in 1..Len(a) : j \in 1..Len(a) + Len(b) /\ 0 + j = j
  BY <1>1
<1>4. \A j \in 1..Len(b) : Len(a) + j \in 1..Len(a) + Len(b)
  BY <1>1
<1>5. Within(a, all, 0)
  BY <1>1, <1>2, <1>3 DEF Within
<1>6. Within(b, all, Len(a))
  BY <1>1, <1>2, <1>4 DEF Within
<1> QED
  BY <1>1, <1>5, <1>6

\* The three lists of no statement, and of one statement more.
ListsOn(C, V, S) ==
  /\ ParamsOf(S, <<>>) = <<>> /\ Separated(S, <<>>) = <<>> /\ BoundOnes(S, <<>>) = <<>>
  /\ \A q \in Seq(S) : ParamsOf(S, q) \in Seq(V) /\ Separated(S, q) \in Seq(C) /\ BoundOnes(S, q) \in Seq(C)
  /\ \A q \in Seq(S), s \in S :
       /\ ParamsOf(S, Append(q, s)) = ParamsOf(S, q) \o s.args
       /\ Separated(S, Append(q, s)) = Separated(S, q) \o (StatementText(s) \o <<Semicolon, Space>>)
       /\ BoundOnes(S, Append(q, s)) = BoundOnes(S, q) \o (BoundText(s) \o <<Semicolon, Space>>)

\* One statement after the other.
LEMMA StatementLists ==
  ASSUME NEW C, NEW V, NEW S, Scripts(C, V, S)
  PROVE  ListsOn(C, V, S)
<1>0. /\ {Quote, Semicolon, Space} \subseteq C /\ (\A v \in V : Bindable(C, v))
      /\ \A s \in S : Statement(C, V, s) /\ BindParams(StatementText(s), s.args).ok
  BY DEF Scripts
<1>1. Given(S) \in [S -> Seq(V)] /\ \A s \in S : Given(S)[s] = s.args
  BY <1>0 DEF Statement, Given
<1>2. ASSUME NEW s \in S
      PROVE  BoundText(s) \o <<Semicolon, Space>> \in Seq(C) /\ StatementText(s) \o <<Semicolon, Space>> \in Seq(C)
  <2>1. Within(s.args, s.args, 0) /\ s.args \in Seq(V) /\ <<>> \in Seq(C)
    BY <1>0, Nothing DEF Statement, Within
  <2>2. BoundBehind(C, s.args, s, 0, <<>>)
    BY <1>0, <2>1, StatementIsBound
  <2> QED
    BY <2>2 DEF BoundBehind
<1>3. /\ Texts(S) \in [S -> Seq(C)] /\ BoundTexts(S) \in [S -> Seq(C)]
      /\ \A s \in S : /\ Texts(S)[s] = StatementText(s) \o <<Semicolon, Space>>
                      /\ BoundTexts(S)[s] = BoundText(s) \o <<Semicolon, Space>>
  BY <1>2 DEF Texts, BoundTexts
<1>4. /\ ParamsOf(S, <<>>) = <<>> /\ \A q \in Seq(S) : ParamsOf(S, q) \in Seq(V)
      /\ \A q \in Seq(S), s \in S : ParamsOf(S, Append(q, s)) = ParamsOf(S, q) \o Given(S)[s]
  BY <1>1, ListOn DEF ParamsOf
<1>5. /\ Separated(S, <<>>) = <<>> /\ \A q \in Seq(S) : Separated(S, q) \in Seq(C)
      /\ \A q \in Seq(S), s \in S : Separated(S, Append(q, s)) = Separated(S, q) \o Texts(S)[s]
  BY <1>3, ListOn DEF Separated
<1>6. /\ BoundOnes(S, <<>>) = <<>> /\ \A q \in Seq(S) : BoundOnes(S, q) \in Seq(C)
      /\ \A q \in Seq(S), s \in S : BoundOnes(S, Append(q, s)) = BoundOnes(S, q) \o BoundTexts(S)[s]
  BY <1>3, ListOn DEF BoundOnes
<1>7. ASSUME NEW q \in Seq(S), NEW s \in S
      PROVE  /\ ParamsOf(S, Append(q, s)) = ParamsOf(S, q) \o s.args
             /\ Separated(S, Append(q, s)) = Separated(S, q) \o (StatementText(s) \o <<Semicolon, Space>>)
             /\ BoundOnes(S, Append(q, s)) = BoundOnes(S, q) \o (BoundText(s) \o <<Semicolon, Space>>)
  <2>1. ParamsOf(S, Append(q, s)) = ParamsOf(S, q) \o s.args
    BY <1>1, <1>4
  <2>2. Separated(S, Append(q, s)) = Separated(S, q) \o (StatementText(s) \o <<Semicolon, Space>>)
    BY <1>3, <1>5
  <2>3. BoundOnes(S, Append(q, s)) = BoundOnes(S, q) \o (BoundText(s) \o <<Semicolon, Space>>)
    BY <1>3, <1>6
  <2> QED
    BY <2>1, <2>2, <2>3
<1> QED
  BY <1>4, <1>5, <1>6, <1>7 DEF ListsOn

\* The binder behind the statements of a script.
LEMMA SeparatedIsBound ==
  ASSUME NEW C, NEW V, NEW S, Scripts(C, V, S),
         NEW all \in Seq(V)
  PROVE  \A q \in Seq(S) :
           Within(ParamsOf(S, q), all, 0) =>
             Walk(BindStep(C, all), Binder(Opening, 0, Outside), Separated(S, q))
               = Binder(Opening \o BoundOnes(S, q), Len(ParamsOf(S, q)), Outside)
<1> DEFINE step == BindStep(C, all)
<1> DEFINE st == Binder(Opening, 0, Outside)
<1> DEFINE w(q) == Walk(step, st, Separated(S, q))
<1> DEFINE o(q) == Opening \o BoundOnes(S, q)
<1> DEFINE n(q) == Len(ParamsOf(S, q))
<1>0. /\ {Quote, Semicolon, Space, Control} \subseteq C /\ {Quote, Semicolon, Space} \subseteq C /\ Quote \in C
      /\ \A v \in V : Bindable(C, v)
      /\ \A s \in S : Statement(C, V, s) /\ BindParams(StatementText(s), s.args).ok
  BY DEF Scripts
<1>1. Opening \in Seq(C)
  BY <1>0, OpeningIsRead
<1>2. Machine(step, Binders(C), C) /\ st \in Binders(C)
  BY <1>0, <1>1, BindMachine, BinderIs
<1>3. /\ ParamsOf(S, <<>>) = <<>> /\ Separated(S, <<>>) = <<>> /\ BoundOnes(S, <<>>) = <<>>
      /\ \A q \in Seq(S) : ParamsOf(S, q) \in Seq(V) /\ Separated(S, q) \in Seq(C) /\ BoundOnes(S, q) \in Seq(C)
      /\ \A q \in Seq(S), s \in S :
           /\ ParamsOf(S, Append(q, s)) = ParamsOf(S, q) \o s.args
           /\ Separated(S, Append(q, s)) = Separated(S, q) \o (StatementText(s) \o <<Semicolon, Space>>)
           /\ BoundOnes(S, Append(q, s)) = BoundOnes(S, q) \o (BoundText(s) \o <<Semicolon, Space>>)
  <2>1. ListsOn(C, V, S)
    BY StatementLists
  <2> QED
    BY <2>1 DEF ListsOn
<1> DEFINE G == {q \in Seq(S) : Within(ParamsOf(S, q), all, 0) => w(q) = Binder(o(q), n(q), Outside)}
<1>4. <<>> \in G
  <2>1. Opening \o <<>> = Opening /\ Len(<<>>) = 0
    BY <1>1, Behind
  <2>2. Walk(step, st, <<>>) = st
    <3> HIDE DEF step, st
    <3> QED
      BY <1>2, WalkOn
  <2>3. o(<<>>) = Opening /\ n(<<>>) = 0 /\ w(<<>>) = st
    BY <1>3, <2>1, <2>2
  <2> QED
    BY <2>3, Nothing
<1>5. ASSUME NEW q \in Seq(S), NEW s \in S, q \in G PROVE Append(q, s) \in G
  <2> DEFINE t == StatementText(s) \o <<Semicolon, Space>>
  <2> DEFINE b == BoundText(s) \o <<Semicolon, Space>>
  <2> DEFINE p == ParamsOf(S, q)
  <2> DEFINE u == Separated(S, q)
  <2> DEFINE x == BoundOnes(S, q)
  <2>1. /\ ParamsOf(S, Append(q, s)) = p \o s.args /\ Separated(S, Append(q, s)) = u \o t
        /\ BoundOnes(S, Append(q, s)) = x \o b
        /\ p \in Seq(V) /\ u \in Seq(C) /\ x \in Seq(C)
    BY <1>3
  <2>2. Append(q, s) \in Seq(S)
    BY Appended
  <2>3. s.args \in Seq(V) /\ Statement(C, V, s) /\ BindParams(StatementText(s), s.args).ok
    BY <1>0 DEF Statement
  <2>4. ASSUME Within(ParamsOf(S, Append(q, s)), all, 0)
        PROVE  w(Append(q, s)) = Binder(o(Append(q, s)), n(Append(q, s)), Outside)
    <3> HIDE DEF p
    <3>1. Within(p \o s.args, all, 0)
      BY <2>1, <2>4
    <3>2. Within(p, all, 0) /\ Within(s.args, all, Len(p)) /\ Len(p \o s.args) = Len(p) + Len(s.args)
      BY <2>1, <2>3, <3>1, WithinBoth
    <3>3. w(q) = Binder(Opening \o x, Len(p), Outside)
      BY <1>5, <3>2 DEF p
    <3> DEFINE k == Len(p)
    <3> DEFINE y == Opening \o x
    <3>4. k \in Nat /\ y \in Seq(C)
      BY <1>1, <2>1, Behind
    <3> HIDE DEF k, y
    <3>5. /\ b \in Seq(C) /\ t \in Seq(C)
          /\ Walk(step, Binder(y, k, Outside), t) = Binder(y \o b, k + Len(s.args), Outside)
      <4>1. Within(s.args, all, k)
        BY <3>2 DEF k
      <4>2. BoundBehind(C, all, s, k, y)
        BY <1>0, <2>3, <3>4, <4>1, StatementIsBound
      <4> QED
        BY <4>2 DEF BoundBehind
    <3> HIDE DEF t, b, u, x
    <3>6. Walk(step, st, u \o t) = Walk(step, Walk(step, st, u), t)
      <4> HIDE DEF step, st
      <4> QED
        BY <1>2, <2>1, <3>5, WalkThrough
    <3>7. w(Append(q, s)) = Binder(y \o b, k + Len(s.args), Outside)
      <4>1. Separated(S, Append(q, s)) = u \o t
        BY <2>1
      <4>2. Walk(step, st, u) = Binder(y, k, Outside)
        BY <3>3 DEF u, y, k
      <4> HIDE DEF step, st
      <4>3. Walk(step, Binder(y, k, Outside), t) = Binder(y \o b, k + Len(s.args), Outside)
        BY <3>5
      <4>4. Walk(step, st, u \o t) = Binder(y \o b, k + Len(s.args), Outside)
        BY <3>6, <4>2, <4>3
      <4> QED
        BY <4>1, <4>4
    <3>8. y \o b = Opening \o (x \o b)
      <4> HIDE DEF step, st, w, o, n, G
      <4>1. Opening \in Seq(C) /\ b \in Seq(C)
        BY <1>1, <3>5
      <4>2. \A a \in Seq(C), r \in Seq(C), c \in Seq(C) : a \o (r \o c) = (a \o r) \o c
        OBVIOUS
      <4> QED
        BY <2>1, <4>1, <4>2 DEF y
    <3>9. o(Append(q, s)) = y \o b
      BY <2>1, <3>8
    <3>10. n(Append(q, s)) = k + Len(s.args)
      BY <2>1, <3>2 DEF k
    <3> QED
      BY <3>7, <3>9, <3>10
  <2> QED
    BY <2>2, <2>4
<1>6. \A q \in Seq(S) : q \in G
  <2> HIDE DEF G
  <2> QED
    BY <1>4, <1>5, AllSequences
<1> QED
  BY <1>6

\* The binder at the end of a script.
LEMMA ScriptIsBound ==
  ASSUME NEW C, NEW V, NEW S, Scripts(C, V, S),
         NEW q \in Seq(S)
  PROVE  /\ ScriptOf(S, q) \in Seq(C) /\ ParamsOf(S, q) \in Seq(V)
         /\ BindOf(C, ParamsOf(S, q), ScriptOf(S, q))
              = Binder(Opening \o BoundOnes(S, q) \o <<Control>>, Len(ParamsOf(S, q)), Outside)
<1> DEFINE all == ParamsOf(S, q)
<1> DEFINE step == BindStep(C, all)
<1> DEFINE body == Separated(S, q)
<1> DEFINE x == BoundOnes(S, q)
<1> DEFINE k == Len(all)
<1> DEFINE D == C \ {Quote, Mark}
<1>0. /\ {Quote, Semicolon, Space, Control} \subseteq C /\ Quote \in C
      /\ \A v \in V : Bindable(C, v)
  BY DEF Scripts
<1>1. Opening \in Seq(D) /\ <<Control>> \in Seq(D) /\ Opening \in Seq(C) /\ <<Control>> \in Seq(C)
  <2>1. Semicolon \in D /\ Space \in D /\ Control \in D
    BY <1>0, CharactersDiffer
  <2>2. Opening \in Seq(D) /\ <<Control>> \in Seq(D)
    <3> HIDE DEF D
    <3> QED
      BY <2>1 DEF Opening
  <2>3. Opening \in Seq(C) /\ <<Control>> \in Seq(C)
    BY <1>0, OpeningIsRead
  <2> QED
    BY <2>2, <2>3
<1>2. all \in Seq(V) /\ body \in Seq(C) /\ x \in Seq(C)
  <2>1. ListsOn(C, V, S)
    BY StatementLists
  <2> QED
    BY <2>1 DEF ListsOn
<1>3. Within(all, all, 0)
  BY <1>2 DEF Within
<1>4. Within(all, all, 0) => Walk(step, Binder(Opening, 0, Outside), body) = Binder(Opening \o x, k, Outside)
  <2> HIDE DEF k
  <2>1. \A p \in Seq(S) :
           Within(ParamsOf(S, p), all, 0) =>
             Walk(BindStep(C, all), Binder(Opening, 0, Outside), Separated(S, p))
               = Binder(Opening \o BoundOnes(S, p), Len(ParamsOf(S, p)), Outside)
    BY <1>2, SeparatedIsBound
  <2> QED
    BY <2>1 DEF k
<1> HIDE DEF body, x, all
<1>5. Machine(step, Binders(C), C) /\ FirstBinder \in Binders(C)
  BY <1>0, <1>2, BindMachine
<1>6. ASSUME NEW o \in Seq(C), NEW n \in Nat
      PROVE  \A t \in Seq(D) : Walk(step, Binder(o, n, Outside), t) = Binder(o \o t, n, Outside)
  <2>1. Passes(C, all, o, n)
    BY <1>0, <1>2, PlainIsBound
  <2> QED
    BY <2>1 DEF Passes
<1>7. k \in Nat
  BY <1>2
<1> HIDE DEF k, D
<1>8. BindOf(C, all, Opening) = Binder(Opening, 0, Outside)
  <2>1. <<>> \in Seq(C) /\ <<>> \o Opening = Opening
    BY <1>1, Nothing, Behind
  <2>2. Walk(step, Binder(<<>>, 0, Outside), Opening) = Binder(<<>> \o Opening, 0, Outside)
    BY <1>1, <1>6, <2>1
  <2> QED
    BY <2>1, <2>2 DEF BindOf, FirstBinder
<1> DEFINE a == Opening \o body
<1> DEFINE y == Opening \o x
<1>9. a \in Seq(C) /\ y \in Seq(C) /\ a \o <<Control>> \in Seq(C)
  BY <1>1, <1>2, Behind
<1>10. BindOf(C, all, a) = Binder(y, k, Outside)
  <2>1. BindOf(C, all, Opening \o body) = Walk(step, BindOf(C, all, Opening), body)
    BY <1>0, <1>1, <1>2, BindOn
  <2> QED
    BY <1>3, <1>4, <1>8, <2>1
<1> HIDE DEF a, y
<1>11. BindOf(C, all, a \o <<Control>>) = Walk(step, BindOf(C, all, a), <<Control>>)
  BY <1>0, <1>1, <1>2, <1>9, BindOn
<1>12. Walk(step, Binder(y, k, Outside), <<Control>>) = Binder(y \o <<Control>>, k, Outside)
  BY <1>1, <1>6, <1>7, <1>9
<1>13. ScriptOf(S, q) = a \o <<Control>>
  BY DEF ScriptOf, a, body
<1> QED
  BY <1>2, <1>9, <1>10, <1>11, <1>12, <1>13 DEF all, x, y, k

\* What BuildTransactionRequest refuses.
Unscripted(q) == q = <<>> \/ \E s \in ToSet(q) : Barred(s)

\* The request of a script.
LEMMA RequestIs ==
  ASSUME NEW S, NEW q \in Seq(S)
  PROVE  BuildTransactionRequest(q) =
           IF Unscripted(q) THEN Refused ELSE Ok([script |-> ScriptOf(S, q), params |-> ParamsOf(S, q)])
<1> DEFINE sep == <<Semicolon, Space>>
<1> DEFINE texts == [i \in DOMAIN q |-> StatementText(q[i])]
<1> DEFINE bodies == [i \in DOMAIN texts |-> texts[i] \o sep]
<1> DEFINE given == [i \in DOMAIN q |-> q[i].args]
<1>1. DOMAIN q = 1..Len(q) /\ \A i \in DOMAIN q : q[i] \in S
  OBVIOUS
<1>2. given = Mapped(Given(S), q)
  <2>1. \A i \in DOMAIN q : Given(S)[q[i]] = q[i].args
    BY <1>1 DEF Given
  <2> QED
    BY <2>1 DEF Mapped
<1>3. DOMAIN texts = DOMAIN q /\ \A i \in DOMAIN q : texts[i] = StatementText(q[i])
  OBVIOUS
<1> HIDE DEF sep
<1>4. bodies = Mapped(Texts(S), q)
  <2>1. \A i \in DOMAIN q : Texts(S)[q[i]] = StatementText(q[i]) \o sep
    BY <1>1 DEF Texts, sep
  <2>2. bodies = [i \in DOMAIN q |-> StatementText(q[i]) \o sep]
    BY <1>3
  <2>3. Mapped(Texts(S), q) = [i \in DOMAIN q |-> StatementText(q[i]) \o sep]
    BY <2>1 DEF Mapped
  <2> QED
    BY <2>2, <2>3
<1>5. Unscripted(q) <=> q = <<>> \/ \E t \in ToSet(texts) : t = <<>> \/ FirstField(t) = <<Control>>
  <2>1. ToSet(q) = {q[i] : i \in DOMAIN q} /\ ToSet(texts) = {texts[i] : i \in DOMAIN texts}
    BY DEF ToSet
  <2> HIDE DEF texts
  <2> QED
    BY <1>3, <2>1 DEF Unscripted, Barred
<1> DEFINE text == <<Control, Semicolon, Space>> \o FlattenSeq(bodies) \o <<Control>>
<1>6. text = ScriptOf(S, q) /\ FlattenSeq(given) = ParamsOf(S, q)
  BY <1>2, <1>4 DEF ScriptOf, Separated, Opening, ParamsOf
<1>7. BuildTransactionRequest(q) =
        IF q = <<>> \/ \E t \in ToSet(texts) : t = <<>> \/ FirstField(t) = <<Control>>
          THEN Refused ELSE Ok([script |-> text, params |-> FlattenSeq(given)])
  BY DEF BuildTransactionRequest, sep
<1> HIDE DEF text, given, texts, bodies
<1> QED
  BY <1>5, <1>6, <1>7

\* The script of it.
LEMMA ScriptIs ==
  ASSUME NEW S, NEW q \in Seq(S)
  PROVE  BuildTransactionScript(q) =
           IF Unscripted(q) THEN Refused
           ELSE IF ParamsOf(S, q) = <<>> THEN Ok(ScriptOf(S, q))
           ELSE BindParams(ScriptOf(S, q), ParamsOf(S, q))
<1> DEFINE built == BuildTransactionRequest(q)
<1> DEFINE text == ScriptOf(S, q)
<1> DEFINE params == ParamsOf(S, q)
<1> DEFINE request == [script |-> text, params |-> params]
<1>1. built = IF Unscripted(q) THEN Refused ELSE Ok(request)
  BY RequestIs
<1>2. BuildTransactionScript(q) =
        IF ~built.ok THEN Refused
        ELSE IF built.is.params = <<>> THEN Ok(built.is.script)
        ELSE BindParams(built.is.script, built.is.params)
  BY DEF BuildTransactionScript
<1>3. request.script = text /\ request.params = params
  OBVIOUS
<1> HIDE DEF built, request, text, params
<1>4. CASE Unscripted(q)
  <2>1. built.ok = FALSE
    BY <1>1, <1>4 DEF Refused
  <2> QED
    BY <1>2, <1>4, <2>1
<1>5. CASE ~Unscripted(q)
  <2>1. built.ok = TRUE /\ built.is = request
    BY <1>1, <1>5 DEF Ok
  <2> QED
    BY <1>2, <1>3, <1>5, <2>1 DEF text, params
<1> QED
  BY <1>4, <1>5

\* A script of statements that can be bound is the statements bound, in their
\* order.
LEMMA ScriptIsItsStatements ==
  ASSUME NEW C, NEW V, NEW S, Scripts(C, V, S), NEW q \in Seq(S), BuildTransactionScript(q).ok
  PROVE  BuildTransactionScript(q).is = Opening \o BoundOnes(S, q) \o <<Control>>
<1> DEFINE script == BuildTransactionScript(q)
<1> DEFINE text == ScriptOf(S, q)
<1> DEFINE params == ParamsOf(S, q)
<1> DEFINE b == BindOf(C, params, text)
<1> DEFINE x == Opening \o BoundOnes(S, q) \o <<Control>>
<1>1. Quote \in C /\ \A v \in V : Bindable(C, v)
  BY DEF Scripts
<1>2. text \in Seq(C) /\ params \in Seq(V) /\ b = Binder(x, Len(params), Outside)
  BY ScriptIsBound
<1>3. script = IF Unscripted(q) THEN Refused ELSE IF params = <<>> THEN Ok(text) ELSE BindParams(text, params)
  BY ScriptIs
<1>4. script.ok
  OBVIOUS
<1> HIDE DEF script, text, params, x
<1>5. b.phase = Outside /\ b.next = Len(params) /\ b.out = x
  <2> HIDE DEF b
  <2> QED
    BY <1>2 DEF Binder
<1>6. BindParams(text, params) = IF b.phase = Outside /\ b.next = Len(params) THEN Ok(b.out) ELSE Refused
  BY <1>1, <1>2, BindIsAWalk
<1>7. params = <<>> => b.out = text
  <2>1. ASSUME params = <<>> PROVE b.out = text
    <3>1. b.phase # Stuck
      BY <1>5, PhasesDiffer
    <3>2. BindOf(C, <<>>, text).phase # Stuck => BindOf(C, <<>>, text).out = text
      BY <1>1, <1>2, NothingToBind
    <3> QED
      BY <2>1, <3>1, <3>2
  <2> QED
    BY <2>1
<1> HIDE DEF b
<1>8. ~Unscripted(q)
  BY <1>3, <1>4 DEF Refused
<1>9. script = Ok(x)
  BY <1>3, <1>5, <1>6, <1>7, <1>8
<1> QED
  BY <1>9 DEF Ok, script, x

\* A script is one block, whatever its statements are bound to.
LEMMA ScriptIsOneBlock ==
  ASSUME NEW C, {Quote, Semicolon, Space, Control} \subseteq C, NEW V, \A v \in V : Bindable(C, v),
         NEW S, \A s \in S : s.args \in Seq(V) /\ Whole(C, StatementText(s)), NEW q \in Seq(S),
         BuildTransactionScript(q).ok
  PROVE  /\ Lexemes(BuildTransactionScript(q).is).ok
         /\ Controls(Lexemes(BuildTransactionScript(q).is).is) = 2
<1> DEFINE script == BuildTransactionScript(q)
<1> DEFINE text == ScriptOf(S, q)
<1> DEFINE params == ParamsOf(S, q)
<1> DEFINE b == BindOf(C, params, text)
<1> DEFINE a == LexOf(C, text)
<1>1. text \in Seq(C) /\ Past(C, a, 2)
  <2>1. \A s \in S : Whole(C, StatementText(s))
    OBVIOUS
  <2> QED
    BY <2>1, ScriptIsRead
<1>2. params \in Seq(V)
  <2>1. Given(S) \in [S -> Seq(V)]
    BY DEF Given
  <2> QED
    BY <2>1, ListOn DEF ParamsOf
<1>3. script = IF Unscripted(q) THEN Refused ELSE IF params = <<>> THEN Ok(text) ELSE BindParams(text, params)
  BY ScriptIs
<1>4. script.ok
  OBVIOUS
<1> HIDE DEF script, text, params
<1>5. BindParams(text, params) = IF b.phase = Outside /\ b.next = Len(params) THEN Ok(b.out) ELSE Refused
  BY <1>1, <1>2, BindIsAWalk
<1>6. Keeps(a, b, LexOf(C, b.out)) /\ b \in Binders(C)
  BY <1>1, <1>2, ControlsAreKept, BindOn
<1> HIDE DEF a, b
<1>7. script.is \in Seq(C) /\ Past(C, LexOf(C, script.is), 2)
  <2>1. CASE params = <<>>
    <3>1. script = Ok(text)
      BY <1>3, <1>4, <2>1 DEF Refused
    <3>2. script.is = text
      BY <3>1 DEF Ok
    <3> QED
      BY <1>1, <3>2 DEF a
  <2>2. CASE params # <<>>
    <3>1. script = BindParams(text, params)
      BY <1>3, <1>4, <2>2 DEF Refused
    <3>2. b.phase = Outside /\ script = Ok(b.out)
      BY <1>4, <1>5, <3>1 DEF Refused
    <3>3. script.is = b.out /\ b.out \in Seq(C)
      BY <1>6, <3>2, BinderIs DEF Ok
    <3> DEFINE g == LexOf(C, b.out)
    <3>4. g \in Lexers(C)
      BY <3>3, LexOn
    <3> HIDE DEF g
    <3>5. g.at # AtOpen /\ Controls(g.done) = 2
      BY <1>1, <1>6, <3>2, PhasesDiffer DEF Keeps, Past, g
    <3> QED
      BY <3>3, <3>4, <3>5 DEF Past, g
  <2> QED
    BY <2>1, <2>2
<1> DEFINE u == script.is
<1> DEFINE l == LexOf(C, u)
<1>8. Lexemes(u) = IF l.at = AtOpen THEN Refused ELSE Ok(Read(l))
  BY <1>7, LexemesIsAWalk
<1>9. l \in Lexers(C) /\ l.at # AtOpen /\ Controls(l.done) = 2
  BY <1>7 DEF Past
<1> HIDE DEF u, l
<1>10. Lexemes(u) = Ok(Read(l)) /\ Controls(Read(l)) = 2
  BY <1>8, <1>9, LexedControls
<1>11. Lexemes(u).ok = TRUE /\ Lexemes(u).is = Read(l)
  BY <1>10 DEF Ok
<1> QED
  BY <1>10, <1>11 DEF u, script

\* BuildTransactionScript, for all statements whose literals are closed and
\* that do not control a transaction behind their first word: the script is
\* the statements bound one by one, in their order, between one BEGIN and one
\* COMMIT (buildTransactionRequest, BuildTransactionScript).
THEOREM EveryScriptIsFaithful ==
  ASSUME NEW C, {Quote, Semicolon, Space, Control} \subseteq C, NEW V, \A v \in V : Bindable(C, v),
         NEW S, \A s \in S : Statement(C, V, s) /\ (~Barred(s) => Whole(C, StatementText(s))),
         NEW q \in Seq(S)
  PROVE  ScriptIsFaithful(q)
<1> DEFINE bound == [i \in DOMAIN q |-> BindParams(StatementText(q[i]), q[i].args)]
<1> DEFINE script == BuildTransactionScript(q)
<1> DEFINE sep == <<Semicolon, Space>>
<1> DEFINE separated == FlattenSeq([i \in DOMAIN bound |-> bound[i].is \o sep])
<1>1. DOMAIN q = 1..Len(q) /\ Len(q) \in Nat /\ \A i \in DOMAIN q : q[i] \in S
  OBVIOUS
<1>2. DOMAIN bound = DOMAIN q /\ \A i \in DOMAIN q : bound[i] = BindParams(StatementText(q[i]), q[i].args)
  OBVIOUS
<1>3. ASSUME script.ok, \A b \in ToSet(bound) : b.ok
      PROVE  script.is = <<Control, Semicolon, Space>> \o separated \o <<Control>>
  <2> DEFINE T == {s \in S : BindParams(StatementText(s), s.args).ok}
  <2>1. \A i \in DOMAIN q : bound[i] \in ToSet(bound)
    <3> HIDE DEF bound
    <3> QED
      BY <1>2 DEF ToSet
  <2>2. \A i \in DOMAIN q : q[i] \in T
    <3> HIDE DEF bound
    <3> QED
      BY <1>1, <1>2, <1>3, <2>1
  <2>3. Scripts(C, V, T)
    BY DEF Scripts
  <2> HIDE DEF T, sep
  <2>4. q \in Seq(T)
    BY <1>1, <2>2, SeqDef
  <2>5. separated = BoundOnes(T, q)
    <3>1. \A i \in DOMAIN q : BoundTexts(T)[q[i]] = bound[i].is \o sep
      BY <1>2, <2>2 DEF BoundTexts, BoundText, sep
    <3> HIDE DEF bound
    <3>2. [i \in DOMAIN bound |-> bound[i].is \o sep] = [i \in DOMAIN q |-> bound[i].is \o sep]
      BY <1>2
    <3>3. Mapped(BoundTexts(T), q) = [i \in DOMAIN q |-> bound[i].is \o sep]
      BY <3>1 DEF Mapped
    <3> QED
      BY <3>2, <3>3 DEF BoundOnes
  <2> HIDE DEF separated
  <2>6. script.is = Opening \o BoundOnes(T, q) \o <<Control>>
    BY <1>3, <2>3, <2>4, ScriptIsItsStatements
  <2> QED
    BY <2>5, <2>6 DEF Opening
<1>4. ASSUME script.ok PROVE Lexemes(script.is).ok /\ Controls(Lexemes(script.is).is) = 2
  <2> DEFINE T == {s \in S : ~Barred(s)}
  <2>1. ~Unscripted(q)
    <3>1. script = IF Unscripted(q) THEN Refused ELSE IF ParamsOf(S, q) = <<>> THEN Ok(ScriptOf(S, q))
                   ELSE BindParams(ScriptOf(S, q), ParamsOf(S, q))
      BY ScriptIs
    <3> HIDE DEF script
    <3> QED
      BY <1>4, <3>1 DEF Refused
  <2>2. \A i \in DOMAIN q : q[i] \in T
    BY <1>1, <2>1 DEF Unscripted, ToSet
  <2>3. \A s \in T : s.args \in Seq(V) /\ Whole(C, StatementText(s))
    BY DEF Statement
  <2> HIDE DEF T
  <2>4. q \in Seq(T)
    BY <1>1, <2>2, SeqDef
  <2> QED
    BY <1>4, <2>3, <2>4, ScriptIsOneBlock
<1>5. \A l : Cardinality({i \in DOMAIN l : l[i] = Control}) = Controls(l)
  BY DEF Controls, Places
<1>6. ScriptIsFaithful(q) <=>
        /\ script.ok /\ (\A b \in ToSet(bound) : b.ok) =>
             script.is = <<Control, Semicolon, Space>> \o separated \o <<Control>>
        /\ script.ok => Lexemes(script.is).ok
             /\ Cardinality({i \in DOMAIN Lexemes(script.is).is : Lexemes(script.is).is[i] = Control}) = 2
  BY DEF ScriptIsFaithful
<1> HIDE DEF bound, script, separated
<1> QED
  BY <1>3, <1>4, <1>5, <1>6

-----------------------------------------------------------------------------
(* The inputs of Text.                                                     *)

\* A sequence is one of whatever has its elements.
LEMMA ListIn ==
  ASSUME NEW s, IsList(s), NEW C, ToSet(s) \subseteq C
  PROVE  s \in Seq(C)
<1> DEFINE D == ToSet(s)
<1>1. s \in Seq(D) /\ D \subseteq C
  BY DEF IsList
<1> HIDE DEF D
<1> QED
  BY <1>1

\* A piece of a text (TrimSpace, TrimSuffix).
LEMMA TrimmedIn ==
  ASSUME NEW C, NEW s \in Seq(C)
  PROVE  TrimSpace(s) \in Seq(C) /\ \A c : TrimSuffix(s, c) \in Seq(C)
<1> DEFINE n == Len(s)
<1> DEFINE kept == {i \in DOMAIN s : s[i] # Space}
<1>1. n \in Nat /\ DOMAIN s = 1..n
  OBVIOUS
<1>2. \A i \in 1..n, j \in 0..n : SubSeq(s, i, j) \in Seq(C)
  OBVIOUS
<1>3. <<>> \in Seq(C)
  BY Nothing
<1>4. ASSUME kept # {} PROVE Min(kept) \in 1..n /\ Max(kept) \in 1..n
  <2> DEFINE low == {n - i : i \in kept}
  <2>1. kept \in SUBSET Nat /\ kept \subseteq 1..n
    BY <1>1
  <2>2. low \in SUBSET Nat /\ low # {}
    BY <1>1, <1>4, <2>1
  <2> HIDE DEF kept
  <2>3. \E m \in kept : \A i \in kept : m <= i
    BY <1>4, <2>1, LeastNatural
  <2>4. \E m \in kept : \A i \in kept : m >= i
    <3> HIDE DEF low
    <3>1. PICK l \in low : \A k \in low : l <= k
      BY <2>2, LeastNatural
    <3>2. PICK m \in kept : l = n - m
      BY <3>1 DEF low
    <3>3. ASSUME NEW i \in kept PROVE m >= i
      <4>1. n - i \in low /\ i \in Nat /\ m \in Nat
        BY <2>1 DEF low
      <4> QED
        BY <1>1, <3>1, <3>2, <4>1
    <3> QED
      BY <3>3
  <2>5. Min(kept) \in kept
    BY <2>3 DEF Min
  <2>6. Max(kept) \in kept
    BY <2>4 DEF Max
  <2> QED
    BY <2>1, <2>5, <2>6
<1>5. TrimSpace(s) \in Seq(C)
  <2>1. TrimSpace(s) = IF kept = {} THEN <<>> ELSE SubSeq(s, Min(kept), Max(kept))
    BY DEF TrimSpace
  <2> HIDE DEF kept
  <2>2. n \in Nat /\ \A j \in 1..n : j \in 0..n
    BY <1>1
  <2>3. kept # {} => SubSeq(s, Min(kept), Max(kept)) \in Seq(C)
    BY <1>2, <1>4, <2>2
  <2> QED
    BY <1>3, <2>1, <2>3
<1>6. ASSUME NEW c PROVE TrimSuffix(s, c) \in Seq(C)
  <2>1. s # <<>> => Front(s) \in Seq(C)
    BY DEF Front
  <2> QED
    BY <2>1 DEF TrimSuffix
<1> QED
  BY <1>5, <1>6

\* So is the text of a statement.
LEMMA StatementTextIn ==
  ASSUME NEW C, NEW s, s.sql \in Seq(C)
  PROVE  StatementText(s) \in Seq(C)
<1> DEFINE a == TrimSpace(s.sql)
<1> DEFINE b == TrimSuffix(a, Semicolon)
<1>1. a \in Seq(C)
  BY TrimmedIn
<1> HIDE DEF a
<1>2. b \in Seq(C)
  BY <1>1, TrimmedIn
<1> HIDE DEF b
<1>3. TrimSpace(b) \in Seq(C)
  BY <1>2, TrimmedIn
<1> QED
  BY <1>3 DEF StatementText, a, b

\* FloatString rounds nothing away where the scale makes the value whole.
LEMMA RoundingIsExact ==
  ASSUME NEW num \in Int, NEW d \in Nat \ {0}, NEW p \in Int, p % d = 0
  PROVE  /\ (num * p) % d = 0
         /\ (2 * num * p + d) \div (2 * d) \in Int
         /\ ((2 * num * p + d) \div (2 * d)) * d = num * p
<1> DEFINE k == p \div d
<1>1. p = k * d /\ k \in Int
  OBVIOUS
<1> HIDE DEF k
<1> DEFINE m == num * k
<1>2. m \in Int /\ num * p = m * d /\ 2 * num * p = 2 * (m * d)
  BY <1>1
<1> HIDE DEF m
<1>3. (2 * (m * d) + d) \div (2 * d) = m
  BY <1>2
<1>4. (m * d) % d = 0
  BY <1>2
<1> QED
  BY <1>2, <1>3, <1>4

\* The text of a number is a character of its own.
LEMMA DigitsDiffer ==
  ASSUME NEW n, NEW scale
  PROVE  Digits(n, scale) # Quote /\ Digits(n, scale) # Control
<1>1. Len(Digits(n, scale)) = 3 /\ Len(Quote) = 1 /\ Len(Control) = 1
  BY DEF Digits, Quote, Control
<1> QED
  BY <1>1

\* A literal of digits means the value they make.
LEMMA DigitsMean ==
  ASSUME NEW v, v.type \in {"decimal", "rat"}, NEW n, NEW scale, n * v.denom = v.num * 10 ^ scale
  PROVE  Means(Literal(<<Digits(n, scale)>>), v)
<1> DEFINE d == Digits(n, scale)
<1> DEFINE l == Literal(<<d>>)
<1>1. d[1] = "digits" /\ d[2] = n /\ d[3] = scale
  BY DEF Digits
<1> HIDE DEF d
<1>2. l[1] = "literal" /\ Len(l[2]) = 1 /\ l[2][1] = d
  BY DEF Literal
<1> HIDE DEF l
<1>3. Means(l, v) <=>
        /\ l[1] = "literal" /\ Len(l[2]) = 1
        /\ LET e == l[2][1] IN e[1] = "digits" /\ e[2] * v.denom = v.num * 10 ^ e[3]
  BY DEF Means
<1> QED
  BY <1>1, <1>2, <1>3 DEF l, d

\* What a value is made of.
PartsIn(C, v) ==
  /\ v.type = "string" => ToSet(v.text) \subseteq C
  /\ v.type = "word" => v.word \in C
  /\ v.type \in {"decimal", "rat"} => NumberText(v) \in C

\* A decimal that is plain is written as it is.
LEMMA DecimalIsExact ==
  ASSUME NEW v, v.type = "decimal", IsGoValue(v)
  PROVE  /\ DecimalText(v).ok <=> HasForm(v)
         /\ DecimalText(v).ok => \E n, scale : NumberText(v) = Digits(n, scale) /\ n * v.denom = v.num * 10 ^ scale
<1>1. v.num \in Int /\ v.denom = 1
  BY DEF IsGoValue
<1>2. DecimalText(v) = IF v.plain THEN Ok(Digits(v.num, 0)) ELSE Refused
  BY DEF DecimalText
<1>3. HasForm(v) <=> v.plain
  BY DEF HasForm
<1>4. CASE v.plain
  <2>1. DecimalText(v).ok = TRUE /\ NumberText(v) = Digits(v.num, 0)
    BY <1>2, <1>4 DEF NumberText, Ok
  <2>2. v.num * v.denom = v.num * 10 ^ 0
    BY <1>1
  <2> QED
    BY <1>3, <1>4, <2>1, <2>2
<1>5. CASE ~v.plain
  <2>1. DecimalText(v).ok = FALSE
    BY <1>2, <1>5 DEF Refused
  <2> QED
    BY <1>3, <1>5, <2>1
<1> QED
  BY <1>4, <1>5

\* A rational number that some power of ten makes whole is written exactly,
\* and any other is not.
LEMMA RatIsExact ==
  ASSUME NEW v, v.type = "rat", IsGoValue(v)
  PROVE  /\ DecimalText(v).ok <=> HasForm(v)
         /\ DecimalText(v).ok => \E n, scale : NumberText(v) = Digits(n, scale) /\ n * v.denom = v.num * 10 ^ scale
<1> DEFINE found == FiniteDecimalScale(v.denom)
<1> DEFINE num == v.num
<1> DEFINE d == v.denom
<1>1. /\ num \in Int /\ d \in Nat \ {0} /\ (HasForm(v) => found.ok)
      /\ found.ok => found.is \in 0..d /\ 10 ^ found.is % d = 0
  BY DEF IsGoValue
<1>2. HasForm(v) <=> \E scale \in 0..d : (num * 10 ^ scale) % d = 0
  BY DEF HasForm
<1>3. DecimalText(v) = IF found.ok THEN Ok(Digits((2 * num * 10 ^ found.is + d) \div (2 * d), found.is)) ELSE Refused
  BY DEF DecimalText
<1> HIDE DEF found, num, d
<1>4. CASE found.ok
  <2> DEFINE scale == found.is
  <2> DEFINE p == 10 ^ scale
  <2> DEFINE n == (2 * num * p + d) \div (2 * d)
  <2>1. scale \in 0..d /\ scale \in Nat /\ p % d = 0
    BY <1>1, <1>4
  <2>2. p \in Int
    BY <2>1
  <2> HIDE DEF p
  <2>3. (num * p) % d = 0 /\ n * d = num * p
    BY <1>1, <2>1, <2>2, RoundingIsExact
  <2> HIDE DEF n
  <2>4. HasForm(v)
    BY <1>2, <2>1, <2>3 DEF p
  <2>5. DecimalText(v) = Ok(Digits(n, scale))
    BY <1>3, <1>4 DEF n, p
  <2> HIDE DEF scale
  <2>6. DecimalText(v).ok = TRUE /\ NumberText(v) = Digits(n, scale)
    BY <2>5 DEF NumberText, Ok
  <2>7. n * v.denom = v.num * 10 ^ scale
    BY <2>3 DEF num, d, p
  <2> QED
    BY <2>4, <2>6, <2>7
<1>5. CASE ~found.ok
  <2>1. DecimalText(v).ok = FALSE
    BY <1>3, <1>5 DEF Refused
  <2> QED
    BY <1>1, <1>5, <2>1
<1> QED
  BY <1>4, <1>5

\* Every value of Go can be bound, or is refused (SQLLiteral, decimalText).
LEMMA GoValueIsBindable ==
  ASSUME NEW C, NEW v, IsGoValue(v), PartsIn(C, v)
  PROVE  Bindable(C, v)
<1>1. v.type \in {"string", "word", "decimal", "rat", "real", "struct"}
  BY DEF IsGoValue
<1>2. v.type = "string" => v.text \in Seq(C)
  BY ListIn DEF IsGoValue, PartsIn
<1>3. v.type = "word" => v.word \in C \ {Quote, Control}
  BY DEF IsGoValue, PartsIn
<1>4. ASSUME v.type \in {"decimal", "rat"}
      PROVE  /\ DecimalText(v).ok <=> HasForm(v)
             /\ DecimalText(v).ok => NumberText(v) \in C \ {Quote, Control} /\ Means(Literal(<<NumberText(v)>>), v)
  <2>1. /\ DecimalText(v).ok <=> HasForm(v)
        /\ DecimalText(v).ok => \E n, scale : NumberText(v) = Digits(n, scale) /\ n * v.denom = v.num * 10 ^ scale
    BY <1>4, DecimalIsExact, RatIsExact
  <2>2. ASSUME DecimalText(v).ok PROVE NumberText(v) \in C \ {Quote, Control} /\ Means(Literal(<<NumberText(v)>>), v)
    <3>1. PICK n, scale : NumberText(v) = Digits(n, scale) /\ n * v.denom = v.num * 10 ^ scale
      BY <2>1, <2>2
    <3>2. Means(Literal(<<Digits(n, scale)>>), v)
      BY <1>4, <3>1, DigitsMean
    <3>3. NumberText(v) \in C
      BY <1>4 DEF PartsIn
    <3> QED
      BY <3>1, <3>2, <3>3, DigitsDiffer
  <2> QED
    BY <2>1, <2>2
<1> QED
  BY <1>1, <1>2, <1>3, <1>4 DEF Bindable

\* The values, and the characters that statements and values are made of.
AllValues == Values \cup (UNION {ToSet(s.args) : s \in Statements})

Alphabet ==
  SqlCharacters \cup {Quote, Mark, Semicolon, Space, Control}
    \cup (UNION {ToSet(s.sql) : s \in Statements})
    \cup (UNION {ToSet(v.text) : v \in {w \in AllValues : w.type = "string"}})
    \cup {v.word : v \in {w \in AllValues : w.type = "word"}}
    \cup {NumberText(v) : v \in {w \in AllValues : w.type \in {"decimal", "rat"}}}

\* They can be bound, or are refused.
LEMMA ValuesAreBindable == \A v \in AllValues : Bindable(Alphabet, v)
<1> SUFFICES ASSUME NEW v \in AllValues PROVE Bindable(Alphabet, v)
  OBVIOUS
<1>1. IsGoValue(v)
  BY TextAssumption DEF AllValues, IsStatement
<1>2. PartsIn(Alphabet, v)
  BY DEF PartsIn, Alphabet
<1> QED
  BY <1>1, <1>2, GoValueIsBindable

\* A text without lexemes of control.
LEMMA WholeIs ==
  ASSUME NEW C, Quote \in C, NEW t \in Seq(C), Lexemes(t).ok, Control \notin ToSet(Lexemes(t).is)
  PROVE  Whole(C, t)
<1> DEFINE l == LexOf(C, t)
<1>1. l \in Lexers(C)
  BY LexOn
<1>2. Lexemes(t) = IF l.at = AtOpen THEN Refused ELSE Ok(Read(l))
  BY LexemesIsAWalk
<1> HIDE DEF l
<1>3. l.at # AtOpen /\ Lexemes(t).is = Read(l)
  BY <1>2 DEF Ok, Refused
<1>4. Places(Read(l), Control) = {}
  BY <1>3 DEF Places, ToSet
<1>5. Controls(l.done) = 0
  <2>1. Controls(Read(l)) = Controls(l.done)
    BY <1>1, LexedControls
  <2> QED
    BY <1>4, <2>1, FS_EmptySet DEF Controls
<1> QED
  BY <1>1, <1>3, <1>5 DEF Whole, Past, l

\* The statements are such, but for those that no script may have.
LEMMA StatementsAreWhole ==
  \A s \in Statements :
    Statement(Alphabet, AllValues, s) /\ (~Barred(s) => Whole(Alphabet, StatementText(s)))
<1> SUFFICES ASSUME NEW s \in Statements
             PROVE  Statement(Alphabet, AllValues, s) /\ (~Barred(s) => Whole(Alphabet, StatementText(s)))
  OBVIOUS
<1>1. IsStatement(s)
  BY TextAssumption
<1>2. s.sql \in Seq(Alphabet)
  <2>1. ToSet(s.sql) \subseteq Alphabet
    BY DEF Alphabet
  <2> QED
    BY <1>1, <2>1, ListIn DEF IsStatement
<1>3. s.args \in Seq(AllValues)
  <2>1. ToSet(s.args) \subseteq AllValues
    BY DEF AllValues
  <2> QED
    BY <1>1, <2>1, ListIn DEF IsStatement
<1>4. StatementText(s) \in Seq(Alphabet)
  BY <1>2, StatementTextIn
<1>5. Quote \in Alphabet
  BY DEF Alphabet
<1>6. ASSUME ~Barred(s) PROVE Whole(Alphabet, StatementText(s))
  <2>1. Lexemes(StatementText(s)).ok /\ Control \notin ToSet(Lexemes(StatementText(s)).is)
    BY <1>1, <1>6 DEF IsStatement
  <2> QED
    BY <1>4, <1>5, <2>1, WholeIs
<1> QED
  BY <1>3, <1>4, <1>6 DEF Statement

\* Whatever text, arguments and statements there are, what the server reads
\* from a bound text is the statement, or the script, with the values in their
\* places (BindParams, SQLLiteral, decimalText, BuildTransactionScript).
THEOREM BindsStayFaithful == Spec => []BindsFaithfully
<1>1. {Quote, Semicolon, Space, Control} \subseteq Alphabet /\ Quote \in Alphabet /\ SqlCharacters \subseteq Alphabet
  BY DEF Alphabet
<1>2. Values \subseteq AllValues
  BY DEF AllValues
<1>3. \A v \in AllValues : Bindable(Alphabet, v)
  BY ValuesAreBindable
<1>4. input \in Inputs => BindsFaithfully
  <2> SUFFICES ASSUME input \in Inputs PROVE BindsFaithfully
    OBVIOUS
  <2>1. ASSUME input.is = "sql"
        PROVE  BindIsFaithful(input.sql, input.args) /\ ParamsAreAlike(input.sql, input.args)
    <3>1. input.sql \in Seq(SqlCharacters) /\ input.args \in Seq(Values)
      BY <2>1, InputsByKind DEF SqlInputs
    <3>2. input.sql \in Seq(Alphabet) /\ input.args \in Seq(AllValues)
      BY <1>1, <1>2, <3>1
    <3>3. BindIsFaithful(input.sql, input.args)
      BY <1>1, <1>3, <3>2, EveryBindIsFaithful
    <3>4. ParamsAreAlike(input.sql, input.args)
      BY <1>1, <1>3, <3>2, EveryBindIsAlike
    <3> QED
      BY <3>3, <3>4
  <2>2. ASSUME input.is = "script" PROVE ScriptIsFaithful(input.statements)
    <3>1. input.statements \in Seq(Statements)
      BY <2>2, InputsByKind DEF ScriptInputs
    <3> QED
      BY <1>1, <1>3, <3>1, StatementsAreWhole, EveryScriptIsFaithful
  <2> QED
    BY <2>1, <2>2 DEF BindsFaithfully
<1>5. Init => InputTyped
  BY FirstInputs DEF InputTyped
<1>6. InputTyped /\ [Next]_input => InputTyped'
  BY InputsGrow DEF InputTyped
<1>7. InputTyped => BindsFaithfully
  BY <1>4 DEF InputTyped
<1> QED
  BY <1>5, <1>6, <1>7, PTL DEF Spec
=============================================================================
