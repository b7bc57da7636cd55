--------------------------- MODULE EmulatorProofs ---------------------------
(***************************************************************************)
(* What the sequences do to the screen, for every width, height and        *)
(* argument.  The screen is one string: the lemmas say which ranges of it  *)
(* an edit leaves alone and how long it is afterwards, first for a         *)
(* deletion and an insertion, then for the methods made of them, then for  *)
(* the commands.                                                           *)
(***************************************************************************)
EXTENDS Emulator, SequenceTheorems, TLAPS

Char == Nat \cup {Written}
Size == rowCount * columnCount

Screen == [x : Int, y : Int, text : Seq(Int), marks : SUBSET Int]

\* The string is the screen, and not what is left after an exception.
IsWhole(text) == text \in Seq(Char) /\ Len(text) = Size

\* The strings differ in cells from + 1 to to at most.
AgreeOutside(u, v, from, to) ==
  \A i \in 1..Size : i <= from \/ to < i => u[i] = v[i]

Bounded ==
  /\ columnCount \in Nat /\ columnCount >= 2
  /\ rowCount \in Nat /\ rowCount >= 1
  /\ topMargin \in Nat /\ bottomMargin \in Nat
  /\ topMargin <= bottomMargin /\ bottomMargin < rowCount

(***************************************************************************)
(* Rows and cells.                                                         *)
(***************************************************************************)

LEMMA RowsInOrder ==
  ASSUME columnCount \in Nat, NEW a \in Int, NEW b \in Int, a <= b
  PROVE  a * columnCount \in Int /\ b * columnCount \in Int
         /\ a * columnCount <= b * columnCount
<1>1. PICK c \in Nat : c = columnCount
  OBVIOUS
<1>2. a * c <= b * c
  OBVIOUS
<1> QED
  BY <1>1, <1>2

LEMMA NextRow ==
  ASSUME columnCount \in Nat, NEW a \in Int
  PROVE  /\ a * columnCount \in Int
         /\ (a + 1) * columnCount = a * columnCount + columnCount
         /\ 0 * columnCount = 0
  OBVIOUS

LEMMA RowsApart ==
  ASSUME columnCount \in Nat, NEW a \in Int, NEW b \in Int
  PROVE  /\ (a + b) * columnCount = a * columnCount + b * columnCount
         /\ (a - b) * columnCount = a * columnCount - b * columnCount
  OBVIOUS

LEMMA SizeIs ==
  ASSUME Bounded
  PROVE  Size \in Nat /\ Size >= 2
<1>1. 1 * columnCount <= rowCount * columnCount /\ rowCount * columnCount \in Int
  BY RowsInOrder DEF Bounded
<1>2. 1 * columnCount = columnCount
  BY DEF Bounded
<1> QED
  BY <1>1, <1>2 DEF Size, Bounded

(***************************************************************************)
(* Deleting and inserting.                                                 *)
(***************************************************************************)

LEMMA NotGone ==
  ASSUME NEW text \in Seq(Char)
  PROVE  text # Gone
<1>1. -2 \notin Char
  BY DEF Char, Written
<1>2. ASSUME text = Gone
      PROVE  FALSE
  <2>1. Len(text) = 1 /\ text[1] = -2
    BY <1>2 DEF Gone
  <2>2. text[1] \in Char
    BY <2>1, ElementOfSeq
  <2> QED
    BY <2>1, <2>2, <1>1
<1> QED
  BY <1>2

LEMMA DeletedIs ==
  ASSUME NEW text \in Seq(Char), NEW at \in Nat, NEW n \in Nat,
         at + n <= Len(text)
  PROVE  /\ Deleted(text, at, n) \in Seq(Char)
         /\ Len(Deleted(text, at, n)) = Len(text) - n
         /\ \A i \in 1..(Len(text) - n) :
              Deleted(text, at, n)[i] = IF i <= at THEN text[i] ELSE text[i + n]
<1> DEFINE u == SubSeq(text, 1, at)
           v == SubSeq(text, at + n + 1, Len(text))
<1>0. PICK len \in Nat : len = Len(text)
  BY LenProperties
<1>1. \A i \in 1..len : text[i] \in Char
  BY <1>0, ElementOfSeq
<1>2. u \in Seq(Char) /\ Len(u) = at /\ \A i \in 1..at : u[i] = text[i]
  <2>1. \A i \in 1..at : text[i] \in Char
    BY <1>0, <1>1
  <2>2. /\ u \in Seq(Char) /\ Len(u) = IF 1 <= at THEN at - 1 + 1 ELSE 0
        /\ \A i \in 1..(at - 1 + 1) : u[i] = text[1 + i - 1]
    BY <2>1, SubSeqProperties
  <2> HIDE DEF u
  <2> QED
    BY <2>2
<1>3. v \in Seq(Char) /\ Len(v) = len - at - n
      /\ \A i \in 1..(len - at - n) : v[i] = text[at + n + i]
  <2>1. \A i \in (at + n + 1)..len : text[i] \in Char
    BY <1>0, <1>1
  <2>2. /\ v \in Seq(Char)
        /\ Len(v) = IF at + n + 1 <= len THEN len - (at + n + 1) + 1 ELSE 0
        /\ \A i \in 1..(len - (at + n + 1) + 1) : v[i] = text[at + n + 1 + i - 1]
    BY <1>0, <2>1, SubSeqProperties
  <2> HIDE DEF v
  <2>3. at + n <= len
    BY <1>0
  <2>4. \A i \in 1..(len - at - n) : at + n + 1 + i - 1 = at + n + i
                                  /\ i \in 1..(len - (at + n + 1) + 1)
    OBVIOUS
  <2>5. Len(v) = len - at - n
    BY <2>2, <2>3
  <2>6. ASSUME NEW i \in 1..(len - at - n)
        PROVE  v[i] = text[at + n + i]
    BY <2>2, <2>4, Zenon
  <2> QED
    BY <2>2, <2>5, <2>6
<1>4. Deleted(text, at, n) = u \o v
  <2>1. text # Gone /\ ~(at < 0 \/ n < 0 \/ at + n > Len(text))
    <3>1. text # Gone
      BY NotGone
    <3>2. at + n <= len
      BY <1>0
    <3>3. ~(at < 0) /\ ~(n < 0) /\ ~(at + n > len)
      BY <3>2
    <3> QED
      BY <3>1, <3>3, <1>0, Zenon
  <2>2. Deleted(text, at, n) = IF text = Gone \/ at < 0 \/ n < 0 \/ at + n > Len(text)
                               THEN Gone ELSE u \o v
    BY DEF Deleted
  <2> HIDE DEF u, v
  <2> QED
    BY <2>1, <2>2, Zenon
<1> HIDE DEF u, v
<1>5. /\ u \o v \in Seq(Char) /\ Len(u \o v) = Len(u) + Len(v)
      /\ \A i \in 1..(Len(u) + Len(v)) :
           (u \o v)[i] = IF i <= Len(u) THEN u[i] ELSE v[i - Len(u)]
  <2>1. u \in Seq(Char) /\ v \in Seq(Char)
    BY <1>2, <1>3
  <2> QED
    BY <2>1, ConcatProperties
<1>6. Len(u) + Len(v) = len - n
  BY <1>2, <1>3
<1>7. ASSUME NEW i \in 1..(len - n)
      PROVE  (u \o v)[i] = IF i <= at THEN text[i] ELSE text[i + n]
  <2>1. (u \o v)[i] = IF i <= at THEN u[i] ELSE v[i - at]
    <3>1. i \in 1..(Len(u) + Len(v)) /\ Len(u) = at
      BY <1>6, <1>2, Zenon
    <3>2. (u \o v)[i] = IF i <= Len(u) THEN u[i] ELSE v[i - Len(u)]
      BY <3>1, <1>5, Zenon
    <3> QED
      BY <3>1, <3>2, Zenon
  <2>2. CASE i <= at
    BY <2>1, <2>2, <1>2
  <2>3. CASE ~(i <= at)
    <3>1. i - at \in 1..(len - at - n) /\ at + n + (i - at) = i + n
      BY <2>3
    <3>2. v[i - at] = text[at + n + (i - at)]
      BY <3>1, <1>3, Zenon
    <3> QED
      BY <2>1, <2>3, <3>1, <3>2
  <2> QED
    BY <2>2, <2>3
<1> QED
  BY <1>0, <1>4, <1>5, <1>6, <1>7

LEMMA InsertedIs ==
  ASSUME NEW text \in Seq(Char), NEW string \in Seq(Char),
         NEW at \in Nat, at <= Len(text)
  PROVE  /\ Inserted(text, at, string) \in Seq(Char)
         /\ Len(Inserted(text, at, string)) = Len(text) + Len(string)
         /\ \A i \in 1..(Len(text) + Len(string)) :
              Inserted(text, at, string)[i] =
                IF i <= at THEN text[i]
                ELSE IF i <= at + Len(string) THEN string[i - at]
                ELSE text[i - Len(string)]
<1> DEFINE u == SubSeq(text, 1, at)
           v == SubSeq(text, at + 1, Len(text))
<1>0. PICK len \in Nat, n \in Nat : len = Len(text) /\ n = Len(string)
  BY LenProperties
<1>1. \A i \in 1..len : text[i] \in Char
  BY <1>0, ElementOfSeq
<1>2. u \in Seq(Char) /\ Len(u) = at /\ \A i \in 1..at : u[i] = text[i]
  <2>1. \A i \in 1..at : text[i] \in Char
    BY <1>0, <1>1
  <2>2. /\ u \in Seq(Char) /\ Len(u) = IF 1 <= at THEN at - 1 + 1 ELSE 0
        /\ \A i \in 1..(at - 1 + 1) : u[i] = text[1 + i - 1]
    BY <2>1, SubSeqProperties
  <2> HIDE DEF u
  <2> QED
    BY <2>2
<1>3. v \in Seq(Char) /\ Len(v) = len - at
      /\ \A i \in 1..(len - at) : v[i] = text[at + i]
  <2>1. \A i \in (at + 1)..len : text[i] \in Char
    BY <1>0, <1>1
  <2>2. /\ v \in Seq(Char)
        /\ Len(v) = IF at + 1 <= len THEN len - (at + 1) + 1 ELSE 0
        /\ \A i \in 1..(len - (at + 1) + 1) : v[i] = text[at + 1 + i - 1]
    BY <1>0, <2>1, SubSeqProperties
  <2> HIDE DEF v
  <2>3. at <= len
    BY <1>0
  <2>4. \A i \in 1..(len - at) : at + 1 + i - 1 = at + i
                              /\ i \in 1..(len - (at + 1) + 1)
    OBVIOUS
  <2>5. Len(v) = len - at
    BY <2>2, <2>3
  <2>6. ASSUME NEW i \in 1..(len - at)
        PROVE  v[i] = text[at + i]
    BY <2>2, <2>4, Zenon
  <2> QED
    BY <2>2, <2>5, <2>6
<1>4. Inserted(text, at, string) = u \o string \o v
  <2>1. text # Gone /\ string # Gone /\ ~(at < 0 \/ at > Len(text))
    <3>1. text # Gone /\ string # Gone
      BY NotGone
    <3>2. at <= len
      BY <1>0
    <3>3. ~(at < 0) /\ ~(at > len)
      BY <3>2
    <3> QED
      BY <3>1, <3>3, <1>0, Zenon
  <2> QED
    BY <2>1, Zenon DEF Inserted
<1> HIDE DEF u, v
<1> DEFINE w == u \o string
<1>5. /\ w \in Seq(Char) /\ Len(w) = at + n
      /\ \A i \in 1..(at + n) : w[i] = IF i <= at THEN u[i] ELSE string[i - at]
  BY <1>0, <1>2, ConcatProperties
<1> HIDE DEF w
<1>6. /\ w \o v \in Seq(Char) /\ Len(w \o v) = Len(w) + Len(v)
      /\ \A i \in 1..(Len(w) + Len(v)) :
           (w \o v)[i] = IF i <= Len(w) THEN w[i] ELSE v[i - Len(w)]
  BY <1>5, <1>3, ConcatProperties
<1>7. Len(w) + Len(v) = len + n
  BY <1>5, <1>3
<1>8. ASSUME NEW i \in 1..(len + n)
      PROVE  (w \o v)[i] = IF i <= at THEN text[i]
                           ELSE IF i <= at + n THEN string[i - at] ELSE text[i - n]
  <2>1. (w \o v)[i] = IF i <= at + n THEN w[i] ELSE v[i - (at + n)]
    <3>1. i \in 1..(Len(w) + Len(v)) /\ Len(w) = at + n
      BY <1>7, <1>5, Zenon
    <3>2. (w \o v)[i] = IF i <= Len(w) THEN w[i] ELSE v[i - Len(w)]
      BY <3>1, <1>6, Zenon
    <3> QED
      BY <3>1, <3>2, Zenon
  <2>2. CASE i <= at
    <3>1. i <= at + n /\ i \in 1..(at + n) /\ i \in 1..at
      BY <2>2
    <3> QED
      BY <2>1, <2>2, <3>1, <1>2, <1>5
  <2>3. CASE at < i /\ i <= at + n
    <3>1. i \in 1..(at + n) /\ ~(i <= at)
      BY <2>3
    <3> QED
      BY <2>1, <2>3, <3>1, <1>5
  <2>4. CASE at + n < i
    <3>0. at <= len
      BY <1>0, Zenon
    <3>1. i - (at + n) \in 1..(len - at) /\ at + (i - (at + n)) = i - n
          /\ ~(i <= at + n) /\ ~(i <= at)
      BY <2>4, <3>0
    <3>2. v[i - (at + n)] = text[at + (i - (at + n))]
      BY <3>1, <1>3, Zenon
    <3> QED
      BY <2>1, <3>1, <3>2
  <2>5. i <= at \/ (at < i /\ i <= at + n) \/ at + n < i
    OBVIOUS
  <2> QED
    BY <2>2, <2>3, <2>4, <2>5, Zenon
<1>9. Inserted(text, at, string) = w \o v
  BY <1>4 DEF w
<1> QED
  BY <1>0, <1>6, <1>7, <1>8, <1>9

LEMMA BlanksAre ==
  ASSUME NEW n \in Nat
  PROVE  Blanks(n) \in Seq(Char) /\ Len(Blanks(n)) = n
<1>1. Blanks(n) \in [1..n -> Char]
  BY DEF Blanks, Blank, Char
<1> QED
  BY <1>1

LEMMA BlankStringIs ==
  ASSUME columnCount \in Nat, NEW n \in Int
  PROVE  /\ n \in 0..columnCount =>
              BlankString(n) \in Seq(Char) /\ Len(BlankString(n)) = n
         /\ n \notin 0..columnCount => BlankString(n) = Gone
<1>1. n \in 0..columnCount => n \in Nat
  OBVIOUS
<1> QED
  BY <1>1, BlanksAre DEF BlankString

(* Edits that leave no screen. *)
LEMMA GoneIs == Gone \in Seq(Int) /\ Len(Gone) = 1
  BY DEF Gone

LEMMA NothingLeft ==
  ASSUME NEW text \in Seq(Int), NEW string, NEW at \in Int, NEW n \in Int
  PROVE  /\ text = Gone \/ at < 0 \/ n < 0 \/ at + n > Len(text) =>
                Deleted(text, at, n) = Gone
         /\ text = Gone \/ string = Gone => Inserted(text, at, string) = Gone
         /\ text = Gone \/ at < 0 \/ n < 0 \/ at + n > Len(text) =>
                Replaced(text, at, n, string) = Gone
  BY DEF Deleted, Inserted, Replaced

(* What takes the place of n cells. *)
LEMMA ReplacedIs ==
  ASSUME NEW text \in Seq(Char), NEW string \in Seq(Char),
         NEW at \in Nat, NEW n \in Nat, at + n <= Len(text)
  PROVE  /\ Replaced(text, at, n, string) \in Seq(Char)
         /\ Len(Replaced(text, at, n, string)) = Len(text) - n + Len(string)
         /\ Len(string) = n =>
              \A i \in 1..Len(text) : i <= at \/ at + n < i =>
                 Replaced(text, at, n, string)[i] = text[i]
<1>0. PICK len \in Nat, k \in Nat : len = Len(text) /\ k = Len(string)
  BY LenProperties
<1> DEFINE u == Deleted(text, at, n)
           w == Inserted(u, at, string)
<1>1. /\ u \in Seq(Char) /\ Len(u) = len - n
      /\ \A i \in 1..(len - n) : u[i] = IF i <= at THEN text[i] ELSE text[i + n]
  <2>1. /\ u \in Seq(Char) /\ Len(u) = Len(text) - n
        /\ \A i \in 1..(Len(text) - n) : u[i] = IF i <= at THEN text[i] ELSE text[i + n]
    BY DeletedIs
  <2> HIDE DEF u
  <2> QED
    BY <2>1, <1>0, Zenon
<1> HIDE DEF u
<1>2. at <= len - n /\ at <= Len(u)
  BY <1>0, <1>1
<1>3. /\ w \in Seq(Char) /\ Len(w) = Len(u) + Len(string)
      /\ \A i \in 1..(Len(u) + Len(string)) :
           w[i] = IF i <= at THEN u[i]
                  ELSE IF i <= at + Len(string) THEN string[i - at]
                  ELSE u[i - Len(string)]
  <2>1. u \in Seq(Char)
    BY <1>1
  <2>2. at <= Len(u)
    BY <1>2
  <2> QED
    BY <2>1, <2>2, InsertedIs
<1>4. Replaced(text, at, n, string) = w
  BY DEF Replaced, u, w
<1> HIDE DEF w
<1>5. Len(w) = len - n + k
  BY <1>0, <1>1, <1>3
<1>6. ASSUME k = n, NEW i \in 1..len, i <= at \/ at + n < i
      PROVE  w[i] = text[i]
  <2>1. i \in 1..(Len(u) + Len(string))
    BY <1>0, <1>1, <1>6
  <2>2. w[i] = IF i <= at THEN u[i] ELSE IF i <= at + n THEN string[i - at]
               ELSE u[i - n]
    BY <2>1, <1>0, <1>3, <1>6, Zenon
  <2>3. CASE i <= at
    <3>1. i \in 1..(len - n)
      BY <1>2, <2>3
    <3>2. u[i] = text[i]
      BY <3>1, <1>1, <2>3, Zenon
    <3> QED
      BY <2>2, <2>3, <3>2, Zenon
  <2>4. CASE at + n < i
    <3>1. i - n \in 1..(len - n) /\ ~(i - n <= at) /\ ~(i <= at) /\ ~(i <= at + n)
          /\ i - n + n = i
      BY <2>4
    <3>2. u[i - n] = text[i - n + n]
      BY <3>1, <1>1, Zenon
    <3> QED
      BY <2>2, <3>1, <3>2, Zenon
  <2> QED
    BY <1>6, <2>3, <2>4, Zenon
<1> QED
  BY <1>0, <1>3, <1>4, <1>5, <1>6

(* n cells leave at one place, n others come in at another. *)
LEMMA MovedIs ==
  ASSUME NEW text \in Seq(Char), NEW string \in Seq(Char),
         NEW out \in Nat, NEW into \in Nat, NEW n \in Nat,
         out + n <= Len(text), into + n <= Len(text), Len(string) = n
  PROVE  LET moved == Inserted(Deleted(text, out, n), into, string) IN
         /\ moved \in Seq(Char)
         /\ Len(moved) = Len(text)
         /\ \A i \in 1..Len(text) :
              /\ i <= out /\ i <= into => moved[i] = text[i]
              /\ out + n < i /\ into + n < i => moved[i] = text[i]
<1>0. PICK len \in Nat : len = Len(text)
  BY LenProperties
<1> DEFINE u == Deleted(text, out, n)
           w == Inserted(u, into, string)
<1>1. /\ u \in Seq(Char) /\ Len(u) = len - n
      /\ \A i \in 1..(len - n) : u[i] = IF i <= out THEN text[i] ELSE text[i + n]
  <2>1. /\ u \in Seq(Char) /\ Len(u) = Len(text) - n
        /\ \A i \in 1..(Len(text) - n) : u[i] = IF i <= out THEN text[i] ELSE text[i + n]
    BY DeletedIs
  <2> HIDE DEF u
  <2> QED
    BY <2>1, <1>0, Zenon
<1> HIDE DEF u
<1>2. into <= len - n /\ out <= len - n /\ into <= Len(u)
  BY <1>0, <1>1
<1>3. /\ w \in Seq(Char) /\ Len(w) = Len(u) + Len(string)
      /\ \A i \in 1..(Len(u) + Len(string)) :
           w[i] = IF i <= into THEN u[i]
                  ELSE IF i <= into + Len(string) THEN string[i - into]
                  ELSE u[i - Len(string)]
  <2>1. u \in Seq(Char)
    BY <1>1
  <2>2. into <= Len(u)
    BY <1>2
  <2>3. \A t \in Seq(Char), p \in Nat : p <= Len(t) =>
          /\ Inserted(t, p, string) \in Seq(Char)
          /\ Len(Inserted(t, p, string)) = Len(t) + Len(string)
          /\ \A i \in 1..(Len(t) + Len(string)) :
               Inserted(t, p, string)[i] =
                 IF i <= p THEN t[i]
                 ELSE IF i <= p + Len(string) THEN string[i - p]
                 ELSE t[i - Len(string)]
    BY InsertedIs
  <2> QED
    BY <2>1, <2>2, <2>3, Zenon
<1> HIDE DEF w
<1>5. Len(w) = len /\ Len(u) + Len(string) = len
  BY <1>0, <1>1, <1>3
<1>6. \A i \in 1..len :
           w[i] = IF i <= into THEN u[i]
                  ELSE IF i <= into + n THEN string[i - into]
                  ELSE u[i - n]
  BY <1>3, <1>5, Zenon
<1>7. ASSUME NEW i \in 1..len, i <= out, i <= into
      PROVE  w[i] = text[i]
  <2>1. i \in 1..(len - n)
    BY <1>2, <1>7
  <2>2. u[i] = text[i] /\ w[i] = u[i]
    BY <2>1, <1>1, <1>6, <1>7, Zenon
  <2> QED
    BY <2>2
<1>8. ASSUME NEW i \in 1..len, out + n < i, into + n < i
      PROVE  w[i] = text[i]
  <2>1. i - n \in 1..(len - n) /\ ~(i - n <= out) /\ ~(i <= into) /\ ~(i <= into + n)
        /\ i - n + n = i
    BY <1>8
  <2>2. u[i - n] = text[i - n + n]
    BY <2>1, <1>1, Zenon
  <2>3. w[i] = u[i - n]
    BY <2>1, <1>6, Zenon
  <2> QED
    BY <2>1, <2>2, <2>3, Zenon
<1>9. Inserted(Deleted(text, out, n), into, string) = w
  BY DEF u, w
<1> QED
  BY <1>0, <1>3, <1>5, <1>7, <1>8, <1>9, Zenon

\* moved is text but for what left behind out and what came in behind into.
Moves(moved, text, out, into, n) ==
  /\ moved \in Seq(Char)
  /\ Len(moved) = Len(text)
  /\ \A i \in 1..Len(text) :
       /\ i <= out /\ i <= into => moved[i] = text[i]
       /\ out + n < i /\ into + n < i => moved[i] = text[i]

LEMMA MovedAll ==
  ASSUME NEW text \in Seq(Char), NEW string \in Seq(Char),
         NEW out \in Nat, NEW into \in Nat, NEW n \in Nat,
         out + n <= Len(text), into + n <= Len(text), Len(string) = n
  PROVE  Moves(Inserted(Deleted(text, out, n), into, string), text, out, into, n)
  BY MovedIs DEF Moves

LEMMA FilledIs ==
  ASSUME NEW text \in Seq(Char), NEW rows, NEW cell \in Char
  PROVE  /\ Filled(text, rows, cell) \in Seq(Char)
         /\ Len(Filled(text, rows, cell)) = Len(text)
         /\ \A i \in 1..Len(text) : (i - 1) \div columnCount \notin rows =>
               Filled(text, rows, cell)[i] = text[i]
<1>0. PICK len \in Nat : len = Len(text)
  BY LenProperties
<1>1. \A i \in 1..len : text[i] \in Char
  BY <1>0, ElementOfSeq
<1> DEFINE u == [i \in 1..len |->
                   IF (i - 1) \div columnCount \in rows THEN cell ELSE text[i]]
<1>2. Filled(text, rows, cell) = u
  BY NotGone, <1>0 DEF Filled
<1>3. u \in [1..len -> Char]
  <2>1. \A i \in 1..len :
          (IF (i - 1) \div columnCount \in rows THEN cell ELSE text[i]) \in Char
    BY <1>1, Zenon
  <2> QED
    BY <2>1, Zenon
<1>4. \A i \in 1..len : (i - 1) \div columnCount \notin rows => u[i] = text[i]
  BY Zenon
<1> HIDE DEF u
<1>5. u \in Seq(Char) /\ Len(u) = len
  BY <1>3
<1> QED
  BY <1>0, <1>2, <1>4, <1>5, Zenon

(***************************************************************************)
(* The methods.                                                            *)
(***************************************************************************)

LEMMA invalidateLineIs ==
  ASSUME NEW s \in Screen, NEW rows \in SUBSET Int
  PROVE  /\ invalidateLine(s, rows) \in Screen
         /\ invalidateLine(s, rows).x = s.x /\ invalidateLine(s, rows).y = s.y
         /\ invalidateLine(s, rows).text = s.text
         /\ invalidateLine(s, rows).marks = s.marks \cup rows
  BY DEF invalidateLine, Screen

LEMMA AtColumnIs ==
  ASSUME NEW s \in Screen, NEW col \in Int
  PROVE  /\ AtColumn(s, col) \in Screen
         /\ AtColumn(s, col).x = col /\ AtColumn(s, col).y = s.y
         /\ AtColumn(s, col).text = s.text
  BY DEF AtColumn, invalidateLine, Screen

LEMMA ToRowIs ==
  ASSUME NEW s \in Screen, NEW row \in Int
  PROVE  /\ ToRow(s, row) \in Screen
         /\ ToRow(s, row).x = s.x /\ ToRow(s, row).y = row
         /\ ToRow(s, row).text = s.text
  BY DEF ToRow, invalidateLine, Screen

LEMMA WithText ==
  ASSUME NEW s \in Screen, NEW t \in Seq(Int), NEW rows \in SUBSET Int
  PROVE  LET u == invalidateLine([s EXCEPT !.text = t], rows) IN
         /\ u \in Screen /\ u.x = s.x /\ u.y = s.y /\ u.text = t
         /\ u.marks = s.marks \cup rows
  BY DEF invalidateLine, Screen

LEMMA WithColumn ==
  ASSUME NEW s \in Screen, NEW col \in Int
  PROVE  /\ [s EXCEPT !.x = col] \in Screen
         /\ [s EXCEPT !.x = col].x = col /\ [s EXCEPT !.x = col].y = s.y
         /\ [s EXCEPT !.x = col].text = s.text
  BY DEF Screen

LEMMA WholeIs ==
  ASSUME NEW text, IsWhole(text)
  PROVE  text \in Seq(Int)
<1>1. Char \subseteq Int
  BY DEF Char, Written
<1> QED
  BY <1>1, SeqMonotonic DEF IsWhole

LEMMA SmallestIs ==
  ASSUME NEW a \in Int, NEW b \in Int
  PROVE  /\ Smallest(a, b) \in Int /\ Smallest(a, b) <= a /\ Smallest(a, b) <= b
         /\ (Smallest(a, b) = a \/ Smallest(a, b) = b)
  BY DEF Smallest

LEMMA LargestIs ==
  ASSUME NEW a \in Int, NEW b \in Int
  PROVE  /\ Largest(a, b) \in Int /\ a <= Largest(a, b) /\ b <= Largest(a, b)
         /\ (Largest(a, b) = a \/ Largest(a, b) = b)
  BY DEF Largest

(* Rows of blanks leave or come in: the ranges are on the screen. *)
LEMMA RegionIs ==
  ASSUME Bounded, NEW low \in Int, NEW high \in Int, NEW count \in Int,
         0 <= low, low <= high, high <= rowCount,
         0 <= count, count <= high - low
  PROVE  /\ low * columnCount \in Nat /\ high * columnCount \in Nat
         /\ count * columnCount \in Nat
         /\ (high - count) * columnCount = high * columnCount - count * columnCount
         /\ low * columnCount + count * columnCount <= high * columnCount
         /\ high * columnCount <= Size
<1>1. columnCount \in Nat /\ rowCount \in Int
  BY DEF Bounded
<1>2. /\ 0 * columnCount <= low * columnCount
      /\ 0 * columnCount <= high * columnCount
      /\ 0 * columnCount <= count * columnCount
      /\ (low + count) * columnCount <= high * columnCount
      /\ high * columnCount <= rowCount * columnCount
  <2>1. low + count \in Int /\ low + count <= high /\ 0 <= high
    OBVIOUS
  <2> QED
    BY <1>1, <2>1, RowsInOrder
<1>3. /\ (low + count) * columnCount = low * columnCount + count * columnCount
      /\ (high - count) * columnCount = high * columnCount - count * columnCount
      /\ 0 * columnCount = 0
  BY <1>1, RowsApart
<1>4. PICK a, b, k, z \in Int :
        /\ a = low * columnCount /\ b = high * columnCount /\ k = count * columnCount
        /\ z = rowCount * columnCount
  BY <1>1
<1>5. 0 <= a /\ 0 <= b /\ 0 <= k /\ a + k <= b /\ b <= z
      /\ (high - count) * columnCount = b - k
  BY <1>2, <1>3, <1>4
<1>6. a \in Nat /\ b \in Nat /\ k \in Nat
  BY <1>5
<1> QED
  BY <1>4, <1>5, <1>6 DEF Size

LEMMA NegativeRows ==
  ASSUME columnCount \in Nat, columnCount >= 2, NEW n \in Int, n < 0
  PROVE  n * columnCount \in Int /\ n * columnCount < 0
<1>1. n * columnCount <= (-1) * columnCount
  BY RowsInOrder
<1>2. (-1) * columnCount = 0 - columnCount /\ n * columnCount \in Int
  OBVIOUS
<1> QED
  BY <1>1, <1>2

(* The rows from low to high - 1 move by count rows, down or up. *)
LEMMA RowsMove ==
  ASSUME Bounded, NEW text, IsWhole(text),
         NEW low \in Int, NEW high \in Int, NEW count \in Int,
         0 <= low, low <= high, high <= rowCount,
         0 <= count, count <= high - low
  PROVE  LET down == Inserted(Deleted(text, (high - count) * columnCount,
                                      count * columnCount),
                              low * columnCount, Blanks(count * columnCount))
             up == Inserted(Deleted(text, low * columnCount, count * columnCount),
                            (high - count) * columnCount, Blanks(count * columnCount))
         IN  /\ IsWhole(down)
             /\ AgreeOutside(text, down, low * columnCount, high * columnCount)
             /\ IsWhole(up)
             /\ AgreeOutside(text, up, low * columnCount, high * columnCount)
<1>1. PICK a, b, k \in Nat :
           /\ a = low * columnCount /\ b = high * columnCount
           /\ k = count * columnCount
           /\ (high - count) * columnCount = b - k
           /\ a + k <= b /\ b <= Size
  <2>1. /\ low * columnCount \in Nat /\ high * columnCount \in Nat
        /\ count * columnCount \in Nat
        /\ (high - count) * columnCount = high * columnCount - count * columnCount
        /\ low * columnCount + count * columnCount <= high * columnCount
        /\ high * columnCount <= Size
    BY RegionIs
  <2> QED
    BY <2>1, Zenon
<1>2. PICK o \in Nat : o = b - k
  <2>1. b - k \in Nat
    BY <1>1
  <2> QED
    BY <2>1
<1>3. o + k <= Size /\ a + k <= Size /\ o + k = b /\ a <= o
  BY <1>1, <1>2, SizeIs
<1>4. text \in Seq(Char) /\ Len(text) = Size
  BY DEF IsWhole
<1>5. Blanks(k) \in Seq(Char) /\ Len(Blanks(k)) = k
  BY BlanksAre
<1>6. o + k <= Len(text) /\ a + k <= Len(text)
  BY <1>3, <1>4
<1>7. ASSUME NEW i \in 1..Size, i <= a \/ b < i
      PROVE  (i <= o /\ i <= a) \/ (o + k < i /\ a + k < i)
  <2>1. Size \in Nat
    BY SizeIs
  <2> QED
    BY <1>3, <1>7, <2>1
<1> DEFINE down == Inserted(Deleted(text, o, k), a, Blanks(k))
           up == Inserted(Deleted(text, a, k), o, Blanks(k))
<1>8. /\ down \in Seq(Char) /\ Len(down) = Len(text)
      /\ \A i \in 1..Len(text) :
              /\ i <= o /\ i <= a => down[i] = text[i]
              /\ o + k < i /\ a + k < i => down[i] = text[i]
  BY <1>4, <1>5, <1>6, MovedIs
<1>9. /\ up \in Seq(Char) /\ Len(up) = Len(text)
      /\ \A i \in 1..Len(text) :
              /\ i <= a /\ i <= o => up[i] = text[i]
              /\ a + k < i /\ o + k < i => up[i] = text[i]
  BY <1>4, <1>5, <1>6, MovedIs
<1>10. /\ down = Inserted(Deleted(text, (high - count) * columnCount,
                                   count * columnCount),
                           low * columnCount, Blanks(count * columnCount))
       /\ up = Inserted(Deleted(text, low * columnCount, count * columnCount),
                         (high - count) * columnCount, Blanks(count * columnCount))
  BY <1>1, <1>2
<1> HIDE DEF down, up
<1>11. IsWhole(down) /\ IsWhole(up)
  BY <1>4, <1>8, <1>9 DEF IsWhole
<1>12. AgreeOutside(text, down, a, b)
  <2>1. ASSUME NEW i \in 1..Size, i <= a \/ b < i
        PROVE  text[i] = down[i]
    BY <1>4, <1>7, <1>8, <2>1, Zenon
  <2> QED
    BY <2>1 DEF AgreeOutside
<1>13. AgreeOutside(text, up, a, b)
  <2>1. ASSUME NEW i \in 1..Size, i <= a \/ b < i
        PROVE  text[i] = up[i]
    BY <1>4, <1>7, <1>9, <2>1, Zenon
  <2> QED
    BY <2>1 DEF AgreeOutside
<1> QED
  BY <1>1, <1>10, <1>11, <1>12, <1>13, Zenon

LEMMA NegativeRowsGone ==
  ASSUME Bounded, NEW text, IsWhole(text), NEW at \in Int, NEW count \in Int, count < 0
  PROVE  Deleted(text, at, count * columnCount) = Gone
<1>1. count * columnCount < 0 /\ count * columnCount \in Int
  BY NegativeRows DEF Bounded
<1>2. text \in Seq(Int)
  BY WholeIs
<1> QED
  BY <1>1, <1>2, NothingLeft

LEMMA scrollBackIs ==
  ASSUME Bounded, NEW s \in Screen, IsWhole(s.text), NEW n \in Int
  PROVE  LET t == scrollBack(s, n) IN
         /\ t \in Screen /\ t.x = s.x /\ t.y = s.y
         /\ t.marks = s.marks \cup {topMargin, bottomMargin}
         /\ n >= 0 => /\ IsWhole(t.text)
                      /\ AgreeOutside(s.text, t.text, topMargin * columnCount,
                                      (bottomMargin + 1) * columnCount)
         /\ n < 0 => t.text = Gone
<1>0. /\ columnCount \in Nat /\ rowCount \in Nat /\ topMargin \in Int
      /\ bottomMargin \in Int /\ topMargin <= bottomMargin /\ bottomMargin + 1 <= rowCount
      /\ 0 <= topMargin
  BY DEF Bounded
<1>1. PICK high \in Int : high = bottomMargin + 1
  BY <1>0
<1>2. PICK count \in Int : count = Smallest(n, bottomMargin - topMargin + 1)
  BY <1>0, SmallestIs
<1>3. /\ count <= high - topMargin /\ topMargin <= high /\ high <= rowCount
      /\ n >= 0 => 0 <= count
      /\ n < 0 => count < 0
  BY <1>0, <1>1, <1>2 DEF Smallest
<1> DEFINE text == Inserted(Deleted(s.text, (bottomMargin + 1 - count) * columnCount,
                                    count * columnCount),
                            topMargin * columnCount, Blanks(count * columnCount))
<1>4. scrollBack(s, n) = invalidateLine([s EXCEPT !.text = text], {topMargin, bottomMargin})
  BY <1>2 DEF scrollBack
<1>5. {topMargin, bottomMargin} \in SUBSET Int
  BY <1>0
<1>6. n >= 0 => /\ IsWhole(text)
               /\ AgreeOutside(s.text, text, topMargin * columnCount, high * columnCount)
  <2>1. SUFFICES ASSUME n >= 0
                 PROVE  /\ IsWhole(text)
                        /\ AgreeOutside(s.text, text, topMargin * columnCount,
                                        high * columnCount)
    OBVIOUS
  <2>2. 0 <= count
    BY <1>3, <2>1
  <2>3. text = Inserted(Deleted(s.text, (high - count) * columnCount,
                                    count * columnCount),
                            topMargin * columnCount, Blanks(count * columnCount))
    <3>1. bottomMargin + 1 - count = high - count
      BY <1>0, <1>1
    <3> QED
      BY <3>1
  <2>4. LET t == Inserted(Deleted(s.text, (high - count) * columnCount,
                                         count * columnCount),
                                 topMargin * columnCount, Blanks(count * columnCount)) IN
        IsWhole(t) /\ AgreeOutside(s.text, t, topMargin * columnCount, high * columnCount)
    <3> HIDE DEF text
    <3> QED
      BY <1>0, <1>3, <2>2, RowsMove
  <2> HIDE DEF text
  <2> QED
    BY <2>3, <2>4, Zenon
<1>7. n < 0 => text = Gone
  <2>1. SUFFICES ASSUME n < 0
                 PROVE  text = Gone
    OBVIOUS
  <2>2. (bottomMargin + 1 - count) * columnCount \in Int
    <3>1. bottomMargin + 1 - count \in Int
      BY <1>0
    <3> QED
      BY <3>1, <1>0
  <2>3. Deleted(s.text, (bottomMargin + 1 - count) * columnCount, count * columnCount) = Gone
    BY <1>3, <2>1, <2>2, NegativeRowsGone
  <2> QED
    BY <2>3 DEF Inserted
<1> HIDE DEF text
<1>8. text \in Seq(Int)
  BY <1>6, <1>7, WholeIs, GoneIs
<1>9. LET t == scrollBack(s, n) IN
         /\ t \in Screen /\ t.x = s.x /\ t.y = s.y /\ t.text = text
         /\ t.marks = s.marks \cup {topMargin, bottomMargin}
  BY <1>4, <1>5, <1>8, WithText
<1> QED
  BY <1>1, <1>6, <1>7, <1>9, Zenon

LEMMA scrollWithinIs ==
  ASSUME Bounded, NEW s \in Screen, IsWhole(s.text), NEW n \in Int
  PROVE  LET t == scrollWithin(s, n) IN
         /\ t \in Screen /\ t.x = s.x /\ t.y = s.y
         /\ t.marks = s.marks \cup {topMargin, bottomMargin}
         /\ n >= 0 => /\ IsWhole(t.text)
                      /\ AgreeOutside(s.text, t.text, topMargin * columnCount,
                                      (bottomMargin + 1) * columnCount)
         /\ n < 0 => t.text = Gone
<1>0. /\ columnCount \in Nat /\ rowCount \in Nat /\ topMargin \in Int
      /\ bottomMargin \in Int /\ topMargin <= bottomMargin /\ bottomMargin + 1 <= rowCount
      /\ 0 <= topMargin
  BY DEF Bounded
<1>1. PICK high \in Int : high = bottomMargin + 1
  BY <1>0
<1>2. PICK count \in Int : count = Smallest(n, bottomMargin - topMargin + 1)
  BY <1>0, SmallestIs
<1>3. /\ count <= high - topMargin /\ topMargin <= high /\ high <= rowCount
      /\ n >= 0 => 0 <= count
      /\ n < 0 => count < 0
  BY <1>0, <1>1, <1>2 DEF Smallest
<1> DEFINE text == Inserted(Deleted(s.text, topMargin * columnCount, count * columnCount),
                            (bottomMargin + 1 - count) * columnCount,
                            Blanks(count * columnCount))
<1>4. scrollWithin(s, n) = invalidateLine([s EXCEPT !.text = text], {topMargin, bottomMargin})
  BY <1>2 DEF scrollWithin
<1>5. {topMargin, bottomMargin} \in SUBSET Int
  BY <1>0
<1>6. n >= 0 => /\ IsWhole(text)
               /\ AgreeOutside(s.text, text, topMargin * columnCount, high * columnCount)
  <2>1. SUFFICES ASSUME n >= 0
                 PROVE  /\ IsWhole(text)
                        /\ AgreeOutside(s.text, text, topMargin * columnCount,
                                        high * columnCount)
    OBVIOUS
  <2>2. 0 <= count
    BY <1>3, <2>1
  <2>3. text = Inserted(Deleted(s.text, topMargin * columnCount, count * columnCount),
                            (high - count) * columnCount,
                            Blanks(count * columnCount))
    <3>1. bottomMargin + 1 - count = high - count
      BY <1>0, <1>1
    <3> QED
      BY <3>1
  <2>4. LET t == Inserted(Deleted(s.text, topMargin * columnCount, count * columnCount),
                                 (high - count) * columnCount,
                                 Blanks(count * columnCount)) IN
        IsWhole(t) /\ AgreeOutside(s.text, t, topMargin * columnCount, high * columnCount)
    <3> HIDE DEF text
    <3> QED
      BY <1>0, <1>3, <2>2, RowsMove
  <2> HIDE DEF text
  <2> QED
    BY <2>3, <2>4, Zenon
<1>7. n < 0 => text = Gone
  <2>1. SUFFICES ASSUME n < 0
                 PROVE  text = Gone
    OBVIOUS
  <2>2. topMargin * columnCount \in Int
    <3>1. topMargin \in Int
      BY <1>0
    <3> QED
      BY <3>1, <1>0
  <2>3. Deleted(s.text, topMargin * columnCount, count * columnCount) = Gone
    BY <1>3, <2>1, <2>2, NegativeRowsGone
  <2> QED
    BY <2>3 DEF Inserted
<1> HIDE DEF text
<1>8. text \in Seq(Int)
  BY <1>6, <1>7, WholeIs, GoneIs
<1>9. LET t == scrollWithin(s, n) IN
         /\ t \in Screen /\ t.x = s.x /\ t.y = s.y /\ t.text = text
         /\ t.marks = s.marks \cup {topMargin, bottomMargin}
  BY <1>4, <1>5, <1>8, WithText
<1> QED
  BY <1>1, <1>6, <1>7, <1>9, Zenon

LEMMA addLineIs ==
  ASSUME Bounded, NEW s \in Screen, IsWhole(s.text), NEW n \in Int
  PROVE  LET t == addLine(s, n) IN
         /\ t \in Screen /\ t.x = s.x /\ t.y = s.y
         /\ t.marks = s.marks \cup 0..(rowCount - 1)
         /\ n >= 0 => IsWhole(t.text)
         /\ n < 0 => t.text = Gone
<1>0. columnCount \in Nat /\ rowCount \in Int /\ 0 <= rowCount
  BY DEF Bounded
<1>1. PICK count \in Int : count = Smallest(n, rowCount)
  BY <1>0, SmallestIs
<1>2. /\ count <= rowCount - 0
      /\ n >= 0 => 0 <= count
      /\ n < 0 => count < 0
  BY <1>0, <1>1 DEF Smallest
<1> DEFINE rest == Deleted(s.text, 0, count * columnCount)
           text == Inserted(rest, Len(rest), Blanks(count * columnCount))
<1>3. addLine(s, n) = invalidateLine([s EXCEPT !.text = text], 0..(rowCount - 1))
  BY <1>1 DEF addLine
<1>4. 0..(rowCount - 1) \in SUBSET Int
  BY <1>0
<1>5. n >= 0 => IsWhole(text)
  <2>1. SUFFICES ASSUME n >= 0
                 PROVE  IsWhole(text)
    OBVIOUS
  <2>2. PICK k \in Nat : k = count * columnCount /\ k <= Size
    <3>1. 0 * columnCount <= count * columnCount /\ count * columnCount <= rowCount * columnCount
          /\ count * columnCount \in Int
      BY <1>0, <1>2, <2>1, RowsInOrder
    <3>2. 0 * columnCount = 0
      BY <1>0
    <3>3. count * columnCount \in Nat
      BY <3>1, <3>2
    <3> QED
      BY <3>1, <3>3 DEF Size
  <2>3. s.text \in Seq(Char) /\ Len(s.text) = Size /\ Size \in Nat
    BY SizeIs DEF IsWhole
  <2>4. rest \in Seq(Char) /\ Len(rest) = Size - k
    <3>1. 0 + k <= Len(s.text) /\ 0 \in Nat
      BY <2>2, <2>3
    <3>2. Deleted(s.text, 0, k) \in Seq(Char) /\ Len(Deleted(s.text, 0, k)) = Len(s.text) - k
      BY <2>3, <3>1, DeletedIs
    <3> QED
      BY <2>2, <2>3, <3>2
  <2>5. Blanks(k) \in Seq(Char) /\ Len(Blanks(k)) = k
    BY BlanksAre
  <2>6. text = Inserted(rest, Len(rest), Blanks(k))
    BY <2>2
  <2> HIDE DEF rest, text
  <2>7. Len(rest) \in Nat /\ Len(rest) <= Len(rest)
    BY <2>2, <2>3, <2>4
  <2>8. text \in Seq(Char) /\ Len(text) = Len(rest) + Len(Blanks(k))
    BY <2>4, <2>5, <2>6, <2>7, InsertedIs
  <2>9. Len(text) = Size
    BY <2>2, <2>3, <2>4, <2>5, <2>8
  <2> QED
    BY <2>8, <2>9 DEF IsWhole
<1>6. n < 0 => text = Gone
  <2>1. SUFFICES ASSUME n < 0
                 PROVE  text = Gone
    OBVIOUS
  <2>2. rest = Gone
    BY <1>2, <2>1, NegativeRowsGone
  <2> QED
    BY <2>2 DEF Inserted
<1> HIDE DEF text
<1>7. text \in Seq(Int)
  BY <1>5, <1>6, WholeIs, GoneIs
<1>8. PICK rows \in SUBSET Int : rows = 0..(rowCount - 1)
  BY <1>4
<1>9. /\ addLine(s, n) \in Screen /\ addLine(s, n).x = s.x /\ addLine(s, n).y = s.y
      /\ addLine(s, n).text = text
      /\ addLine(s, n).marks = s.marks \cup 0..(rowCount - 1)
  <2>1. addLine(s, n) = invalidateLine([s EXCEPT !.text = text], rows)
    BY <1>3, <1>8, Zenon
  <2>2. LET t == addLine(s, n) IN
         /\ t \in Screen /\ t.x = s.x /\ t.y = s.y /\ t.text = text
         /\ t.marks = s.marks \cup rows
    BY <2>1, <1>7, WithText
  <2> QED
    BY <2>2, <1>8
<1> QED
  BY <1>5, <1>6, <1>9

(* What a line feed at the bottom margin does, in either mode. *)
LEMMA scrollFeedIs ==
  ASSUME Bounded, NEW s \in Screen, IsWhole(s.text), NEW n \in Int
  PROVE  LET t == scrollFeed(s, n) IN
         /\ t \in Screen /\ t.x = s.x /\ t.y = s.y
         /\ n >= 0 => IsWhole(t.text)
         /\ n < 0 => t.text = Gone
<1>1. CASE IntoView
  BY <1>1, addLineIs, Zenon DEF scrollFeed
<1>2. CASE ~IntoView
  BY <1>2, scrollWithinIs, Zenon DEF scrollFeed
<1> QED
  BY <1>1, <1>2

(* The cells of one row. *)
LEMMA RowIs ==
  ASSUME Bounded, NEW y \in Int, 0 <= y, y < rowCount
  PROVE  /\ y * columnCount \in Nat
         /\ (y + 1) * columnCount = y * columnCount + columnCount
         /\ y * columnCount + columnCount <= Size
<1>1. columnCount \in Nat /\ rowCount \in Int
  BY DEF Bounded
<1>2. /\ 0 * columnCount <= y * columnCount
      /\ (y + 1) * columnCount <= rowCount * columnCount
      /\ y * columnCount \in Int
  <2>1. y + 1 \in Int /\ y + 1 <= rowCount
    BY <1>1
  <2> QED
    BY <1>1, <2>1, RowsInOrder
<1>3. (y + 1) * columnCount = y * columnCount + columnCount /\ 0 * columnCount = 0
  BY <1>1, NextRow
<1> QED
  BY <1>2, <1>3 DEF Size

LEMMA CellsBlanked ==
  ASSUME Bounded, NEW text, IsWhole(text), NEW at \in Nat, NEW n \in Nat,
         n <= columnCount, at + n <= Size
  PROVE  LET t == Replaced(text, at, n, BlankString(n)) IN
         IsWhole(t) /\ AgreeOutside(text, t, at, at + n)
<1>1. text \in Seq(Char) /\ Len(text) = Size /\ Size \in Nat
  BY SizeIs DEF IsWhole
<1>2. PICK string \in Seq(Char) : string = BlankString(n) /\ Len(string) = n
  <2>1. n \in 0..columnCount /\ columnCount \in Nat /\ n \in Int
    BY DEF Bounded
  <2> QED
    BY <2>1, BlankStringIs
<1> DEFINE t == Replaced(text, at, n, string)
<1>3. /\ t \in Seq(Char) /\ Len(t) = Len(text) - n + Len(string)
      /\ Len(string) = n =>
           \A i \in 1..Len(text) : i <= at \/ at + n < i => t[i] = text[i]
  <2>1. PICK u \in Seq(Char) : u = text
    BY <1>1
  <2>2. at + n <= Len(u)
    BY <1>1, <2>1
  <2>3. /\ Replaced(u, at, n, string) \in Seq(Char)
        /\ Len(Replaced(u, at, n, string)) = Len(u) - n + Len(string)
        /\ Len(string) = n =>
             \A i \in 1..Len(u) : i <= at \/ at + n < i => Replaced(u, at, n, string)[i] = u[i]
    BY <2>2, ReplacedIs
  <2> QED
    BY <2>1, <2>3, Zenon
<1> HIDE DEF t
<1>4. Len(t) = Size
  BY <1>1, <1>2, <1>3
<1>5. AgreeOutside(text, t, at, at + n)
  BY <1>1, <1>2, <1>3, Zenon DEF AgreeOutside
<1>6. t = Replaced(text, at, n, BlankString(n))
  BY <1>2 DEF t
<1> QED
  BY <1>3, <1>4, <1>5, <1>6, Zenon DEF IsWhole

(* Within the cells low + 1 to high. *)
LEMMA CellsMoved ==
  ASSUME Bounded, NEW text, IsWhole(text),
         NEW low \in Nat, NEW high \in Nat, high <= Size,
         NEW out \in Nat, NEW into \in Nat, NEW n \in Nat,
         n <= columnCount, low <= out, low <= into, out + n <= high, into + n <= high
  PROVE  LET t == Inserted(Deleted(text, out, n), into, BlankString(n)) IN
         IsWhole(t) /\ AgreeOutside(text, t, low, high)
<1>1. text \in Seq(Char) /\ Len(text) = Size /\ Size \in Nat
  BY SizeIs DEF IsWhole
<1>2. PICK string \in Seq(Char) : string = BlankString(n) /\ Len(string) = n
  <2>1. n \in 0..columnCount /\ columnCount \in Nat /\ n \in Int
    BY DEF Bounded
  <2> QED
    BY <2>1, BlankStringIs
<1> DEFINE t == Inserted(Deleted(text, out, n), into, string)
<1>3. /\ t \in Seq(Char) /\ Len(t) = Len(text)
      /\ \A i \in 1..Len(text) :
              /\ i <= out /\ i <= into => t[i] = text[i]
              /\ out + n < i /\ into + n < i => t[i] = text[i]
  <2>1. out + n <= Len(text) /\ into + n <= Len(text)
    BY <1>1
  <2> QED
    <3>1. string \in Seq(Char) /\ Len(string) = n
      BY <1>2
    <3>2. Moves(t, text, out, into, n)
      BY <1>1, <2>1, <3>1, MovedAll
    <3> HIDE DEF t
    <3> QED
      BY <3>2 DEF Moves
<1> HIDE DEF t
<1>4. ASSUME NEW i \in 1..Size, i <= low \/ high < i
      PROVE  (i <= out /\ i <= into) \/ (out + n < i /\ into + n < i)
  BY <1>1, <1>4
<1>5. AgreeOutside(text, t, low, high)
  BY <1>1, <1>3, <1>4, Zenon DEF AgreeOutside
<1>6. t = Inserted(Deleted(text, out, n), into, BlankString(n))
  BY <1>2 DEF t
<1> QED
  BY <1>1, <1>3, <1>5, <1>6, Zenon DEF IsWhole

LEMMA Wider ==
  ASSUME Bounded, NEW u, NEW v, NEW a \in Int, NEW b \in Int, NEW c \in Int, NEW d \in Int,
         AgreeOutside(u, v, a, b), c <= a, b <= d
  PROVE  AgreeOutside(u, v, c, d)
<1>1. Size \in Nat
  BY SizeIs
<1>2. ASSUME NEW i \in 1..Size, i <= c \/ d < i
      PROVE  i <= a \/ b < i
  BY <1>1, <1>2
<1> QED
  BY <1>2, Zenon DEF AgreeOutside

(* A cursor on the screen, which may be past the last column. *)
At(s) ==
  /\ s \in Screen /\ IsWhole(s.text)
  /\ s.y \in Int /\ 0 <= s.y /\ s.y < rowCount
  /\ s.x \in Int /\ 0 <= s.x /\ s.x <= columnCount + 1

LEMMA deleteInLineIs ==
  ASSUME Bounded, NEW s, At(s), NEW arg \in 0..2
  PROVE  LET t == deleteInLine(s, arg)
             legal == \/ arg = 2
                      \/ arg = 0 /\ s.x <= columnCount
                      \/ arg = 1 /\ s.x < columnCount
         IN  /\ t \in Screen /\ t.x = s.x /\ t.y = s.y
             /\ t.marks = s.marks \cup {s.y}
             /\ legal => /\ IsWhole(t.text)
                         /\ AgreeOutside(s.text, t.text, s.y * columnCount,
                                         (s.y + 1) * columnCount)
             /\ ~legal => t.text = Gone
<1>0. PICK c \in Nat, x \in Int, y \in Int :
        c = columnCount /\ x = s.x /\ y = s.y /\ 0 <= x /\ 0 <= y /\ y < rowCount
  BY DEF Bounded, At
<1>1. PICK low \in Nat : low = y * columnCount /\ (y + 1) * columnCount = low + c
                        /\ low + c <= Size
  <2>1. /\ y * columnCount \in Nat
        /\ (y + 1) * columnCount = y * columnCount + columnCount
        /\ y * columnCount + columnCount <= Size
    BY <1>0, RowIs
  <2> QED
    BY <1>0, <2>1
<1>2. PICK off \in Int, n \in Int :
        /\ off = (IF arg <= 0 THEN x ELSE 0)
        /\ n = (IF arg <= 0 THEN c - x ELSE IF arg = 1 THEN x + 1 ELSE c)
  <2>1. /\ (IF arg <= 0 THEN x ELSE 0) \in Int
        /\ (IF arg <= 0 THEN c - x ELSE IF arg = 1 THEN x + 1 ELSE c) \in Int
    OBVIOUS
  <2> QED
    BY <2>1, Zenon
<1> DEFINE text == Replaced(s.text, low + off, n, BlankString(n))
           legal == \/ arg = 2
                    \/ arg = 0 /\ x <= c
                    \/ arg = 1 /\ x < c
<1>3. deleteInLine(s, arg) = invalidateLine([s EXCEPT !.text = text], {s.y})
  <2>1. s.y * columnCount + (IF arg <= 0 THEN s.x ELSE 0) = low + off
    BY <1>0, <1>1, <1>2, Zenon
  <2>2. (IF arg <= 0 THEN columnCount - s.x
         ELSE IF arg = 1 THEN s.x + 1 ELSE columnCount) = n
    BY <1>0, <1>2, Zenon
  <2>3. deleteInLine(s, arg) =
          LET at == s.y * columnCount + (IF arg <= 0 THEN s.x ELSE 0)
              k == IF arg <= 0 THEN columnCount - s.x
                   ELSE IF arg = 1 THEN s.x + 1 ELSE columnCount
          IN invalidateLine([s EXCEPT !.text = Replaced(s.text, at, k, BlankString(k))],
                            {s.y})
    BY DEF deleteInLine
  <2> QED
    BY <2>1, <2>2, <2>3, Zenon
<1>4. legal => IsWhole(text) /\ AgreeOutside(s.text, text, low, low + c)
  <2>1. SUFFICES ASSUME legal
                 PROVE  IsWhole(text) /\ AgreeOutside(s.text, text, low, low + c)
    OBVIOUS
  <2>2. n \in Nat /\ n <= c /\ 0 <= off /\ off + n <= c
    BY <1>0, <1>2, <2>1
  <2>3. PICK at \in Nat : at = low + off
    BY <2>2
  <2>4. at + n <= low + c /\ low <= at /\ at + n <= Size /\ n <= columnCount
    <3>1. Size \in Nat
      BY SizeIs
    <3> QED
      BY <1>0, <1>1, <2>2, <2>3, <3>1
  <2>5. text = Replaced(s.text, at, n, BlankString(n))
    BY <2>3
  <2> HIDE DEF text
  <2>6. IsWhole(text) /\ AgreeOutside(s.text, text, at, at + n)
    BY <2>2, <2>4, <2>5, CellsBlanked DEF At
  <2> QED
    BY <2>2, <2>4, <2>6, Wider
<1>5. ~legal => text = Gone
  <2>1. SUFFICES ASSUME ~legal
                 PROVE  text = Gone
    OBVIOUS
  <2>2. s.text \in Seq(Int) /\ low + off \in Int
    BY WholeIs DEF At
  <2>3. n < 0 \/ n > c
    BY <1>0, <1>2, <2>1
  <2>4. CASE n < 0
    BY <2>2, <2>4, NothingLeft
  <2>5. CASE n > c
    <3>1. BlankString(n) = Gone
      <4>1. n \notin 0..columnCount /\ columnCount \in Nat
        BY <1>0, <2>5
      <4> QED
        BY <4>1, BlankStringIs
    <3> QED
      BY <3>1 DEF Replaced, Inserted
  <2> QED
    BY <2>3, <2>4, <2>5
<1> HIDE DEF text
<1>6. text \in Seq(Int) /\ {s.y} \in SUBSET Int
  <2>1. text \in Seq(Int)
    BY <1>4, <1>5, WholeIs, GoneIs
  <2> QED
    BY <2>1 DEF At
<1>7. LET t == deleteInLine(s, arg) IN
         /\ t \in Screen /\ t.x = s.x /\ t.y = s.y /\ t.text = text
         /\ t.marks = s.marks \cup {s.y}
  <2>1. s \in Screen
    BY DEF At
  <2> QED
    BY <1>3, <1>6, <2>1, WithText
<1>8. legal <=> \/ arg = 2
                \/ arg = 0 /\ s.x <= columnCount
                \/ arg = 1 /\ s.x < columnCount
  BY <1>0
<1>9. low = s.y * columnCount /\ low + c = (s.y + 1) * columnCount
  BY <1>0, <1>1, Zenon
<1> HIDE DEF legal
<1> QED
  BY <1>4, <1>5, <1>7, <1>8, <1>9, Zenon

(* A method that edits the cursor's row has marked it. *)
Edited(s, t, text) ==
  /\ t \in Screen /\ t.x = s.x /\ t.y = s.y /\ t.text = text
  /\ t.marks = s.marks \cup {s.y}

LEMMA EditedIs ==
  ASSUME NEW s, At(s), NEW text \in Seq(Int)
  PROVE  Edited(s, invalidateLine([s EXCEPT !.text = text], {s.y}), text)
<1>1. s \in Screen /\ {s.y} \in SUBSET Int
  BY DEF At
<1> QED
  BY <1>1, WithText DEF Edited

(* The cell of the cursor and what is right of it in its row. *)
LEMMA CursorIs ==
  ASSUME Bounded, NEW s, At(s)
  PROVE  \E c, x, y, low, at \in Nat :
           /\ c = columnCount /\ c >= 2 /\ x = s.x /\ x <= c + 1
           /\ y = s.y /\ y < rowCount
           /\ low = s.y * columnCount /\ at = low + x
           /\ s.y * columnCount + s.x = at
           /\ (s.y + 1) * columnCount = low + c
           /\ low + c <= Size
<1>0. PICK c \in Nat, x \in Nat, y \in Nat :
        c = columnCount /\ x = s.x /\ y = s.y /\ y < rowCount /\ c >= 2 /\ x <= c + 1
  BY DEF Bounded, At
<1>1. /\ y * columnCount \in Nat
      /\ (y + 1) * columnCount = y * columnCount + columnCount
      /\ y * columnCount + columnCount <= Size
  BY <1>0, RowIs
<1>2. PICK low \in Nat : low = y * columnCount
  BY <1>1
<1>3. PICK at \in Nat : at = low + x
  OBVIOUS
<1>4. /\ low = s.y * columnCount
      /\ (s.y + 1) * columnCount = low + c
      /\ low + c <= Size
      /\ s.y * columnCount + s.x = at
  BY <1>0, <1>1, <1>2, <1>3, Zenon
<1> QED
  BY <1>0, <1>2, <1>3, <1>4, Zenon

\* Outside the cursor's row, and left of the cursor, nothing is changed.
RightOnly(s, text) ==
  AgreeOutside(s.text, text, s.y * columnCount + Smallest(s.x, columnCount),
               (s.y + 1) * columnCount)

LEMMA RightOfCursor ==
  ASSUME Bounded, NEW s, At(s), NEW text, NEW at \in Int, NEW to \in Int,
         AgreeOutside(s.text, text, at, to),
         at >= s.y * columnCount + Smallest(s.x, columnCount),
         to <= (s.y + 1) * columnCount
  PROVE  RightOnly(s, text)
<1>1. /\ s.y * columnCount + Smallest(s.x, columnCount) \in Int
      /\ (s.y + 1) * columnCount \in Int
  <2>1. s.y \in Int /\ s.x \in Int /\ columnCount \in Int
    BY DEF At, Bounded
  <2>2. Smallest(s.x, columnCount) \in Int
    BY <2>1, SmallestIs
  <2>3. s.y * columnCount \in Int /\ (s.y + 1) * columnCount \in Int
    BY <2>1
  <2> QED
    BY <2>2, <2>3
<1> QED
  BY <1>1, Wider DEF RightOnly

LEMMA blankRangeInLineIs ==
  ASSUME Bounded, NEW s, At(s), NEW n \in Int
  PROVE  LET t == blankRangeInLine(s, n) IN
         /\ t = s \/ Edited(s, t, t.text)
         /\ IsWhole(t.text) /\ RightOnly(s, t.text)
<1>0. PICK c, x, y, low, at \in Nat :
           /\ c = columnCount /\ c >= 2 /\ x = s.x /\ x <= c + 1
           /\ y = s.y /\ y < rowCount
           /\ low = s.y * columnCount /\ at = low + x
           /\ s.y * columnCount + s.x = at
           /\ (s.y + 1) * columnCount = low + c
           /\ low + c <= Size
  BY CursorIs
<1>1. PICK count \in Int : count = Smallest(n, columnCount - s.x) /\ count <= c - x
  <2>1. c - x \in Int
    OBVIOUS
  <2> QED
    BY <1>0, <2>1, SmallestIs
<1>2. CASE count <= 0
  <2>1. blankRangeInLine(s, n) = s
    BY <1>1, <1>2 DEF blankRangeInLine
  <2>2. IsWhole(s.text)
    BY DEF At
  <2>3. RightOnly(s, s.text)
    BY DEF RightOnly, AgreeOutside
  <2> QED
    BY <2>1, <2>2, <2>3, Zenon
<1>3. CASE ~(count <= 0)
  <2>0. count \in Nat /\ count <= columnCount /\ at + count <= low + c /\ at + count <= Size
        /\ x <= c
    <3>1. Size \in Nat
      BY SizeIs
    <3> QED
      BY <1>0, <1>1, <1>3, <3>1
  <2> DEFINE text == Replaced(s.text, at, count, BlankString(count))
  <2>1. blankRangeInLine(s, n) = invalidateLine([s EXCEPT !.text = text], {s.y})
    <3>1. blankRangeInLine(s, n) =
            LET k == Smallest(n, columnCount - s.x)
            IN IF k <= 0 THEN s
               ELSE invalidateLine([s EXCEPT !.text =
                      Replaced(s.text, s.y * columnCount + s.x, k, BlankString(k))], {s.y})
      BY DEF blankRangeInLine
    <3> QED
      BY <3>1, <1>0, <1>1, <1>3, Zenon
  <2>2. IsWhole(text) /\ AgreeOutside(s.text, text, at, at + count)
    <3>1. IsWhole(s.text)
      BY DEF At
    <3> QED
      BY <2>0, <3>1, CellsBlanked
  <2> HIDE DEF text
  <2>3. Edited(s, blankRangeInLine(s, n), text)
    BY <2>1, <2>2, WholeIs, EditedIs
  <2>4. RightOnly(s, text)
    <3>1. at >= s.y * columnCount + Smallest(s.x, columnCount)
          /\ at + count <= (s.y + 1) * columnCount
      <4>1. Smallest(x, c) = x
        BY <2>0 DEF Smallest
      <4>2. s.y * columnCount + Smallest(s.x, columnCount) = at
        BY <4>1, <1>0, Zenon
      <4> QED
        BY <4>2, <2>0, <1>0
    <3>2. at \in Int /\ at + count \in Int
      OBVIOUS
    <3> QED
      BY <2>2, <3>1, <3>2, RightOfCursor
  <2>5. blankRangeInLine(s, n).text = text
    BY <2>3 DEF Edited
  <2> QED
    BY <2>2, <2>3, <2>4, <2>5, Zenon
<1> QED
  BY <1>2, <1>3, Zenon

LEMMA deleteRangeInLineIs ==
  ASSUME Bounded, NEW s, At(s), NEW n \in Int
  PROVE  LET t == deleteRangeInLine(s, n) IN
         /\ t = s \/ Edited(s, t, t.text)
         /\ IsWhole(t.text) /\ RightOnly(s, t.text)
<1>0. PICK c, x, y, low, at \in Nat :
           /\ c = columnCount /\ c >= 2 /\ x = s.x /\ x <= c + 1
           /\ y = s.y /\ y < rowCount
           /\ low = s.y * columnCount /\ at = low + x
           /\ s.y * columnCount + s.x = at
           /\ (s.y + 1) * columnCount = low + c
           /\ low + c <= Size
  BY CursorIs
<1>1. PICK count \in Int : count = Smallest(n, columnCount - s.x) /\ count <= c - x
  <2>1. c - x \in Int
    OBVIOUS
  <2> QED
    BY <1>0, <2>1, SmallestIs
<1>2. CASE count < 1
  <2>1. deleteRangeInLine(s, n) = s
    BY <1>1, <1>2 DEF deleteRangeInLine
  <2>2. IsWhole(s.text)
    BY DEF At
  <2>3. RightOnly(s, s.text)
    BY DEF RightOnly, AgreeOutside
  <2> QED
    BY <2>1, <2>2, <2>3, Zenon
<1>3. CASE ~(count < 1)
  <2>0. PICK end, into \in Nat :
          /\ count \in Nat /\ count <= columnCount
          /\ end = low + c /\ into = end - count /\ into + count <= end
          /\ at + count <= end /\ at <= into
          /\ end <= Size /\ x <= c
    <3>1. Size \in Nat
      BY SizeIs
    <3>2. PICK end \in Nat : end = low + c
      OBVIOUS
    <3>3. PICK into \in Nat : into = end - count
      BY <1>0, <1>1, <1>3, <3>2
    <3> QED
      BY <1>0, <1>1, <1>3, <3>1, <3>2, <3>3
  <2> DEFINE text == Inserted(Deleted(s.text, at, count), into, BlankString(count))
  <2>1. deleteRangeInLine(s, n) = invalidateLine([s EXCEPT !.text = text], {s.y})
    <3>1. deleteRangeInLine(s, n) =
            LET k == Smallest(n, columnCount - s.x)
                a == s.y * columnCount + s.x
            IN IF k < 1 THEN s
               ELSE invalidateLine([s EXCEPT !.text =
                      Inserted(Deleted(s.text, a, k), (s.y + 1) * columnCount - k,
                               BlankString(k))], {s.y})
      BY DEF deleteRangeInLine
    <3>2. (s.y + 1) * columnCount - count = into
      BY <1>0, <2>0, Zenon
    <3> QED
      BY <3>1, <3>2, <1>0, <1>1, <1>3, Zenon
  <2>2. IsWhole(text) /\ AgreeOutside(s.text, text, at, end)
    <3>1. IsWhole(s.text)
      BY DEF At
    <3>2. at <= at
      OBVIOUS
    <3> QED
      BY <2>0, <3>1, <3>2, CellsMoved
  <2> HIDE DEF text
  <2>3. Edited(s, deleteRangeInLine(s, n), text)
    BY <2>1, <2>2, WholeIs, EditedIs
  <2>4. RightOnly(s, text)
    <3>1. at >= s.y * columnCount + Smallest(s.x, columnCount)
          /\ end <= (s.y + 1) * columnCount
      <4>1. Smallest(x, c) = x
        BY <2>0 DEF Smallest
      <4>2. s.y * columnCount + Smallest(s.x, columnCount) = at
        BY <4>1, <1>0, Zenon
      <4> QED
        BY <4>2, <2>0, <1>0
    <3>2. at \in Int /\ end \in Int
      OBVIOUS
    <3> QED
      BY <2>2, <3>1, <3>2, RightOfCursor
  <2>5. deleteRangeInLine(s, n).text = text
    BY <2>3 DEF Edited
  <2> QED
    BY <2>2, <2>3, <2>4, <2>5, Zenon
<1> QED
  BY <1>2, <1>3, Zenon

(* A string of another length, or none. *)
IsBroken(text) == text = Gone \/ (text \in Seq(Char) /\ Len(text) # Size)

LEMMA BrokenIs ==
  ASSUME Bounded, NEW text, IsBroken(text)
  PROVE  text \in Seq(Int) /\ Len(text) # Size
<1>1. Char \subseteq Int
  BY DEF Char, Written
<1>2. CASE text = Gone
  BY <1>2, GoneIs, SizeIs
<1>3. CASE text \in Seq(Char) /\ Len(text) # Size
  BY <1>1, <1>3, SeqMonotonic
<1> QED
  BY <1>2, <1>3 DEF IsBroken

LEMMA insertInLineIs ==
  ASSUME Bounded, NEW s, At(s), NEW n \in Int
  PROVE  LET t == insertInLine(s, n) IN
         /\ t = s \/ Edited(s, t, t.text)
         /\ ~Misfits(s, n) => IsWhole(t.text)
         /\ Misfits(s, n) => IsBroken(t.text)
         /\ Fits(s, n) => RightOnly(s, t.text)
<1>0. PICK c, x, y, low, at \in Nat :
           /\ c = columnCount /\ c >= 2 /\ x = s.x /\ x <= c + 1
           /\ y = s.y /\ y < rowCount
           /\ low = s.y * columnCount /\ at = low + x
           /\ s.y * columnCount + s.x = at
           /\ (s.y + 1) * columnCount = low + c
           /\ low + c <= Size
  BY CursorIs
<1>1. PICK count \in Int : count = Insertable(s, n) /\ count <= rowCount - y - 1
  <2>1. rowCount - y - 1 \in Int
    BY DEF Bounded
  <2>2. rowCount - s.y - 1 = rowCount - y - 1
    BY <1>0
  <2> QED
    BY <2>1, <2>2, SmallestIs DEF Insertable
<1>2. Size \in Nat /\ rowCount \in Nat /\ IsWhole(s.text)
  BY SizeIs DEF Bounded, At
<1>3. /\ Misfits(s, n) <=> count > 0 /\ x + count >= c /\ count # c
      /\ Fits(s, n) <=> x + count < c \/ (x = 0 /\ count = c) \/ count = 0
  BY <1>0, <1>1, Zenon DEF Misfits, Fits
<1>4. insertInLine(s, n) =
        IF count <= 0 THEN s
        ELSE invalidateLine([s EXCEPT !.text =
               IF s.x + count < columnCount
               THEN Inserted(Deleted(s.text, (s.y + 1) * columnCount - count, count),
                             s.y * columnCount + s.x, BlankString(count))
               ELSE Replaced(s.text, s.y * columnCount + s.x, count, Blanks(columnCount))],
               {s.y})
  <2>1. insertInLine(s, n) =
        LET k == Insertable(s, n) IN
        IF k <= 0 THEN s
        ELSE invalidateLine([s EXCEPT !.text =
               IF s.x + k < columnCount
               THEN Inserted(Deleted(s.text, (s.y + 1) * columnCount - k, k),
                             s.y * columnCount + s.x, BlankString(k))
               ELSE Replaced(s.text, s.y * columnCount + s.x, k, Blanks(columnCount))],
               {s.y})
    BY DEF insertInLine
  <2> QED
    BY <2>1, <1>1, Zenon
<1>5. CASE count <= 0
  <2>1. insertInLine(s, n) = s
    BY <1>4, <1>5, Zenon
  <2>2. ~Misfits(s, n)
    BY <1>3, <1>5
  <2>3. RightOnly(s, s.text)
    BY DEF RightOnly, AgreeOutside
  <2> QED
    BY <1>2, <2>1, <2>2, <2>3, Zenon
<1>6. CASE count > 0 /\ x + count < c
  <2>0. PICK end, into \in Nat :
          /\ count \in Nat /\ count <= columnCount
          /\ end = low + c /\ into = end - count /\ into + count <= end
          /\ at + count <= end /\ at <= into /\ at <= at
          /\ end <= Size
    <3>1. PICK end \in Nat : end = low + c
      OBVIOUS
    <3>2. PICK into \in Nat : into = end - count
      BY <1>0, <1>6, <3>1
    <3> QED
      BY <1>0, <1>2, <1>6, <3>1, <3>2
  <2> DEFINE text == Inserted(Deleted(s.text, into, count), at, BlankString(count))
  <2>1. insertInLine(s, n) = invalidateLine([s EXCEPT !.text = text], {s.y})
    <3>1. (s.y + 1) * columnCount - count = into
      BY <1>0, <2>0, Zenon
    <3>2. ~(count <= 0) /\ s.x + count < columnCount
      BY <1>0, <1>6
    <3> QED
      BY <1>4, <3>1, <3>2, <1>0, Zenon
  <2>2. IsWhole(text) /\ AgreeOutside(s.text, text, at, end)
    BY <1>2, <2>0, CellsMoved
  <2> HIDE DEF text
  <2>3. Edited(s, insertInLine(s, n), text)
    BY <2>1, <2>2, WholeIs, EditedIs
  <2>4. RightOnly(s, text)
    <3>1. at >= s.y * columnCount + Smallest(s.x, columnCount)
          /\ end <= (s.y + 1) * columnCount
      <4>1. Smallest(x, c) = x
        BY <1>6 DEF Smallest
      <4>2. s.y * columnCount + Smallest(s.x, columnCount) = at
        BY <4>1, <1>0, Zenon
      <4> QED
        BY <4>2, <2>0, <1>0
    <3>2. at \in Int /\ end \in Int
      OBVIOUS
    <3> QED
      BY <2>2, <3>1, <3>2, RightOfCursor
  <2>5. insertInLine(s, n).text = text
    BY <2>3 DEF Edited
  <2>6. ~Misfits(s, n)
    BY <1>3, <1>6
  <2> QED
    BY <2>2, <2>3, <2>4, <2>5, <2>6, Zenon
<1>7. CASE count > 0 /\ ~(x + count < c)
  <2> DEFINE text == Replaced(s.text, at, count, Blanks(columnCount))
  <2>0. count \in Nat
    BY <1>7
  <2>1. insertInLine(s, n) = invalidateLine([s EXCEPT !.text = text], {s.y})
    <3>1. ~(count <= 0) /\ ~(s.x + count < columnCount)
      BY <1>0, <1>7
    <3> QED
      BY <1>4, <3>1, <1>0, Zenon
  <2>2. CASE count = c
    <3>1. at + count <= Size
      <4>1. PICK z \in Int : z = y + 2 /\ 0 <= z /\ z < rowCount
        BY <1>0, <1>1, <1>2, <2>2
      <4>2. z * columnCount \in Nat /\ z * columnCount + columnCount <= Size
        BY <4>1, RowIs
      <4>3. z * c = y * c + 2 * c
        BY <4>1
      <4>4. low = y * c /\ z * columnCount = z * c
        BY <1>0, Zenon
      <4>5. z * c + c <= Size /\ z * c \in Nat
        BY <4>2, <4>4, <1>0
      <4>6. low + 3 * c <= Size
        BY <4>3, <4>4, <4>5, <1>2
      <4> QED
        BY <4>6, <1>0, <1>2, <2>2
    <3>2. text = Replaced(s.text, at, count, BlankString(count))
      <4>1. columnCount \in 0..columnCount
        BY DEF Bounded
      <4>2. BlankString(columnCount) = Blanks(columnCount)
        BY <4>1 DEF BlankString
      <4> QED
        BY <4>2, <1>0, <2>2
    <3> HIDE DEF text
    <3>3. IsWhole(text) /\ AgreeOutside(s.text, text, at, at + count)
      <4>1. count <= columnCount
        BY <1>0, <2>2
      <4> QED
        BY <1>2, <2>0, <3>1, <3>2, <4>1, CellsBlanked
    <3>4. Edited(s, insertInLine(s, n), text)
      BY <2>1, <3>3, WholeIs, EditedIs
    <3>5. Fits(s, n) => RightOnly(s, text)
      <4>1. SUFFICES ASSUME Fits(s, n)
                     PROVE  RightOnly(s, text)
        OBVIOUS
      <4>2. x = 0
        BY <1>3, <4>1, <1>7
      <4>3. Smallest(x, c) = x
        BY <4>2 DEF Smallest
      <4>4. s.y * columnCount + Smallest(s.x, columnCount) = at
        BY <4>3, <1>0, Zenon
      <4>5. at >= s.y * columnCount + Smallest(s.x, columnCount)
            /\ at + count <= (s.y + 1) * columnCount
        BY <4>2, <4>4, <1>0, <2>2
      <4>6. at \in Int /\ at + count \in Int
        OBVIOUS
      <4> QED
        BY <3>3, <4>5, <4>6, RightOfCursor
    <3>6. insertInLine(s, n).text = text
      BY <3>4 DEF Edited
    <3>7. ~Misfits(s, n)
      BY <1>3, <2>2
    <3> QED
      BY <3>3, <3>4, <3>5, <3>6, <3>7, Zenon
  <2>3. CASE count # c
    <3>1. IsBroken(text)
      <4>1. CASE at + count <= Size
        <5>1. s.text \in Seq(Char) /\ Len(s.text) = Size
          BY <1>2 DEF IsWhole
        <5>2. PICK string \in Seq(Char) : string = Blanks(columnCount) /\ Len(string) = c
          <6>1. columnCount \in Nat
            BY DEF Bounded
          <6>2. Blanks(columnCount) \in Seq(Char) /\ Len(Blanks(columnCount)) = columnCount
            BY <6>1, BlanksAre
          <6> QED
            BY <6>2, <1>0
        <5>3. text = Replaced(s.text, at, count, string)
          BY <5>2
        <5> HIDE DEF text
        <5>4. text \in Seq(Char) /\ Len(text) = Len(s.text) - count + Len(string)
          <6>1. PICK u \in Seq(Char) : u = s.text
            BY <5>1
          <6>2. at + count <= Len(u)
            BY <4>1, <5>1, <6>1
          <6>3. /\ Replaced(u, at, count, string) \in Seq(Char)
                /\ Len(Replaced(u, at, count, string)) = Len(u) - count + Len(string)
            BY <2>0, <6>2, ReplacedIs
          <6> QED
            BY <5>3, <6>1, <6>3
        <5>5. Len(text) # Size
          BY <5>1, <5>2, <5>4, <1>2, <2>3
        <5> QED
          BY <5>4, <5>5 DEF IsBroken
      <4>2. CASE ~(at + count <= Size)
        <5>1. s.text \in Seq(Int) /\ Len(s.text) = Size
          BY <1>2, WholeIs DEF IsWhole
        <5>2. at + count > Len(s.text) /\ at \in Int
          BY <4>2, <5>1, <1>2
        <5> QED
          BY <5>1, <5>2, NothingLeft DEF IsBroken
      <4> QED
        BY <4>1, <4>2
    <3> HIDE DEF text
    <3>2. Edited(s, insertInLine(s, n), text)
      BY <2>1, <3>1, BrokenIs, EditedIs
    <3>3. insertInLine(s, n).text = text
      BY <3>2 DEF Edited
    <3>4. Misfits(s, n) /\ ~Fits(s, n)
      BY <1>3, <1>7, <2>3
    <3> QED
      BY <3>1, <3>2, <3>3, <3>4, Zenon
  <2> QED
    BY <2>2, <2>3
<1>8. count <= 0 \/ (count > 0 /\ x + count < c) \/ (count > 0 /\ ~(x + count < c))
  OBVIOUS
<1> QED
  BY <1>5, <1>6, <1>7, <1>8, Zenon

LEMMA RowOfCell ==
  ASSUME Bounded, NEW i \in Nat, 1 <= i, NEW y \in Int
  PROVE  /\ (i - 1) \div columnCount \in Int
         /\ i <= y * columnCount => (i - 1) \div columnCount < y
         /\ i > y * columnCount => (i - 1) \div columnCount >= y
         /\ 0 <= (i - 1) \div columnCount
<1>1. PICK c \in Nat, j \in Nat : c = columnCount /\ c >= 2 /\ j = i - 1
  BY DEF Bounded
<1>2. PICK q \in Int : q = j \div c
  BY <1>1
<1>3. q * c <= j /\ j < q * c + c /\ 0 <= q /\ q * c \in Int
  BY <1>1, <1>2
<1>4. (i - 1) \div columnCount = q
  BY <1>1, <1>2, Zenon
<1>5. y * columnCount = y * c /\ y * c \in Int
  BY <1>1
<1>6. ASSUME i <= y * columnCount, ~(q < y)
      PROVE  FALSE
  <2>1. y * c <= q * c
    BY <1>6
  <2> QED
    BY <2>1, <1>1, <1>3, <1>5, <1>6
<1>7. ASSUME i > y * columnCount, ~(q >= y)
      PROVE  FALSE
  <2>1. (q + 1) * c <= y * c
    BY <1>7
  <2>2. (q + 1) * c = q * c + c
    OBVIOUS
  <2> QED
    BY <2>1, <2>2, <1>1, <1>3, <1>5, <1>7
<1> QED
  BY <1>3, <1>4, <1>6, <1>7, Zenon

(* Filling whole rows. *)
LEMMA RowsFilled ==
  ASSUME Bounded, NEW text, IsWhole(text), NEW low \in Int, NEW high \in Int,
         NEW cell \in Char
  PROVE  LET t == Filled(text, low..high, cell) IN
         /\ IsWhole(t)
         /\ AgreeOutside(text, t, low * columnCount, (high + 1) * columnCount)
<1>1. text \in Seq(Char) /\ Len(text) = Size /\ Size \in Nat
  BY SizeIs DEF IsWhole
<1> DEFINE t == Filled(text, low..high, cell)
<1>2. /\ t \in Seq(Char) /\ Len(t) = Len(text)
      /\ \A i \in 1..Len(text) : (i - 1) \div columnCount \notin low..high => t[i] = text[i]
  BY <1>1, FilledIs
<1> HIDE DEF t
<1>3. ASSUME NEW i \in 1..Size,
             i <= low * columnCount \/ (high + 1) * columnCount < i
      PROVE  text[i] = t[i]
  <2>1. i \in Nat /\ 1 <= i /\ high + 1 \in Int
    BY <1>1
  <2>2. PICK q \in Int : /\ q = (i - 1) \div columnCount
                         /\ i <= low * columnCount => q < low
                         /\ i > (high + 1) * columnCount => q >= high + 1
    BY <2>1, RowOfCell
  <2>3. q \notin low..high
    <3>1. i > (high + 1) * columnCount => q >= high + 1
      BY <2>2, Zenon
    <3>2. q < low \/ q >= high + 1
      <4>1. columnCount \in Nat
        BY DEF Bounded
      <4>2. (high + 1) * columnCount \in Int
        BY <4>1
      <4> QED
        BY <2>1, <2>2, <1>3, <4>2
    <3> QED
      BY <3>2
  <2> QED
    BY <1>1, <1>2, <2>2, <2>3, Zenon
<1>4. IsWhole(t)
  BY <1>1, <1>2 DEF IsWhole
<1> QED
  BY <1>3, <1>4 DEF AgreeOutside, t

LEMMA CellsAre == Blank \in Char /\ Written \in Char
  BY DEF Char, Blank, Written

LEMMA alignTestIs ==
  ASSUME Bounded, NEW s, At(s)
  PROVE  LET t == alignTest(s) IN
         /\ t \in Screen /\ t.x = s.x /\ t.y = s.y /\ IsWhole(t.text)
         /\ t.marks = s.marks \cup {0, rowCount - 1}
<1>1. rowCount \in Int /\ {0, rowCount - 1} \in SUBSET Int /\ rowCount - 1 \in Int
  BY DEF Bounded
<1>2. PICK text : text = Filled(s.text, 0..(rowCount - 1), Written) /\ IsWhole(text)
  <2>1. IsWhole(s.text)
    BY DEF At
  <2>2. IsWhole(Filled(s.text, 0..(rowCount - 1), Written))
    BY <1>1, <2>1, CellsAre, RowsFilled
  <2> QED
    BY <2>2
<1>3. alignTest(s) = invalidateLine([s EXCEPT !.text = text], {0, rowCount - 1})
  BY <1>2 DEF alignTest
<1>4. PICK rows \in SUBSET Int : rows = {0, rowCount - 1}
  BY <1>1
<1>5. LET t == alignTest(s) IN
         /\ t \in Screen /\ t.x = s.x /\ t.y = s.y /\ t.text = text
         /\ t.marks = s.marks \cup rows
  <2>1. s \in Screen /\ text \in Seq(Int)
    BY <1>2, WholeIs DEF At
  <2>2. alignTest(s) = invalidateLine([s EXCEPT !.text = text], rows)
    BY <1>3, <1>4, Zenon
  <2> QED
    BY <2>1, <2>2, WithText
<1> QED
  BY <1>2, <1>4, <1>5, Zenon

LEMMA writeIs ==
  ASSUME Bounded, NEW s \in Screen, NEW n \in 1..2,
         0 <= s.x, s.x < columnCount, 0 <= s.y, s.y < rowCount,
         IsWhole(s.text) \/ IsBroken(s.text)
  PROVE  LET t == write(s, n)
             pastEnd == s.y = rowCount - 1 /\ s.x + n > columnCount
         IN  /\ t \in Screen /\ t.x = s.x + n /\ t.y = s.y
             /\ IsWhole(s.text) /\ ~pastEnd => IsWhole(t.text)
             /\ IsWhole(s.text) /\ pastEnd => IsBroken(t.text)
             /\ IsBroken(s.text) => IsBroken(t.text)
<1>1. s.x \in Int /\ s.y \in Int /\ s.text \in Seq(Int)
  BY DEF Screen
<1>2. PICK c, x, y, r \in Nat :
         c = columnCount /\ x = s.x /\ y = s.y /\ x < c /\ c >= 2
         /\ r = rowCount /\ y < r
  <2>1. columnCount \in Nat /\ rowCount \in Nat /\ columnCount >= 2
    BY DEF Bounded
  <2>2. s.x \in Nat /\ s.y \in Nat
    BY <1>1
  <2> QED
    BY <2>1, <2>2
<1>3. PICK low \in Nat : low = y * columnCount /\ low + c <= Size
                        /\ low = y * c /\ low = s.y * columnCount
  <2>0. y \in Int /\ 0 <= y /\ y < rowCount
    BY <1>2
  <2>1. y * columnCount \in Nat /\ y * columnCount + columnCount <= Size
    BY <2>0, RowIs
  <2>2. PICK l \in Nat : l = y * columnCount
    BY <2>1
  <2>3. l + c <= Size
    BY <1>2, <2>1, <2>2, Zenon
  <2> QED
    BY <1>2, <2>2, <2>3, Zenon
<1>4. PICK at \in Nat : at = low + x
  OBVIOUS
<1>5. PICK string \in Seq(Char) : string = [i \in 1..n |-> Written] /\ Len(string) = n
  <2>1. [i \in 1..n |-> Written] \in [1..n -> Char] /\ n \in Nat
    BY CellsAre
  <2>2. [i \in 1..n |-> Written] \in Seq(Char) /\ Len([i \in 1..n |-> Written]) = n
    BY <2>1
  <2> QED
    BY <2>2
<1>6. Size \in Nat /\ n \in Nat
  BY SizeIs
<1> DEFINE text == Replaced(s.text, at, n, string)
           pastEnd == s.y = rowCount - 1 /\ s.x + n > columnCount
<1>7. write(s, n) = AtColumn([s EXCEPT !.text = text], x + n)
  <2>1. write(s, n) = AtColumn([s EXCEPT !.text =
              Replaced(s.text, s.y * columnCount + s.x, n, [i \in 1..n |-> Written])], s.x + n)
    BY DEF write
  <2>2. s.y * columnCount + s.x = at
    BY <1>2, <1>3, <1>4, Zenon
  <2> QED
    BY <2>1, <2>2, <1>2, <1>5, Zenon
<1>8. IsWhole(s.text) /\ ~pastEnd => IsWhole(text)
  <2>1. SUFFICES ASSUME IsWhole(s.text), ~pastEnd
                 PROVE  IsWhole(text)
    OBVIOUS
  <2>2. at + n <= Size
    <3>1. CASE x + n <= c
      BY <3>1, <1>3, <1>4, <1>6
    <3>2. CASE ~(x + n <= c)
      <4>1. PICK z \in Int : z = y + 1 /\ 0 <= z /\ z < rowCount
        BY <1>2, <2>1, <3>2
      <4>2. z * columnCount + columnCount <= Size
        BY <4>1, RowIs
      <4>3. z * c = y * c + c /\ z * c \in Int
        BY <4>1
      <4>4. PICK m \in Int : m = z * c /\ m + c <= Size /\ m = low + c
        <5>1. z * c + c <= Size
          BY <4>2, <1>2, Zenon
        <5>2. z * c = low + c
          BY <4>3, <1>3, Zenon
        <5> QED
          BY <4>3, <5>1, <5>2, Zenon
      <4> QED
        BY <4>4, <1>2, <1>4, <1>6
    <3> QED
      BY <3>1, <3>2
  <2>3. PICK u \in Seq(Char) : u = s.text /\ Len(u) = Size
    BY <2>1 DEF IsWhole
  <2>4. /\ Replaced(u, at, n, string) \in Seq(Char)
        /\ Len(Replaced(u, at, n, string)) = Len(u) - n + Len(string)
    <3>1. PICK k \in Nat : k = n
      BY <1>6
    <3>2. at + k <= Len(u)
      BY <2>2, <2>3, <3>1
    <3>3. /\ Replaced(u, at, k, string) \in Seq(Char)
          /\ Len(Replaced(u, at, k, string)) = Len(u) - k + Len(string)
      BY <3>2, ReplacedIs
    <3> QED
      BY <3>1, <3>3, Zenon
  <2>5. Len(u) - n + Len(string) = Size
    BY <2>3, <1>5, <1>6
  <2> QED
    BY <2>3, <2>4, <2>5 DEF IsWhole
<1>9. IsWhole(s.text) /\ pastEnd => text = Gone
  <2>1. SUFFICES ASSUME IsWhole(s.text), pastEnd
                 PROVE  text = Gone
    OBVIOUS
  <2>2. Len(s.text) = Size /\ y = r - 1 /\ x + n > c
    BY <2>1, <1>2 DEF IsWhole
  <2>3. Size = low + c
    <3>1. PICK z \in Int : z = y + 1
      OBVIOUS
    <3>2. r = z /\ z * c = y * c + c
      BY <2>2, <3>1
    <3>3. Size = r * c
      BY <1>2 DEF Size
    <3> QED
      BY <3>2, <3>3, <1>3
  <2>4. at + n > Len(s.text)
    BY <2>2, <2>3, <1>4, <1>6
  <2> QED
    BY <1>1, <2>4, NothingLeft
<1>10. IsBroken(s.text) => IsBroken(text)
  <2>1. CASE s.text = Gone
    BY <2>1, NothingLeft, GoneIs DEF IsBroken
  <2>2. CASE s.text \in Seq(Char) /\ Len(s.text) # Size
    <3>1. PICK u \in Seq(Char) : u = s.text /\ Len(u) # Size
      BY <2>2
    <3>2. Len(u) \in Nat
      BY LenProperties
    <3>3. CASE at + n <= Len(u)
      <4>1. /\ Replaced(u, at, n, string) \in Seq(Char)
            /\ Len(Replaced(u, at, n, string)) = Len(u) - n + Len(string)
        <5>1. PICK k \in Nat : k = n
          BY <1>6
        <5>2. at + k <= Len(u)
          BY <3>3, <5>1, Zenon
        <5>3. /\ Replaced(u, at, k, string) \in Seq(Char)
              /\ Len(Replaced(u, at, k, string)) = Len(u) - k + Len(string)
          BY <5>2, ReplacedIs
        <5> QED
          BY <5>1, <5>3, Zenon
      <4>2. Len(u) - n + Len(string) = Len(u)
        BY <3>2, <1>5, <1>6
      <4> QED
        BY <3>1, <4>1, <4>2 DEF IsBroken
    <3>4. CASE ~(at + n <= Len(u))
      <4>1. at + n > Len(s.text)
        BY <3>1, <3>2, <3>4
      <4> QED
        BY <1>1, <4>1, NothingLeft DEF IsBroken
    <3> QED
      BY <3>3, <3>4
  <2> QED
    BY <2>1, <2>2 DEF IsBroken
<1> HIDE DEF text
<1>11. text \in Seq(Int)
  <2>1. text = Gone => text \in Seq(Int)
    BY GoneIs
  <2> QED
    BY <2>1, <1>8, <1>9, <1>10, WholeIs, BrokenIs
<1>12. /\ write(s, n) \in Screen /\ write(s, n).x = x + n
       /\ write(s, n).y = s.y /\ write(s, n).text = text
  <2>1. PICK u \in Screen : u = [s EXCEPT !.text = text] /\ u.y = s.y /\ u.text = text
    <3>1. PICK t \in Seq(Int) : t = text
      BY <1>11
    <3>2. [s EXCEPT !.text = t] \in Screen /\ [s EXCEPT !.text = t].y = s.y
          /\ [s EXCEPT !.text = t].text = t
      BY DEF Screen
    <3> QED
      BY <3>1, <3>2, Zenon
  <2>2. PICK col \in Int : col = x + n
    BY <1>6
  <2>3. AtColumn(u, col) \in Screen /\ AtColumn(u, col).x = col
        /\ AtColumn(u, col).y = u.y /\ AtColumn(u, col).text = u.text
    BY AtColumnIs
  <2>4. write(s, n) = AtColumn(u, col)
    BY <1>7, <2>1, <2>2, Zenon
  <2> QED
    BY <2>1, <2>2, <2>3, <2>4, Zenon
<1>13. text = Gone => IsBroken(text)
  BY DEF IsBroken
<1>14. write(s, n).x = s.x + n
  BY <1>2, <1>12, Zenon
<1> QED
  BY <1>8, <1>9, <1>10, <1>12, <1>13, <1>14, Zenon

LEMMA Together ==
  ASSUME Bounded, NEW u, NEW v, NEW w, NEW a \in Int, NEW b \in Int,
         AgreeOutside(u, v, a, b), AgreeOutside(v, w, a, b)
  PROVE  AgreeOutside(u, w, a, b)
  BY DEF AgreeOutside

LEMMA FilledScreen ==
  ASSUME Bounded, NEW t \in Screen, IsWhole(t.text) \/ t.text = Gone,
         NEW low \in Int, NEW high \in Int, NEW rows \in SUBSET Int
  PROVE  LET u == invalidateLine([t EXCEPT !.text = Filled(@, low..high, Blank)], rows)
         IN  /\ u \in Screen /\ u.x = t.x /\ u.y = t.y
             /\ u.marks = t.marks \cup rows
             /\ IsWhole(t.text) => /\ IsWhole(u.text)
                                   /\ AgreeOutside(t.text, u.text, low * columnCount,
                                                   (high + 1) * columnCount)
             /\ t.text = Gone => u.text = Gone
<1> DEFINE text == Filled(t.text, low..high, Blank)
           u == invalidateLine([t EXCEPT !.text = text], rows)
<1>1. IsWhole(t.text) => /\ IsWhole(text)
                         /\ AgreeOutside(t.text, text, low * columnCount,
                                         (high + 1) * columnCount)
  <2>1. ASSUME NEW v, IsWhole(v)
        PROVE  /\ IsWhole(Filled(v, low..high, Blank))
               /\ AgreeOutside(v, Filled(v, low..high, Blank), low * columnCount,
                               (high + 1) * columnCount)
    BY <2>1, CellsAre, RowsFilled
  <2> QED
    BY <2>1
<1>2. t.text = Gone => text = Gone
  BY DEF Filled
<1>3. invalidateLine([t EXCEPT !.text = Filled(@, low..high, Blank)], rows) = u
  OBVIOUS
<1> HIDE DEF text
<1>4. text \in Seq(Int)
  BY <1>1, <1>2, WholeIs, GoneIs
<1>5. /\ u \in Screen /\ u.x = t.x /\ u.y = t.y /\ u.text = text
      /\ u.marks = t.marks \cup rows
  BY <1>4, WithText
<1> HIDE DEF u
<1> QED
  BY <1>1, <1>2, <1>3, <1>5, Zenon

\* All that is changed lies between two marked rows.
Marked(s, t) ==
  /\ IsWhole(t.text)
  /\ \E low, high \in t.marks :
       AgreeOutside(s.text, t.text, low * columnCount, (high + 1) * columnCount)

LEMMA deleteInScreenIs ==
  ASSUME Bounded, NEW s, At(s), NEW arg \in 0..2
  PROVE  LET t == deleteInScreen(s, arg) IN
         /\ t \in Screen /\ t.x = s.x /\ t.y = s.y
         /\ arg = 2 \/ s.x <= columnCount => Marked(s, t)
         /\ ~(arg = 2 \/ s.x <= columnCount) => t.text = Gone
<1>0. PICK c, y, last \in Int :
         c = columnCount /\ y = s.y /\ last = rowCount - 1 /\ 0 <= y /\ y <= last
         /\ {y, last} \in SUBSET Int /\ {0, y} \in SUBSET Int /\ {0, last} \in SUBSET Int
  <2>1. columnCount \in Int /\ rowCount \in Int /\ s.y \in Int /\ 0 <= s.y /\ s.y < rowCount
    BY DEF Bounded, At
  <2> QED
    BY <2>1
<1>1. s \in Screen /\ IsWhole(s.text) /\ s.x \in Int
  BY DEF At
<1>2. PICK line : /\ line = deleteInLine(s, 0)
                  /\ line \in Screen /\ line.x = s.x /\ line.y = y
                  /\ line.marks = s.marks \cup {y}
                  /\ s.x <= columnCount =>
                       IsWhole(line.text) /\ AgreeOutside(s.text, line.text,
                                                y * columnCount, (y + 1) * columnCount)
                  /\ ~(s.x <= columnCount) => line.text = Gone
  <2>1. 0 \in 0..2
    OBVIOUS
  <2>2. LET t == deleteInLine(s, 0)
            legal == \/ 0 = 2
                     \/ 0 = 0 /\ s.x <= columnCount
                     \/ 0 = 1 /\ s.x < columnCount
        IN  /\ t \in Screen /\ t.x = s.x /\ t.y = s.y
            /\ t.marks = s.marks \cup {s.y}
            /\ legal => /\ IsWhole(t.text)
                        /\ AgreeOutside(s.text, t.text, s.y * columnCount,
                                        (s.y + 1) * columnCount)
            /\ ~legal => t.text = Gone
    BY <2>1, deleteInLineIs
  <2>3. 0 # 2 /\ 0 # 1
    OBVIOUS
  <2> QED
    BY <1>0, <2>2, <2>3, Zenon
<1>3. IsWhole(line.text) \/ line.text = Gone
  BY <1>2
<1>4. CASE arg = 0
  <2> DEFINE t == invalidateLine([line EXCEPT !.text = Filled(@, (y + 1)..last, Blank)], {y, last})
  <2>1. deleteInScreen(s, arg) = t
    <3>1. arg <= 0
      BY <1>4
    <3>2. deleteInScreen(s, arg) =
             invalidateLine([line EXCEPT !.text = Filled(@, (s.y + 1)..(rowCount - 1), Blank)],
                            {s.y, rowCount - 1})
      BY <3>1, <1>2, Zenon DEF deleteInScreen
    <3> QED
      BY <3>2, <1>0, Zenon
  <2>2. PICK from \in Int : from = y + 1
    BY <1>0
  <2>3. LET u == invalidateLine([line EXCEPT !.text = Filled(@, from..last, Blank)], {y, last})
        IN  /\ u \in Screen /\ u.x = line.x /\ u.y = line.y
            /\ u.marks = line.marks \cup {y, last}
            /\ IsWhole(line.text) => /\ IsWhole(u.text)
                                     /\ AgreeOutside(line.text, u.text, from * columnCount,
                                                     (last + 1) * columnCount)
            /\ line.text = Gone => u.text = Gone
    <3>1. line \in Screen /\ {y, last} \in SUBSET Int
      BY <1>0, <1>2
    <3> QED
      BY <3>1, <1>3, FilledScreen
  <2>4. /\ t \in Screen /\ t.x = line.x /\ t.y = line.y
        /\ t.marks = line.marks \cup {y, last}
        /\ IsWhole(line.text) => /\ IsWhole(t.text)
                                 /\ AgreeOutside(line.text, t.text, from * columnCount,
                                                 (last + 1) * columnCount)
        /\ line.text = Gone => t.text = Gone
    BY <2>2, <2>3, Zenon
  <2> HIDE DEF t
  <2>5. ASSUME s.x <= columnCount
        PROVE  Marked(s, t)
    <3>1. IsWhole(line.text) /\ IsWhole(t.text)
      BY <1>2, <2>4, <2>5
    <3>2. PICK a, b, d, e \in Int :
             /\ a = y * columnCount /\ b = (y + 1) * columnCount
             /\ d = from * columnCount /\ e = (last + 1) * columnCount
             /\ a <= b /\ b <= e /\ a <= d
      <4>1. columnCount \in Nat /\ y + 1 \in Int /\ last + 1 \in Int
            /\ y <= y + 1 /\ y + 1 <= last + 1 /\ y <= from
        BY <1>0, <2>2 DEF Bounded
      <4> QED
        BY <4>1, RowsInOrder
    <3>3. AgreeOutside(s.text, line.text, a, e)
      <4>1. AgreeOutside(s.text, line.text, a, b)
        BY <1>2, <2>5, <3>2
      <4> QED
        BY <4>1, <3>2, Wider
    <3>4. AgreeOutside(line.text, t.text, a, e)
      <4>1. AgreeOutside(line.text, t.text, d, e)
        BY <2>4, <3>1, <3>2
      <4> QED
        BY <4>1, <3>2, Wider
    <3>5. AgreeOutside(s.text, t.text, y * columnCount, (last + 1) * columnCount)
      BY <3>2, <3>3, <3>4, Together
    <3>6. y \in t.marks /\ last \in t.marks
      BY <2>4
    <3> QED
      BY <3>1, <3>5, <3>6 DEF Marked
  <2>6. arg # 2
    BY <1>4
  <2> QED
    BY <1>2, <1>0, <2>1, <2>4, <2>5, <2>6, Zenon
<1>5. CASE arg = 1
  <2> DEFINE t == invalidateLine([line EXCEPT !.text = Filled(@, 0..(y - 1), Blank)], {0, y})
  <2>1. deleteInScreen(s, arg) = t
    <3>1. ~(arg <= 0) /\ arg = 1
      BY <1>5
    <3>2. deleteInScreen(s, arg) =
             invalidateLine([line EXCEPT !.text = Filled(@, 0..(s.y - 1), Blank)], {0, s.y})
      BY <3>1, <1>2, Zenon DEF deleteInScreen
    <3> QED
      BY <3>2, <1>0, Zenon
  <2>2. PICK to, first \in Int : to = y - 1 /\ first = 0
    BY <1>0
  <2>3. LET u == invalidateLine([line EXCEPT !.text = Filled(@, first..to, Blank)], {0, y})
        IN  /\ u \in Screen /\ u.x = line.x /\ u.y = line.y
            /\ u.marks = line.marks \cup {0, y}
            /\ IsWhole(line.text) => /\ IsWhole(u.text)
                                     /\ AgreeOutside(line.text, u.text, first * columnCount,
                                                     (to + 1) * columnCount)
            /\ line.text = Gone => u.text = Gone
    <3>1. line \in Screen /\ {0, y} \in SUBSET Int
      BY <1>0, <1>2
    <3> QED
      BY <3>1, <1>3, FilledScreen
  <2>4. /\ t \in Screen /\ t.x = line.x /\ t.y = line.y
        /\ t.marks = line.marks \cup {0, y}
        /\ IsWhole(line.text) => /\ IsWhole(t.text)
                                 /\ AgreeOutside(line.text, t.text, first * columnCount,
                                                 (to + 1) * columnCount)
        /\ line.text = Gone => t.text = Gone
    BY <2>2, <2>3, Zenon
  <2> HIDE DEF t
  <2>5. ASSUME s.x <= columnCount
        PROVE  Marked(s, t)
    <3>1. IsWhole(line.text) /\ IsWhole(t.text)
      BY <1>2, <2>4, <2>5
    <3>2. PICK a, b, d, e \in Int :
             /\ a = y * columnCount /\ b = (y + 1) * columnCount
             /\ d = first * columnCount /\ e = (to + 1) * columnCount
             /\ d <= a /\ e <= b
      <4>1. columnCount \in Nat /\ y + 1 \in Int /\ to + 1 \in Int
            /\ first <= y /\ to + 1 <= y + 1
        BY <1>0, <2>2 DEF Bounded
      <4> QED
        BY <1>0, <4>1, RowsInOrder
    <3>3. AgreeOutside(s.text, line.text, d, b)
      <4>1. AgreeOutside(s.text, line.text, a, b)
        BY <1>2, <2>5, <3>2
      <4> QED
        BY <4>1, <3>2, Wider
    <3>4. AgreeOutside(line.text, t.text, d, b)
      <4>1. AgreeOutside(line.text, t.text, d, e)
        BY <2>4, <3>1, <3>2
      <4> QED
        BY <4>1, <3>2, Wider
    <3>5. AgreeOutside(s.text, t.text, d, b)
      BY <3>2, <3>3, <3>4, Together
    <3>6. first \in t.marks /\ y \in t.marks
      BY <2>2, <2>4
    <3>7. AgreeOutside(s.text, t.text, first * columnCount, (y + 1) * columnCount)
      BY <3>2, <3>5, Zenon
    <3> QED
      BY <3>1, <3>6, <3>7 DEF Marked
  <2>6. arg # 2
    BY <1>5
  <2> QED
    BY <1>2, <1>0, <2>1, <2>4, <2>5, <2>6, Zenon
<1>6. CASE arg = 2
  <2> DEFINE t == invalidateLine([s EXCEPT !.text = Filled(@, 0..last, Blank)], {0, last})
  <2>1. deleteInScreen(s, arg) = t
    <3>1. ~(arg <= 0) /\ ~(arg = 1)
      BY <1>6
    <3>2. deleteInScreen(s, arg) =
             invalidateLine([s EXCEPT !.text = Filled(@, 0..(rowCount - 1), Blank)],
                            {0, rowCount - 1})
      BY <3>1, Zenon DEF deleteInScreen
    <3> QED
      BY <3>2, <1>0, Zenon
  <2>2. PICK first \in Int : first = 0
    OBVIOUS
  <2>3. LET u == invalidateLine([s EXCEPT !.text = Filled(@, first..last, Blank)], {0, last})
        IN  /\ u \in Screen /\ u.x = s.x /\ u.y = s.y
            /\ u.marks = s.marks \cup {0, last}
            /\ IsWhole(s.text) => /\ IsWhole(u.text)
                                  /\ AgreeOutside(s.text, u.text, first * columnCount,
                                                  (last + 1) * columnCount)
            /\ s.text = Gone => u.text = Gone
    BY <1>0, <1>1, FilledScreen
  <2>4. /\ t \in Screen /\ t.x = s.x /\ t.y = s.y
        /\ t.marks = s.marks \cup {0, last}
        /\ IsWhole(t.text)
        /\ AgreeOutside(s.text, t.text, first * columnCount, (last + 1) * columnCount)
    BY <1>1, <2>2, <2>3, Zenon
  <2> HIDE DEF t
  <2>5. first \in t.marks /\ last \in t.marks
    BY <2>2, <2>4
  <2>6. Marked(s, t)
    BY <2>4, <2>5 DEF Marked
  <2> QED
    BY <1>6, <2>1, <2>4, <2>6, Zenon
<1>7. arg = 0 \/ arg = 1 \/ arg = 2
  OBVIOUS
<1> QED
  BY <1>4, <1>5, <1>6, <1>7

(***************************************************************************)
(* A screen without damage, and how the cursor moves on it.                *)
(***************************************************************************)

Healthy == TypeOK /\ Sound /\ ~harmed /\ saved.y < rowCount

LEMMA HealthyIsBounded ==
  ASSUME Healthy
  PROVE  Bounded
<1>1. /\ columnCount \in Nat /\ columnCount >= 2 /\ MinRows \in Nat /\ MinRows >= 1
      /\ MaxRows \in Nat
  BY EmulatorAssumption
<1>2. rowCount \in Nat /\ rowCount >= 1
  BY <1>1 DEF Healthy, TypeOK
<1>3. topMargin \in Int /\ bottomMargin \in Int
  BY <1>1 DEF Healthy, TypeOK
<1>4. \/ topMargin = 0 /\ bottomMargin = rowCount - 1
      \/ 0 <= topMargin /\ topMargin < bottomMargin /\ bottomMargin < rowCount
  BY DEF Healthy, Sound, MarginsLegal
<1> QED
  BY <1>1, <1>2, <1>3, <1>4 DEF Bounded

LEMMA CellsAreWhole ==
  ASSUME Bounded
  PROVE  IsWhole(Cells) /\ Len(Cells) = Size
<1>1. PICK n \in Nat : n = Size
  BY SizeIs
<1>2. Cells = [i \in 1..n |-> i]
  BY <1>1 DEF Cells, Size
<1>3. [i \in 1..n |-> i] \in [1..n -> Char]
  BY DEF Char
<1>4. [i \in 1..n |-> i] \in Seq(Char) /\ Len([i \in 1..n |-> i]) = n
  BY <1>3
<1> QED
  BY <1>1, <1>2, <1>4 DEF IsWhole

LEMMA NowIs ==
  ASSUME Healthy
  PROVE  /\ Bounded /\ At(Now)
         /\ Now.x = curX /\ Now.y = curY /\ Now.text = Cells /\ Now.marks = {}
         /\ curX \in Nat /\ curX <= columnCount + 1
         /\ curY \in Nat /\ curY < rowCount
<1>1. Bounded
  BY HealthyIsBounded
<1>2. IsWhole(Cells)
  BY <1>1, CellsAreWhole
<1>3. Cells \in Seq(Int)
  BY <1>2, WholeIs
<1>4. curX \in Nat /\ curX <= columnCount + 1 /\ curY \in Nat /\ curY < rowCount
  <2>1. columnCount \in Nat /\ rowCount \in Nat
    BY <1>1 DEF Bounded
  <2>2. curX \in 0..(columnCount + 1) /\ curY \in 0..(rowCount - 1)
    BY DEF Healthy, TypeOK, Sound
  <2> QED
    BY <2>1, <2>2
<1>5. Now.x = curX /\ Now.y = curY /\ Now.text = Cells /\ Now.marks = {}
  BY DEF Now
<1>6. Now \in Screen
  <2>1. curX \in Int /\ curY \in Int /\ {} \in SUBSET Int
    BY <1>4
  <2> QED
    BY <2>1, <1>3 DEF Now, Screen
<1>7. At(Now)
  <2>1. Now.y \in Int /\ 0 <= Now.y /\ Now.y < rowCount
    BY <1>4, <1>5
  <2>2. Now.x \in Int /\ 0 <= Now.x /\ Now.x <= columnCount + 1
    BY <1>4, <1>5
  <2> QED
    BY <1>2, <1>5, <1>6, <2>1, <2>2 DEF At
<1> QED
  BY <1>1, <1>4, <1>5, <1>7

\* From one screen to another, and not over a margin.
Stays(s, t) ==
  /\ At(t)
  /\ topMargin <= s.y /\ s.y <= bottomMargin => topMargin <= t.y /\ t.y <= bottomMargin

LEMMA StaysTwice ==
  ASSUME NEW s, NEW t, NEW u, Stays(s, t), Stays(t, u)
  PROVE  Stays(s, u)
  BY DEF Stays

LEMMA InPlace ==
  ASSUME NEW s, At(s)
  PROVE  Stays(s, s)
  BY DEF Stays

LEMMA SameRow ==
  ASSUME NEW s, At(s), NEW t \in Screen, IsWhole(t.text), t.x = s.x, t.y = s.y
  PROVE  Stays(s, t)
  BY DEF Stays, At

LEMMA ColumnStays ==
  ASSUME Bounded, NEW s, At(s), NEW col \in Int, 0 <= col, col <= columnCount + 1
  PROVE  /\ Stays(s, AtColumn(s, col))
         /\ AtColumn(s, col).x = col /\ AtColumn(s, col).y = s.y
         /\ Stays(s, [s EXCEPT !.x = col])
<1>1. s \in Screen
  BY DEF At
<1>2. PICK t \in Screen : t = AtColumn(s, col) /\ t.x = col /\ t.y = s.y /\ t.text = s.text
  BY <1>1, AtColumnIs
<1>3. PICK u \in Screen : u = [s EXCEPT !.x = col] /\ u.x = col /\ u.y = s.y /\ u.text = s.text
  BY <1>1, WithColumn
<1>4. Stays(s, t)
  BY <1>2 DEF Stays, At
<1>5. Stays(s, u)
  BY <1>3 DEF Stays, At
<1> QED
  BY <1>2, <1>3, <1>4, <1>5, Zenon

LEMMA FirstColumn ==
  ASSUME Bounded, NEW s, At(s)
  PROVE  Stays(s, AtColumn(s, 0)) /\ Stays(s, [s EXCEPT !.x = 0])
<1>1. 0 <= 0 /\ 0 <= columnCount + 1
  BY DEF Bounded
<1>2. PICK col \in Int : col = 0
  OBVIOUS
<1> QED
  BY <1>1, <1>2, ColumnStays

LEMMA RowStays ==
  ASSUME Bounded, NEW s, At(s), NEW row \in Int, 0 <= row, row < rowCount,
         \/ topMargin <= row /\ row <= bottomMargin
         \/ ~(topMargin <= s.y /\ s.y <= bottomMargin)
  PROVE  Stays(s, ToRow(s, row)) /\ ToRow(s, row).x = s.x /\ ToRow(s, row).y = row
<1>1. s \in Screen
  BY DEF At
<1>2. PICK t \in Screen : t = ToRow(s, row) /\ t.x = s.x /\ t.y = row /\ t.text = s.text
  BY <1>1, ToRowIs
<1>3. Stays(s, t)
  BY <1>2 DEF Stays, At
<1> QED
  BY <1>2, <1>3, Zenon

LEMMA cursorUpIs ==
  ASSUME Bounded, NEW s, At(s), NEW n \in Nat
  PROVE  Stays(s, cursorUp(s, n)) /\ cursorUp(s, n).x = s.x
<1>1. PICK row \in Int : /\ row = Largest(s.y - n, topMargin)
                         /\ topMargin <= row /\ 0 <= row /\ row < rowCount
                         /\ topMargin <= s.y /\ s.y <= bottomMargin => row <= bottomMargin
  BY DEF Bounded, At, Largest
<1>2. \/ topMargin <= row /\ row <= bottomMargin
      \/ ~(topMargin <= s.y /\ s.y <= bottomMargin)
  BY <1>1
<1>3. Stays(s, ToRow(s, row)) /\ ToRow(s, row).x = s.x
  BY <1>1, <1>2, RowStays
<1> QED
  BY <1>1, <1>3 DEF cursorUp

LEMMA cursorDownIs ==
  ASSUME Bounded, NEW s, At(s), NEW n \in Nat
  PROVE  Stays(s, cursorDown(s, n)) /\ cursorDown(s, n).x = s.x
<1>1. PICK row \in Int : /\ row = Smallest(s.y + n, bottomMargin)
                         /\ row <= bottomMargin /\ 0 <= row /\ row < rowCount
                         /\ topMargin <= s.y /\ s.y <= bottomMargin => topMargin <= row
  BY DEF Bounded, At, Smallest
<1>2. \/ topMargin <= row /\ row <= bottomMargin
      \/ ~(topMargin <= s.y /\ s.y <= bottomMargin)
  BY <1>1
<1>3. Stays(s, ToRow(s, row)) /\ ToRow(s, row).x = s.x
  BY <1>1, <1>2, RowStays
<1> QED
  BY <1>1, <1>3 DEF cursorDown

LEMMA cursorLeftIs ==
  ASSUME Bounded, NEW s, At(s), NEW n \in Nat
  PROVE  Stays(s, cursorLeft(s, n))
<1>1. PICK col \in Int : /\ col = Largest(Smallest(s.x, columnCount - 1) - n, 0)
                         /\ 0 <= col /\ col <= columnCount + 1
  <2>1. PICK c, x, m \in Int :
          c = columnCount /\ x = s.x /\ m = n /\ c >= 2 /\ m >= 0 /\ 0 <= x /\ x <= c + 1
    BY DEF Bounded, At
  <2>2. PICK a \in Int : a = Smallest(x, c - 1) /\ a <= c - 1
    BY SmallestIs
  <2>3. PICK b \in Int : b = Largest(a - m, 0) /\ 0 <= b /\ b <= c + 1
    BY <2>1, <2>2 DEF Largest
  <2>4. b = Largest(Smallest(s.x, columnCount - 1) - n, 0)
    BY <2>1, <2>2, <2>3, Zenon
  <2> QED
    BY <2>1, <2>3, <2>4, Zenon
<1>2. Stays(s, AtColumn(s, col))
  BY <1>1, ColumnStays
<1> QED
  BY <1>1, <1>2 DEF cursorLeft

LEMMA cursorRightIs ==
  ASSUME Bounded, NEW s, At(s), NEW n \in Int, s.x + n >= 0
  PROVE  Stays(s, cursorRight(s, n))
<1>1. PICK col \in Int : /\ col = Smallest(s.x + n, columnCount - 1)
                         /\ 0 <= col /\ col <= columnCount + 1
  BY DEF Bounded, At, Smallest
<1>2. Stays(s, AtColumn(s, col))
  BY <1>1, ColumnStays
<1> QED
  BY <1>1, <1>2 DEF cursorRight

LEMMA ColumnIs ==
  ASSUME Bounded, NEW col \in Int
  PROVE  Column(col) \in Int /\ 0 <= Column(col) /\ Column(col) <= columnCount + 1
  BY DEF Bounded, Column, Largest, Smallest

LEMMA cursorToRowIs ==
  ASSUME Bounded, NEW s, At(s), NEW row \in Nat, NEW col \in Nat
  PROVE  At(cursorToRow(s, row, col))
<1> DEFINE z == IF originWithinMargins
                THEN Largest(topMargin, Smallest(row + topMargin, bottomMargin))
                ELSE Largest(0, Smallest(row, rowCount - 1))
<1>1. /\ Largest(topMargin, Smallest(row + topMargin, bottomMargin)) \in Int
      /\ 0 <= Largest(topMargin, Smallest(row + topMargin, bottomMargin))
      /\ Largest(topMargin, Smallest(row + topMargin, bottomMargin)) < rowCount
      /\ Largest(0, Smallest(row, rowCount - 1)) \in Int
      /\ 0 <= Largest(0, Smallest(row, rowCount - 1))
      /\ Largest(0, Smallest(row, rowCount - 1)) < rowCount
  BY DEF Bounded, Largest, Smallest
<1>2. PICK y \in Int : y = z /\ 0 <= y /\ y < rowCount
  BY <1>1
<1>3. s \in Screen
  BY DEF At
<1>4. PICK t \in Screen : t = ToRow(s, y) /\ t.x = s.x /\ t.y = y /\ t.text = s.text
  BY <1>3, ToRowIs
<1>5. At(t)
  BY <1>2, <1>4 DEF At
<1>6. PICK c \in Int : c = Column(col) /\ 0 <= c /\ c <= columnCount + 1
  BY ColumnIs
<1>7. Stays(t, [t EXCEPT !.x = c])
  BY <1>5, <1>6, ColumnStays
<1>8. cursorToRow(s, row, col) = [ToRow(s, z) EXCEPT !.x = Column(col)]
  BY DEF cursorToRow
<1> HIDE DEF z
<1>9. cursorToRow(s, row, col) = [t EXCEPT !.x = c]
  BY <1>2, <1>4, <1>6, <1>8, Zenon
<1> QED
  BY <1>7, <1>9 DEF Stays

LEMMA ScrollsStay ==
  ASSUME Bounded, NEW s, At(s), NEW n \in Nat
  PROVE  /\ Stays(s, scrollBack(s, n)) /\ scrollBack(s, n).y = s.y
         /\ scrollBack(s, n).x = s.x
         /\ Stays(s, scrollFeed(s, n)) /\ scrollFeed(s, n).y = s.y
         /\ scrollFeed(s, n).x = s.x
<1>1. s \in Screen /\ IsWhole(s.text) /\ n \in Int /\ n >= 0
  BY DEF At
<1>2. PICK t \in Screen : t = scrollBack(s, n) /\ t.x = s.x /\ t.y = s.y /\ IsWhole(t.text)
  <2>1. LET t == scrollBack(s, n) IN
         /\ t \in Screen /\ t.x = s.x /\ t.y = s.y
         /\ n >= 0 => IsWhole(t.text)
    BY <1>1, scrollBackIs
  <2> QED
    BY <1>1, <2>1, Zenon
<1>3. PICK u \in Screen : u = scrollFeed(s, n) /\ u.x = s.x /\ u.y = s.y /\ IsWhole(u.text)
  <2>1. LET v == scrollFeed(s, n) IN
         /\ v \in Screen /\ v.x = s.x /\ v.y = s.y
         /\ n >= 0 => IsWhole(v.text)
    BY <1>1, scrollFeedIs
  <2> QED
    BY <1>1, <2>1, Zenon
<1>4. Stays(s, t) /\ Stays(s, u)
  BY <1>2, <1>3, SameRow
<1> QED
  BY <1>2, <1>3, <1>4, Zenon

LEMMA BelowIs ==
  ASSUME Bounded, NEW s, At(s)
  PROVE  Stays(s, Below(s))
<1>1. 1 \in Nat
  OBVIOUS
<1>2. Stays(s, scrollFeed(s, 1)) /\ Stays(s, cursorDown(s, 1))
  BY <1>1, ScrollsStay, cursorDownIs
<1> QED
  BY <1>2 DEF Below

(***************************************************************************)
(* What a command leaves.                                                  *)
(***************************************************************************)

\* Nothing is asked of a damaged screen but that its cursor and its margins are
\* numbers, for no command follows.  A saved row is one of the screen: the height
\* changes in setWidth only, which forgets it.
Inv == TypeOK /\ (harmed <=> ~Sound) /\ saved.y < rowCount

Kept == Inv' /\ (curY \in Inside /\ ~harmed' => curY' \in Inside)

Effect(s) ==
  /\ curX' = s.x /\ curY' = s.y
  /\ intact' = (Len(s.text) = rowCount * columnCount)
  /\ UNCHANGED <<rowCount, margins, Modes>>

LEMMA EffectKeeps ==
  ASSUME Healthy, NEW s, Effect(s),
         s.x \in Int, 0 <= s.x, s.x <= columnCount + 1,
         s.y \in Int, -1 <= s.y, s.y < rowCount,
         harmed' \in BOOLEAN, harmed' <=> ~(Len(s.text) = Size /\ 0 <= s.y),
         ~harmed' => Stays(Now, s)
  PROVE  Kept
<1>1. /\ Bounded /\ Now.y = curY
  BY NowIs
<1>2. /\ rowCount' = rowCount /\ topMargin' = topMargin /\ bottomMargin' = bottomMargin
      /\ originWithinMargins' = originWithinMargins /\ isAlternate' = isAlternate
      /\ saved' = saved /\ savedMargins' = savedMargins
      /\ curX' = s.x /\ curY' = s.y
      /\ intact' \in BOOLEAN /\ (intact' <=> Len(s.text) = Size)
  BY DEF Effect, margins, Modes, Size
<1>3. rowCount <= MaxRows /\ MaxRows \in Nat /\ rowCount \in Nat /\ columnCount \in Nat
  BY EmulatorAssumption DEF Healthy, TypeOK
<1>4. curX' \in 0..(columnCount + 1) /\ curY' \in -1..(MaxRows - 1)
  BY <1>2, <1>3
<1>5. TypeOK'
  BY <1>2, <1>4 DEF Healthy, TypeOK
<1>6. MarginsLegal(topMargin, bottomMargin)' /\ (saved.y < rowCount)'
  BY <1>2 DEF Healthy, Sound, MarginsLegal
<1>7. curY' \in 0..(rowCount' - 1) <=> 0 <= s.y
  BY <1>2, <1>3
<1>8. Sound' <=> Len(s.text) = Size /\ 0 <= s.y
  BY <1>2, <1>6, <1>7 DEF Sound
<1>9. ASSUME curY \in Inside, ~harmed'
      PROVE  curY' \in Inside
  <2>1. topMargin <= curY /\ curY <= bottomMargin
    BY <1>9 DEF Inside
  <2>2. topMargin <= s.y /\ s.y <= bottomMargin
    BY <2>1, <1>1, <1>9 DEF Stays
  <2>3. s.y \in 0..(rowCount - 1)
    BY <1>3, <1>9
  <2> QED
    BY <2>2, <2>3, <1>2 DEF Inside
<1> QED
  BY <1>5, <1>6, <1>8, <1>9 DEF Kept, Inv

LEMMA ScreenIs ==
  ASSUME Bounded, NEW s, At(s)
  PROVE  /\ s.x \in Int /\ 0 <= s.x /\ s.x <= columnCount + 1
         /\ s.y \in Int /\ -1 <= s.y /\ s.y < rowCount /\ 0 <= s.y
         /\ Len(s.text) = Size
  BY DEF At, IsWhole

LEMMA SafelyKeeps ==
  ASSUME Healthy, NEW s, Safely(s), Stays(Now, s)
  PROVE  Kept
<1>1. Effect(s) /\ harmed' \in BOOLEAN /\ ~harmed'
  BY DEF Safely, Do, Edit, Effect
<1>2. Bounded
  BY NowIs
<1>3. /\ s.x \in Int /\ 0 <= s.x /\ s.x <= columnCount + 1
      /\ s.y \in Int /\ -1 <= s.y /\ s.y < rowCount /\ 0 <= s.y
      /\ Len(s.text) = Size
  BY <1>2, ScreenIs DEF Stays
<1> QED
  BY <1>1, <1>3, EffectKeeps

\* A command that is harmful or not.
LEMMA DoKeeps ==
  ASSUME Healthy, NEW s \in Screen, Effect(s), harmed' \in BOOLEAN,
         0 <= s.x, s.x <= columnCount + 1, 0 <= s.y, s.y < rowCount,
         ~harmed' => Stays(Now, s),
         harmed' => IsBroken(s.text)
  PROVE  Kept
<1>1. Bounded
  BY NowIs
<1>2. s.x \in Int /\ s.y \in Int /\ -1 <= s.y
  BY DEF Screen
<1>3. harmed' => Len(s.text) # Size
  BY <1>1, BrokenIs
<1>4. ~harmed' => Len(s.text) = Size
  BY <1>1, ScreenIs DEF Stays
<1> QED
  BY <1>2, <1>3, <1>4, EffectKeeps

LEMMA GoneIsBroken == ASSUME NEW text, text = Gone PROVE IsBroken(text)
  BY DEF IsBroken

LEMMA ArgIs ==
  ASSUME NEW n \in Arg
  PROVE  /\ n \in Int /\ n >= -1
         /\ AtLeastOne(n) \in Nat /\ AtLeastOne(n) >= 1
         /\ OneIfAbsent(n) \in Int /\ (n # 0 => OneIfAbsent(n) \in Nat)
         /\ FromOne(n) \in Nat
         /\ Largest(n, 0) \in Nat
<1>1. n \in Int /\ n >= -1
  BY EmulatorAssumption DEF Arg, Absent
<1> QED
  BY <1>1 DEF AtLeastOne, OneIfAbsent, FromOne, Largest, Absent

(* The commands that work from where the cursor is. *)

LEMMA BackspaceKeeps ==
  ASSUME Healthy, Backspace
  PROVE  Kept
<1>0. /\ Bounded /\ At(Now) /\ Now.y = curY
      /\ curY \in Nat /\ curY < rowCount /\ columnCount \in Nat /\ columnCount >= 2
      /\ topMargin \in Nat /\ rowCount \in Nat /\ bottomMargin \in Nat
      /\ bottomMargin < rowCount
  BY NowIs DEF Bounded
<1>1. CASE Safely(cursorLeft(Now, 1))
  <2>1. Stays(Now, cursorLeft(Now, 1))
    BY <1>0, cursorLeftIs
  <2> QED
    BY <1>1, <2>1, SafelyKeeps
<1>2. ASSUME LET s == AtColumn(Now, columnCount - 1) IN
             IF curY = topMargin THEN Safely(scrollBack(s, 1))
             ELSE Do(ToRow(s, curY - 1), curY = 0)
      PROVE  Kept
  <2>1. PICK s : /\ s = AtColumn(Now, columnCount - 1) /\ Stays(Now, s) /\ s.y = curY
                 /\ At(s)
    <3>1. PICK col \in Int : col = columnCount - 1 /\ 0 <= col /\ col <= columnCount + 1
      BY <1>0
    <3>2. Stays(Now, AtColumn(Now, col)) /\ AtColumn(Now, col).y = Now.y
      BY <1>0, <3>1, ColumnStays
    <3> QED
      BY <1>0, <3>1, <3>2 DEF Stays
  <2>2. CASE curY = topMargin
    <3>1. Safely(scrollBack(s, 1))
      BY <1>2, <2>1, <2>2, Zenon
    <3>2. Stays(s, scrollBack(s, 1))
      BY <1>0, <2>1, ScrollsStay
    <3>3. Stays(Now, scrollBack(s, 1))
      BY <2>1, <3>2, StaysTwice
    <3> QED
      BY <3>1, <3>3, SafelyKeeps
  <2>3. CASE curY # topMargin
    <3>1. Do(ToRow(s, curY - 1), curY = 0)
      BY <1>2, <2>1, <2>3, Zenon
    <3>2. PICK row \in Int : row = curY - 1
      BY <1>0
    <3>3. s \in Screen /\ IsWhole(s.text)
      BY <2>1 DEF At
    <3>4. PICK t \in Screen : t = ToRow(s, row) /\ t.x = s.x /\ t.y = row /\ t.text = s.text
      BY <3>3, ToRowIs
    <3>5. Effect(t) /\ harmed' \in BOOLEAN /\ (harmed' <=> curY = 0)
      BY <3>1, <3>2, <3>4 DEF Do, Edit, Effect
    <3>6. /\ t.x \in Int /\ 0 <= t.x /\ t.x <= columnCount + 1
          /\ t.y \in Int /\ -1 <= t.y /\ t.y < rowCount
          /\ Len(t.text) = Size
      <4>1. s.x \in Int /\ 0 <= s.x /\ s.x <= columnCount + 1 /\ Len(s.text) = Size
        BY <1>0, <2>1, ScreenIs
      <4> QED
        BY <1>0, <3>2, <3>4, <4>1
    <3>7. harmed' <=> ~(Len(t.text) = Size /\ 0 <= t.y)
      BY <1>0, <3>2, <3>4, <3>5, <3>6
    <3>8. ~harmed' => Stays(Now, t)
      <4>1. SUFFICES ASSUME ~harmed'
                     PROVE  Stays(Now, t)
        OBVIOUS
      <4>2. 0 <= row /\ row < rowCount
        BY <1>0, <3>2, <3>5, <4>1
      <4>3. \/ topMargin <= row /\ row <= bottomMargin
            \/ ~(topMargin <= s.y /\ s.y <= bottomMargin)
        BY <1>0, <2>1, <2>3, <3>2
      <4>4. Stays(s, ToRow(s, row))
        BY <1>0, <2>1, <4>2, <4>3, RowStays
      <4> QED
        BY <2>1, <3>4, <4>4, StaysTwice
    <3> QED
      BY <3>5, <3>6, <3>7, <3>8, EffectKeeps
  <2> QED
    BY <2>2, <2>3
<1> QED
  BY <1>1, <1>2 DEF Backspace

LEMMA ColumnKeeps ==
  ASSUME Healthy, Tab \/ Return \/ CursorColumn \/ BackTab
  PROVE  Kept
<1>0. /\ Bounded /\ At(Now) /\ curX \in Nat /\ curX <= columnCount + 1
      /\ columnCount \in Nat /\ columnCount >= 2
  BY NowIs DEF Bounded
<1>1. ASSUME NEW col \in Int, 0 <= col, col <= columnCount + 1,
             Safely(AtColumn(Now, col)) \/ Safely([Now EXCEPT !.x = col])
      PROVE  Kept
  <2>1. Stays(Now, AtColumn(Now, col)) /\ Stays(Now, [Now EXCEPT !.x = col])
    BY <1>0, <1>1, ColumnStays
  <2> QED
    BY <1>1, <2>1, SafelyKeeps
<1>2. CASE Tab
  <2>1. PICK col \in (curX + 1)..(columnCount - 1) \cup {columnCount - 1} :
           Safely([Now EXCEPT !.x = col])
    BY <1>2 DEF Tab
  <2>2. col \in Int /\ 0 <= col /\ col <= columnCount + 1
    BY <1>0
  <2> QED
    BY <1>1, <2>1, <2>2
<1>3. CASE Return
  <2>1. 0 \in Int /\ 0 <= 0 /\ 0 <= columnCount + 1
    BY <1>0
  <2> QED
    BY <1>1, <1>3, <2>1 DEF Return
<1>4. CASE CursorColumn
  <2>1. PICK n \in Arg : Safely(AtColumn(Now, Column(FromOne(n))))
    BY <1>4 DEF CursorColumn
  <2>2. PICK col \in Int : col = Column(FromOne(n)) /\ 0 <= col /\ col <= columnCount + 1
    <3>1. FromOne(n) \in Int
      BY ArgIs
    <3> QED
      BY <1>0, <3>1, ColumnIs
  <2> QED
    BY <1>1, <2>1, <2>2
<1>5. CASE BackTab
  <2>1. PICK col \in 0..(curX - 1) \cup (IF curX = 0 THEN {0} ELSE {}) :
           Safely(AtColumn(Now, col))
    BY <1>5 DEF BackTab
  <2>2. col \in Int /\ 0 <= col /\ col <= columnCount + 1
    BY <1>0
  <2> QED
    BY <1>1, <2>1, <2>2
<1> QED
  BY <1>2, <1>3, <1>4, <1>5

LEMMA ScrollKeeps ==
  ASSUME Healthy, ReverseIndex \/ InsertLines \/ DeleteLines \/ ScrollUp \/ ScrollDown
  PROVE  Kept
<1>0. Bounded /\ At(Now)
  BY NowIs
<1>1. ASSUME NEW n \in Nat, Safely(scrollBack(Now, n)) \/ Safely(scrollFeed(Now, n))
      PROVE  Kept
  <2>1. Stays(Now, scrollBack(Now, n)) /\ Stays(Now, scrollFeed(Now, n))
    BY <1>0, ScrollsStay
  <2> QED
    BY <1>1, <2>1, SafelyKeeps
<1>2. CASE ReverseIndex
  <2>1. Stays(Now, cursorUp(Now, 1))
    BY <1>0, cursorUpIs
  <2>2. Safely(cursorUp(Now, 1)) \/ Safely(scrollBack(Now, 1))
    BY <1>2 DEF ReverseIndex
  <2> QED
    BY <1>1, <2>1, <2>2, SafelyKeeps
<1>3. CASE InsertLines
  BY <1>1, <1>3, ArgIs DEF InsertLines
<1>4. CASE DeleteLines
  BY <1>1, <1>4, ArgIs DEF DeleteLines
<1>5. CASE ScrollUp
  BY <1>1, <1>5, ArgIs DEF ScrollUp
<1>6. CASE ScrollDown
  BY <1>1, <1>6, ArgIs DEF ScrollDown
<1> QED
  BY <1>2, <1>3, <1>4, <1>5, <1>6

LEMMA LineKeeps ==
  ASSUME Healthy, LineFeed \/ Index \/ NextLine \/ CursorUp \/ CursorDown \/ CursorLeft
  PROVE  Kept
<1>0. /\ Bounded /\ At(Now) /\ curX \in Nat /\ curX <= columnCount + 1
      /\ columnCount \in Nat
  BY NowIs DEF Bounded
<1>1. CASE LineFeed
  <2>1. PICK col \in {curX, 0} :
          Safely([(IF curY >= bottomMargin THEN scrollFeed(Now, 1) ELSE cursorDown(Now, 1))
                     EXCEPT !.x = col])
    BY <1>1 DEF LineFeed
  <2>2. PICK s : /\ s = (IF curY >= bottomMargin THEN scrollFeed(Now, 1) ELSE cursorDown(Now, 1))
                 /\ Stays(Now, s)
    <3>1. 1 \in Nat
      OBVIOUS
    <3>2. Stays(Now, scrollFeed(Now, 1)) /\ Stays(Now, cursorDown(Now, 1))
      BY <1>0, <3>1, ScrollsStay, cursorDownIs
    <3> QED
      BY <3>2, Zenon
  <2>3. Safely([s EXCEPT !.x = col])
    BY <2>1, <2>2, Zenon
  <2>4. Stays(s, [s EXCEPT !.x = col])
    <3>1. col \in Int /\ 0 <= col /\ col <= columnCount + 1 /\ At(s)
      BY <1>0, <2>2 DEF Stays
    <3> QED
      BY <1>0, <3>1, ColumnStays
  <2>5. Stays(Now, [s EXCEPT !.x = col])
    BY <2>2, <2>4, StaysTwice
  <2> QED
    BY <2>3, <2>5, SafelyKeeps
<1>2. CASE Index
  BY <1>0, <1>2, BelowIs, SafelyKeeps DEF Index
<1>3. CASE NextLine
  <2>1. PICK s : s = [Now EXCEPT !.x = 0] /\ Stays(Now, s)
    BY <1>0, FirstColumn
  <2>2. Stays(s, Below(s))
    BY <1>0, <2>1, BelowIs DEF Stays
  <2>3. Stays(Now, Below(s))
    BY <2>1, <2>2, StaysTwice
  <2>4. Safely(Below(s))
    BY <1>3, <2>1 DEF NextLine
  <2> QED
    BY <2>3, <2>4, SafelyKeeps
<1>4. CASE CursorUp
  BY <1>0, <1>4, ArgIs, cursorUpIs, SafelyKeeps DEF CursorUp
<1>5. CASE CursorDown
  BY <1>0, <1>5, ArgIs, cursorDownIs, SafelyKeeps DEF CursorDown
<1>6. CASE CursorLeft
  BY <1>0, <1>6, ArgIs, cursorLeftIs, SafelyKeeps DEF CursorLeft
<1> QED
  BY <1>1, <1>2, <1>3, <1>4, <1>5, <1>6

LEMMA CursorRightKeeps ==
  ASSUME Healthy, CursorRight
  PROVE  Kept
<1>0. /\ Bounded /\ At(Now) /\ Now.x = curX /\ curX \in Nat /\ curX <= columnCount + 1
      /\ columnCount \in Nat
  BY NowIs DEF Bounded
<1>1. PICK n \in Arg :
        Safely(cursorRight(Now, Smallest(AtLeastOne(n), columnCount - curX)))
  BY DEF CursorRight
<1>2. PICK k \in Int : /\ k = Smallest(AtLeastOne(n), columnCount - curX)
                       /\ k = AtLeastOne(n) \/ k = columnCount - curX
  BY <1>0, ArgIs DEF Smallest
<1>3. Now.x + k >= 0
  BY <1>0, <1>2, ArgIs
<1>4. Stays(Now, cursorRight(Now, k))
  BY <1>0, <1>3, cursorRightIs
<1> QED
  BY <1>1, <1>2, <1>4, SafelyKeeps

LEMMA SaveCursorKeeps ==
  ASSUME Healthy, SaveCursor
  PROVE  Kept
<1>0. /\ Bounded /\ At(Now) /\ Now.x = curX /\ Now.y = curY /\ Now.text = Cells
      /\ curY \in Nat /\ curY < rowCount
  BY NowIs
<1>1. Len(Cells) = Size
  BY <1>0, CellsAreWhole
<1>2. /\ rowCount' = rowCount /\ topMargin' = topMargin /\ bottomMargin' = bottomMargin
      /\ originWithinMargins' = originWithinMargins /\ isAlternate' = isAlternate
      /\ saved' = [x |-> curX, y |-> curY, origin |-> originWithinMargins]
      /\ savedMargins' = savedMargins
      /\ curX' = curX /\ curY' = curY
      /\ intact' = TRUE /\ harmed' = FALSE
  BY <1>0, <1>1 DEF SaveCursor, Edit, margins, Size
<1>3. rowCount <= MaxRows /\ MaxRows \in Nat /\ rowCount \in Nat
  BY EmulatorAssumption DEF Healthy, TypeOK
<1>4. saved' \in [x : 0..(columnCount + 1), y : 0..(MaxRows - 1), origin : BOOLEAN]
  <2>1. curY \in 0..(MaxRows - 1)
    BY <1>0, <1>3
  <2>2. curX \in 0..(columnCount + 1) /\ originWithinMargins \in BOOLEAN
    BY DEF Healthy, TypeOK
  <2> QED
    BY <1>2, <2>1, <2>2
<1>5. TypeOK'
  BY <1>2, <1>4 DEF Healthy, TypeOK
<1>6. Sound'
  BY <1>2 DEF Healthy, Sound, MarginsLegal
<1>7. (saved.y < rowCount)'
  BY <1>0, <1>2
<1> QED
  BY <1>2, <1>5, <1>6, <1>7 DEF Kept, Inv, Inside

LEMMA TabStopKeeps ==
  ASSUME Healthy, TabStop
  PROVE  Kept
<1>0. curX \in Nat /\ columnCount \in Nat
  BY NowIs DEF Bounded
<1>1. /\ rowCount' = rowCount /\ topMargin' = topMargin /\ bottomMargin' = bottomMargin
      /\ originWithinMargins' = originWithinMargins /\ isAlternate' = isAlternate
      /\ saved' = saved /\ savedMargins' = savedMargins
      /\ curX' = curX /\ curY' = curY
  BY DEF TabStop, cursor, margins, Modes
<1>2. /\ intact' \in BOOLEAN /\ harmed' \in BOOLEAN
      /\ harmed' <=> curX >= columnCount
      /\ intact' <=> ~(curX >= columnCount)
  <2>1. PICK column \in Int : column = IF curX >= columnCount THEN columnCount + 1 ELSE curX
    BY <1>0
  <2>2. /\ intact' = ((IF curX >= columnCount THEN columnCount + 1 ELSE curX) < columnCount)
        /\ harmed' = (curX >= columnCount)
    BY DEF TabStop
  <2>3. intact' = (column < columnCount)
    BY <2>1, <2>2, Zenon
  <2>4. intact' \in BOOLEAN
    BY <1>0, <2>3
  <2>5. intact' <=> column < columnCount
    BY <1>0, <2>3
  <2>6. harmed' \in BOOLEAN
    BY <1>0, <2>2
  <2>7. harmed' <=> curX >= columnCount
    BY <1>0, <2>2
  <2>8. column < columnCount <=> ~(curX >= columnCount)
    BY <1>0, <2>1
  <2> QED
    BY <2>4, <2>5, <2>6, <2>7, <2>8, Zenon
<1>3. TypeOK'
  BY <1>1, <1>2 DEF Healthy, TypeOK
<1>4. Sound' <=> intact'
  BY <1>1 DEF Healthy, Sound, MarginsLegal
<1>5. (saved.y < rowCount)'
  BY <1>1 DEF Healthy
<1> QED
  BY <1>1, <1>2, <1>3, <1>4, <1>5 DEF Kept, Inv, Inside

LEMMA AlignTestKeeps ==
  ASSUME Healthy, AlignTest
  PROVE  Kept
<1>0. Bounded /\ At(Now)
  BY NowIs
<1>1. PICK t \in Screen : t = alignTest(Now) /\ t.x = Now.x /\ t.y = Now.y /\ IsWhole(t.text)
  <2>1. LET t == alignTest(Now) IN t \in Screen /\ t.x = Now.x /\ t.y = Now.y /\ IsWhole(t.text)
    BY <1>0, alignTestIs
  <2> QED
    BY <2>1, Zenon
<1>2. Stays(Now, t)
  BY <1>0, <1>1, SameRow
<1> QED
  BY <1>1, <1>2, SafelyKeeps DEF AlignTest

LEMMA NextLinesKeeps ==
  ASSUME Healthy, NextLines
  PROVE  Kept
<1>0. /\ Bounded /\ At(Now) /\ Now \in Screen /\ IsWhole(Now.text) /\ Now.y = curY
      /\ curY \in Nat /\ curY < rowCount /\ columnCount \in Nat
      /\ bottomMargin \in Nat /\ topMargin \in Nat /\ topMargin <= bottomMargin
      /\ bottomMargin < rowCount /\ rowCount \in Nat
  BY NowIs DEF Bounded, At
<1> DEFINE Beyond(n) == curY <= bottomMargin /\ n > bottomMargin - curY
           Lines(n) == IF Beyond(n)
                       THEN cursorDown(scrollFeed(Now, n - bottomMargin - curY),
                                       bottomMargin - curY)
                       ELSE cursorDown(Now, n)
<1>1. PICK n \in Nat : /\ n >= 1
                       /\ Do(AtColumn(Lines(n), 0), Beyond(n) /\ n < bottomMargin + curY)
  <2>1. PICK arg \in Arg :
          Do(AtColumn(Lines(AtLeastOne(arg)), 0),
             Beyond(AtLeastOne(arg)) /\ AtLeastOne(arg) < bottomMargin + curY)
    BY DEF NextLines
  <2>2. AtLeastOne(arg) \in Nat /\ AtLeastOne(arg) >= 1
    BY ArgIs
  <2> QED
    BY <2>1, <2>2
<1>2. /\ Effect(AtColumn(Lines(n), 0)) /\ harmed' \in BOOLEAN
      /\ harmed' <=> curY <= bottomMargin /\ n > bottomMargin - curY /\ n < bottomMargin + curY
  <2> DEFINE t == AtColumn(Lines(n), 0)
  <2>1. Do(t, Beyond(n) /\ n < bottomMargin + curY)
    BY <1>1
  <2> HIDE DEF t
  <2>2. Effect(t) /\ harmed' = (Beyond(n) /\ n < bottomMargin + curY)
    BY <2>1 DEF Do, Edit, Effect
  <2> QED
    BY <2>2 DEF t
<1>3. CASE ~Beyond(n)
  <2>1. Stays(Now, cursorDown(Now, n))
    BY <1>0, cursorDownIs
  <2>2. Stays(cursorDown(Now, n), AtColumn(cursorDown(Now, n), 0))
    <3>1. At(cursorDown(Now, n))
      BY <2>1 DEF Stays
    <3> QED
      BY <1>0, <3>1, FirstColumn
  <2>3. Lines(n) = cursorDown(Now, n)
    BY <1>3
  <2> HIDE DEF Lines
  <2>4. Stays(Now, AtColumn(Lines(n), 0))
    BY <2>1, <2>2, <2>3, StaysTwice
  <2>5. ~harmed'
    BY <1>2, <1>3
  <2>6. PICK t : t = AtColumn(Lines(n), 0) /\ Stays(Now, t) /\ Effect(t) /\ At(t)
    BY <1>2, <2>4 DEF Stays
  <2>7. /\ t \in Screen /\ 0 <= t.x /\ t.x <= columnCount + 1 /\ 0 <= t.y /\ t.y < rowCount
    BY <2>6 DEF At
  <2> QED
    BY <1>2, <2>5, <2>6, <2>7, DoKeeps
<1>4. CASE Beyond(n)
  <2>1. PICK k \in Int, down \in Nat :
          k = n - bottomMargin - curY /\ down = bottomMargin - curY
    BY <1>0, <1>1, <1>4
  <2>2. PICK u \in Screen : /\ u = scrollFeed(Now, k) /\ u.x = Now.x /\ u.y = curY
                            /\ k >= 0 => IsWhole(u.text)
                            /\ k < 0 => u.text = Gone
    <3>1. LET t == scrollFeed(Now, k) IN
         /\ t \in Screen /\ t.x = Now.x /\ t.y = Now.y
         /\ k >= 0 => IsWhole(t.text)
         /\ k < 0 => t.text = Gone
      BY <1>0, <2>1, scrollFeedIs
    <3> QED
      BY <1>0, <3>1, Zenon
  <2>3. Smallest(u.y + down, bottomMargin) = bottomMargin
    BY <1>0, <2>1, <2>2 DEF Smallest
  <2>4. PICK v \in Screen : /\ v = cursorDown(u, down) /\ v.y = bottomMargin
                            /\ v.text = u.text
    <3>1. cursorDown(u, down) = ToRow(u, bottomMargin)
      BY <2>3 DEF cursorDown
    <3>2. bottomMargin \in Int
      BY <1>0
    <3>3. /\ ToRow(u, bottomMargin) \in Screen /\ ToRow(u, bottomMargin).y = bottomMargin
          /\ ToRow(u, bottomMargin).text = u.text
      BY <3>2, ToRowIs
    <3> QED
      BY <3>1, <3>3, Zenon
  <2>5. PICK t \in Screen : /\ t = AtColumn(v, 0) /\ t.x = 0 /\ t.y = bottomMargin
                            /\ t.text = u.text
    BY <2>4, AtColumnIs
  <2>6. Effect(t)
    <3>1. Lines(n) = v
      BY <1>4, <2>1, <2>2, <2>4, Zenon
    <3> HIDE DEF Lines
    <3> QED
      BY <1>2, <2>5, <3>1
  <2>7. harmed' <=> k < 0
    BY <1>0, <1>1, <1>2, <1>4, <2>1
  <2>8. ~harmed' => Stays(Now, t)
    <3>1. SUFFICES ASSUME ~harmed'
                   PROVE  Stays(Now, t)
      OBVIOUS
    <3>2. IsWhole(t.text)
      BY <2>1, <2>2, <2>5, <2>7, <3>1
    <3> QED
      BY <1>0, <2>5, <3>2 DEF Stays, At
  <2>9. harmed' => IsBroken(t.text)
    BY <2>2, <2>5, <2>7, GoneIsBroken
  <2>10. 0 <= t.x /\ t.x <= columnCount + 1 /\ 0 <= t.y /\ t.y < rowCount
    BY <1>0, <2>5
  <2> QED
    BY <1>2, <2>6, <2>8, <2>9, <2>10, DoKeeps
<1> QED
  BY <1>3, <1>4

LEMMA PrecedingLinesKeeps ==
  ASSUME Healthy, PrecedingLines
  PROVE  Kept
<1>0. /\ Bounded /\ At(Now) /\ Now \in Screen /\ IsWhole(Now.text) /\ Now.y = curY
      /\ curY \in Nat /\ curY < rowCount /\ columnCount \in Nat
      /\ bottomMargin \in Nat /\ topMargin \in Nat /\ topMargin <= bottomMargin
      /\ bottomMargin < rowCount /\ rowCount \in Nat
  BY NowIs DEF Bounded, At
<1> DEFINE Beyond(n) == curY >= topMargin /\ n > curY - topMargin
           Lines(n) == IF Beyond(n) THEN scrollBack(Now, n - curY - topMargin) ELSE Now
<1>1. PICK n \in Nat : /\ n >= 1
                       /\ Do(AtColumn(cursorUp(Lines(n), n), 0),
                             Beyond(n) /\ n < curY + topMargin)
  <2>1. PICK arg \in Arg :
          Do(AtColumn(cursorUp(Lines(AtLeastOne(arg)), AtLeastOne(arg)), 0),
             Beyond(AtLeastOne(arg)) /\ AtLeastOne(arg) < curY + topMargin)
    BY DEF PrecedingLines
  <2>2. AtLeastOne(arg) \in Nat /\ AtLeastOne(arg) >= 1
    BY ArgIs
  <2> QED
    BY <2>1, <2>2
<1>2. /\ Effect(AtColumn(cursorUp(Lines(n), n), 0)) /\ harmed' \in BOOLEAN
      /\ harmed' <=> curY >= topMargin /\ n > curY - topMargin /\ n < curY + topMargin
  <2> DEFINE t == AtColumn(cursorUp(Lines(n), n), 0)
  <2>1. Do(t, Beyond(n) /\ n < curY + topMargin)
    BY <1>1
  <2> HIDE DEF t
  <2>2. Effect(t) /\ harmed' = (Beyond(n) /\ n < curY + topMargin)
    BY <2>1 DEF Do, Edit, Effect
  <2> QED
    BY <2>2 DEF t
<1>3. CASE ~Beyond(n)
  <2>1. Stays(Now, cursorUp(Now, n))
    BY <1>0, cursorUpIs
  <2>2. Stays(cursorUp(Now, n), AtColumn(cursorUp(Now, n), 0))
    <3>1. At(cursorUp(Now, n))
      BY <2>1 DEF Stays
    <3> QED
      BY <1>0, <3>1, FirstColumn
  <2>3. Lines(n) = Now
    BY <1>3
  <2> HIDE DEF Lines
  <2>4. Stays(Now, AtColumn(cursorUp(Lines(n), n), 0))
    BY <2>1, <2>2, <2>3, StaysTwice
  <2>5. ~harmed'
    BY <1>2, <1>3
  <2>6. PICK t : t = AtColumn(cursorUp(Lines(n), n), 0) /\ Stays(Now, t) /\ Effect(t) /\ At(t)
    BY <1>2, <2>4 DEF Stays
  <2>7. /\ t \in Screen /\ 0 <= t.x /\ t.x <= columnCount + 1 /\ 0 <= t.y /\ t.y < rowCount
    BY <2>6 DEF At
  <2> QED
    BY <1>2, <2>5, <2>6, <2>7, DoKeeps
<1>4. CASE Beyond(n)
  <2>1. PICK k \in Int : k = n - curY - topMargin
    BY <1>0
  <2>2. PICK u \in Screen : /\ u = scrollBack(Now, k) /\ u.x = Now.x /\ u.y = curY
                            /\ k >= 0 => IsWhole(u.text)
                            /\ k < 0 => u.text = Gone
    <3>1. LET t == scrollBack(Now, k) IN
         /\ t \in Screen /\ t.x = Now.x /\ t.y = Now.y
         /\ k >= 0 => IsWhole(t.text)
         /\ k < 0 => t.text = Gone
      BY <1>0, <2>1, scrollBackIs
    <3> QED
      BY <1>0, <3>1, Zenon
  <2>3. Largest(u.y - n, topMargin) = topMargin
    BY <1>0, <1>1, <1>4, <2>1, <2>2 DEF Largest
  <2>4. PICK v \in Screen : /\ v = cursorUp(u, n) /\ v.y = topMargin
                            /\ v.text = u.text
    <3>1. cursorUp(u, n) = ToRow(u, topMargin)
      BY <2>3 DEF cursorUp
    <3>2. topMargin \in Int
      BY <1>0
    <3>3. /\ ToRow(u, topMargin) \in Screen /\ ToRow(u, topMargin).y = topMargin
          /\ ToRow(u, topMargin).text = u.text
      BY <3>2, ToRowIs
    <3> QED
      BY <3>1, <3>3, Zenon
  <2>5. PICK t \in Screen : /\ t = AtColumn(v, 0) /\ t.x = 0 /\ t.y = topMargin
                            /\ t.text = u.text
    BY <2>4, AtColumnIs
  <2>6. Effect(t)
    <3>1. Lines(n) = u
      BY <1>4, <2>1, <2>2, Zenon
    <3> HIDE DEF Lines
    <3> QED
      BY <1>2, <2>4, <2>5, <3>1
  <2>7. harmed' <=> k < 0
    BY <1>0, <1>1, <1>2, <1>4, <2>1
  <2>8. ~harmed' => Stays(Now, t)
    <3>1. SUFFICES ASSUME ~harmed'
                   PROVE  Stays(Now, t)
      OBVIOUS
    <3>2. IsWhole(t.text)
      BY <2>1, <2>2, <2>5, <2>7, <3>1
    <3> QED
      BY <1>0, <2>5, <3>2 DEF Stays, At
  <2>9. harmed' => IsBroken(t.text)
    BY <2>2, <2>5, <2>7, GoneIsBroken
  <2>10. 0 <= t.x /\ t.x <= columnCount + 1 /\ 0 <= t.y /\ t.y < rowCount
    BY <1>0, <2>5
  <2> QED
    BY <1>2, <2>6, <2>8, <2>9, <2>10, DoKeeps
<1> QED
  BY <1>3, <1>4

LEMMA EraseKeeps ==
  ASSUME Healthy, EraseInScreen \/ EraseInLine
  PROVE  Kept
<1>0. /\ Bounded /\ At(Now) /\ Now.x = curX /\ Now.y = curY
      /\ curX \in Nat /\ columnCount \in Nat
      /\ Now.x \in Int /\ 0 <= Now.x /\ Now.x <= columnCount + 1
      /\ Now.y \in Int /\ 0 <= Now.y /\ Now.y < rowCount
  BY NowIs DEF Bounded, At
<1>1. ASSUME NEW t \in Screen, t.x = Now.x, t.y = Now.y, Effect(t), harmed' \in BOOLEAN,
             ~harmed' => IsWhole(t.text), harmed' => t.text = Gone
      PROVE  Kept
  <2>1. ~harmed' => Stays(Now, t)
    BY <1>0, <1>1, SameRow
  <2>2. harmed' => IsBroken(t.text)
    BY <1>1, GoneIsBroken
  <2>3. 0 <= t.x /\ t.x <= columnCount + 1 /\ 0 <= t.y /\ t.y < rowCount
    BY <1>0, <1>1
  <2> QED
    BY <1>1, <2>1, <2>2, <2>3, DoKeeps
<1>2. CASE EraseInScreen
  <2>1. PICK n \in 0..2 : Do(deleteInScreen(Now, n), n < 2 /\ curX > columnCount)
    BY <1>2 DEF EraseInScreen
  <2>2. LET t == deleteInScreen(Now, n) IN
         /\ t \in Screen /\ t.x = Now.x /\ t.y = Now.y
         /\ n = 2 \/ Now.x <= columnCount => Marked(Now, t)
         /\ ~(n = 2 \/ Now.x <= columnCount) => t.text = Gone
    BY <1>0, deleteInScreenIs
  <2>3. PICK t \in Screen :
          /\ t = deleteInScreen(Now, n) /\ t.x = Now.x /\ t.y = Now.y
          /\ n = 2 \/ Now.x <= columnCount => Marked(Now, t)
          /\ ~(n = 2 \/ Now.x <= columnCount) => t.text = Gone
    BY <2>2, Zenon
  <2>4. Do(t, n < 2 /\ curX > columnCount)
    BY <2>1, <2>3, Zenon
  <2>5. Effect(t) /\ harmed' = (n < 2 /\ curX > columnCount)
    BY <2>4 DEF Do, Edit, Effect
  <2>6. harmed' \in BOOLEAN
    BY <2>5
  <2>7. harmed' <=> n < 2 /\ curX > columnCount
    BY <2>5
  <2>8. harmed' <=> ~(n = 2 \/ Now.x <= columnCount)
    BY <1>0, <2>7
  <2>9. ~harmed' => IsWhole(t.text)
    BY <2>3, <2>8 DEF Marked
  <2>10. harmed' => t.text = Gone
    BY <2>3, <2>8
  <2> QED
    BY <1>1, <2>3, <2>5, <2>6, <2>9, <2>10
<1>3. CASE EraseInLine
  <2>1. PICK n \in 0..2 : Do(deleteInLine(Now, n), \/ n = 0 /\ curX > columnCount
                                                   \/ n = 1 /\ curX >= columnCount)
    BY <1>3 DEF EraseInLine
  <2>2. LET t == deleteInLine(Now, n)
            legal == \/ n = 2
                     \/ n = 0 /\ Now.x <= columnCount
                     \/ n = 1 /\ Now.x < columnCount
        IN  /\ t \in Screen /\ t.x = Now.x /\ t.y = Now.y
            /\ legal => IsWhole(t.text)
            /\ ~legal => t.text = Gone
    BY <1>0, deleteInLineIs
  <2> DEFINE legal == \/ n = 2
                      \/ n = 0 /\ Now.x <= columnCount
                      \/ n = 1 /\ Now.x < columnCount
  <2>3. PICK t \in Screen :
          /\ t = deleteInLine(Now, n) /\ t.x = Now.x /\ t.y = Now.y
          /\ legal => IsWhole(t.text)
          /\ ~legal => t.text = Gone
    BY <2>2, Zenon
  <2>4. Do(t, \/ n = 0 /\ curX > columnCount
              \/ n = 1 /\ curX >= columnCount)
    BY <2>1, <2>3, Zenon
  <2>5. Effect(t) /\ harmed' = (\/ n = 0 /\ curX > columnCount
                                \/ n = 1 /\ curX >= columnCount)
    BY <2>4 DEF Do, Edit, Effect
  <2>6. harmed' \in BOOLEAN
    BY <2>5
  <2>7. harmed' <=> \/ n = 0 /\ curX > columnCount
                    \/ n = 1 /\ curX >= columnCount
    BY <2>5
  <2>8. harmed' <=> ~legal
    BY <1>0, <2>7
  <2> HIDE DEF legal
  <2> QED
    BY <1>1, <2>3, <2>5, <2>6, <2>8
<1> QED
  BY <1>2, <1>3

LEMMA EditedStays ==
  ASSUME NEW s, At(s), NEW t, t = s \/ Edited(s, t, t.text), IsWhole(t.text)
  PROVE  Stays(s, t) /\ t \in Screen /\ t.x = s.x /\ t.y = s.y
  BY DEF Edited, Stays, At

LEMMA CharsKeep ==
  ASSUME Healthy, DeleteChars \/ EraseChars \/ InsertChars
  PROVE  Kept
<1>0. /\ Bounded /\ At(Now)
      /\ 0 <= Now.x /\ Now.x <= columnCount + 1 /\ 0 <= Now.y /\ Now.y < rowCount
  BY NowIs DEF At
<1>1. CASE DeleteChars
  <2>1. PICK n \in Int : Safely(deleteRangeInLine(Now, n))
    BY <1>1, ArgIs DEF DeleteChars
  <2>2. PICK t : t = deleteRangeInLine(Now, n) /\ Stays(Now, t)
    BY <1>0, deleteRangeInLineIs, EditedStays
  <2> QED
    BY <2>1, <2>2, SafelyKeeps
<1>2. CASE EraseChars
  <2>1. PICK n \in Int : Safely(blankRangeInLine(Now, n))
    BY <1>2, ArgIs DEF EraseChars
  <2>2. PICK t : t = blankRangeInLine(Now, n) /\ Stays(Now, t)
    BY <1>0, blankRangeInLineIs, EditedStays
  <2> QED
    BY <2>1, <2>2, SafelyKeeps
<1>3. CASE InsertChars
  <2>1. PICK n \in Int : Do(insertInLine(Now, n), Misfits(Now, n))
    BY <1>3, ArgIs DEF InsertChars
  <2>2. PICK t : /\ t = insertInLine(Now, n)
                 /\ t = Now \/ Edited(Now, t, t.text)
                 /\ ~Misfits(Now, n) => IsWhole(t.text)
                 /\ Misfits(Now, n) => IsBroken(t.text)
    <3>1. LET t == insertInLine(Now, n) IN
          /\ t = Now \/ Edited(Now, t, t.text)
          /\ ~Misfits(Now, n) => IsWhole(t.text)
          /\ Misfits(Now, n) => IsBroken(t.text)
      BY <1>0, insertInLineIs
    <3> QED
      BY <3>1, Zenon
  <2>3. Effect(t) /\ harmed' = Misfits(Now, n)
    BY <2>1, <2>2 DEF Do, Edit, Effect
  <2>4. harmed' \in BOOLEAN
    BY <2>3 DEF Misfits
  <2>5. harmed' <=> Misfits(Now, n)
    BY <2>3
  <2>6. t \in Screen /\ t.x = Now.x /\ t.y = Now.y
    BY <1>0, <2>2 DEF Edited, At
  <2>7. ~harmed' => Stays(Now, t)
    BY <1>0, <2>2, <2>5, EditedStays
  <2> QED
    BY <1>0, <2>2, <2>3, <2>4, <2>5, <2>6, <2>7, DoKeeps
<1> QED
  BY <1>1, <1>2, <1>3

LEMMA WrappedIs ==
  ASSUME Bounded, NEW s \in Wrapped(Now), At(Now)
  PROVE  Stays(Now, s) /\ s.x < columnCount
<1>0. columnCount \in Nat /\ columnCount >= 2 /\ Now.x \in Int
  BY DEF Bounded, At
<1>1. CASE s = Now /\ Now.x < columnCount
  BY <1>1, InPlace
<1>2. CASE s = AtColumn(Below(Now), 0)
  <2>1. Stays(Now, Below(Now))
    BY BelowIs
  <2>2. At(Below(Now)) /\ Below(Now) \in Screen
    BY <2>1 DEF Stays, At
  <2>3. Stays(Below(Now), AtColumn(Below(Now), 0)) /\ AtColumn(Below(Now), 0).x = 0
    <3>1. PICK u \in Screen : u = Below(Now) /\ At(u)
      BY <2>2
    <3>2. Stays(u, AtColumn(u, 0)) /\ AtColumn(u, 0).x = 0
      <4>1. Stays(u, AtColumn(u, 0))
        BY <3>1, FirstColumn
      <4>2. PICK col \in Int : col = 0
        OBVIOUS
      <4>3. AtColumn(u, col).x = col
        BY AtColumnIs
      <4> QED
        BY <4>1, <4>2, <4>3
    <3> QED
      BY <3>1, <3>2, Zenon
  <2>4. s.x = 0 /\ 0 < columnCount
    BY <1>0, <1>2, <2>3
  <2>5. Stays(Now, s)
    BY <1>2, <2>1, <2>3, StaysTwice
  <2> QED
    BY <2>4, <2>5
<1>3. CASE s = AtColumn(Now, columnCount - 1)
  <2>1. PICK col \in Int : col = columnCount - 1 /\ 0 <= col /\ col <= columnCount + 1
                           /\ col < columnCount
    BY <1>0
  <2>2. Stays(Now, AtColumn(Now, col)) /\ AtColumn(Now, col).x = col
    BY <2>1, ColumnStays
  <2> QED
    BY <1>3, <2>1, <2>2
<1>4. \/ s = Now /\ Now.x < columnCount
      \/ s = AtColumn(Below(Now), 0) \/ s = AtColumn(Now, columnCount - 1)
  BY Zenon DEF Wrapped
<1> QED
  BY <1>1, <1>2, <1>3, <1>4

LEMMA WriteCharKeeps ==
  ASSUME Healthy, WriteChar
  PROVE  Kept
<1>0. /\ Bounded /\ At(Now) /\ columnCount \in Nat /\ rowCount \in Nat
  BY NowIs DEF Bounded
<1> DEFINE pastEnd(s, n) == s.y = rowCount - 1 /\ s.x + n > columnCount
<1>1. PICK n \in 1..2, s \in Wrapped(Now) :
        \/ Do(write(s, n), pastEnd(s, n))
        \/ Do(write(insertInLine(s, n), n), pastEnd(s, n) \/ Misfits(s, n))
  BY DEF WriteChar
<1>2. Stays(Now, s) /\ s.x < columnCount /\ At(s)
  BY <1>0, WrappedIs DEF Stays
<1>3. /\ s \in Screen /\ IsWhole(s.text)
      /\ s.x \in Int /\ 0 <= s.x /\ s.y \in Int /\ 0 <= s.y /\ s.y < rowCount
  BY <1>2 DEF At
<1>4. ASSUME NEW u \in Screen, u.x = s.x, u.y = s.y,
             IsWhole(u.text) \/ IsBroken(u.text),
             Effect(write(u, n)), harmed' \in BOOLEAN,
             harmed' <=> pastEnd(s, n) \/ ~IsWhole(u.text)
      PROVE  Kept
  <2>1. PICK t \in Screen :
          /\ t = write(u, n) /\ t.x = u.x + n /\ t.y = u.y
          /\ IsWhole(u.text) /\ ~pastEnd(u, n) => IsWhole(t.text)
          /\ IsWhole(u.text) /\ pastEnd(u, n) => IsBroken(t.text)
          /\ IsBroken(u.text) => IsBroken(t.text)
    <3>1. 0 <= u.x /\ u.x < columnCount /\ 0 <= u.y /\ u.y < rowCount
      BY <1>2, <1>3, <1>4
    <3>2. LET t == write(u, n)
              past == u.y = rowCount - 1 /\ u.x + n > columnCount
          IN  /\ t \in Screen /\ t.x = u.x + n /\ t.y = u.y
              /\ IsWhole(u.text) /\ ~past => IsWhole(t.text)
              /\ IsWhole(u.text) /\ past => IsBroken(t.text)
              /\ IsBroken(u.text) => IsBroken(t.text)
      BY <1>0, <1>4, <3>1, writeIs
    <3> QED
      BY <3>2, Zenon
  <2>2. pastEnd(u, n) <=> pastEnd(s, n)
    BY <1>4
  <2> HIDE DEF pastEnd
  <2>3. harmed' => IsBroken(t.text)
    BY <1>4, <2>1, <2>2
  <2>4. ~harmed' => IsWhole(t.text)
    BY <1>4, <2>1, <2>2
  <2>5. t.x \in Int /\ 0 <= t.x /\ t.x <= columnCount + 1 /\ t.y = s.y
    BY <1>0, <1>2, <1>3, <1>4, <2>1
  <2>6. ~harmed' => Stays(Now, t)
    <3>1. SUFFICES ASSUME ~harmed'
                   PROVE  Stays(Now, t)
      OBVIOUS
    <3>2. Stays(s, t)
      BY <1>3, <2>4, <2>5, <3>1 DEF Stays, At
    <3> QED
      BY <1>2, <3>2, StaysTwice
  <2> QED
    BY <1>3, <1>4, <2>1, <2>3, <2>5, <2>6, DoKeeps
<1>5. CASE Do(write(s, n), pastEnd(s, n))
  <2>1. Effect(write(s, n)) /\ harmed' = pastEnd(s, n)
    BY <1>5 DEF Do, Edit, Effect
  <2>2. harmed' \in BOOLEAN
    BY <2>1
  <2>3. harmed' <=> pastEnd(s, n)
    BY <2>1
  <2> HIDE DEF pastEnd
  <2> QED
    BY <1>3, <1>4, <2>1, <2>2, <2>3
<1>6. CASE Do(write(insertInLine(s, n), n), pastEnd(s, n) \/ Misfits(s, n))
  <2>1. PICK u : /\ u = insertInLine(s, n)
                 /\ u = s \/ Edited(s, u, u.text)
                 /\ ~Misfits(s, n) => IsWhole(u.text)
                 /\ Misfits(s, n) => IsBroken(u.text)
    <3>1. LET t == insertInLine(s, n) IN
          /\ t = s \/ Edited(s, t, t.text)
          /\ ~Misfits(s, n) => IsWhole(t.text)
          /\ Misfits(s, n) => IsBroken(t.text)
      <4>1. n \in Int
        OBVIOUS
      <4> QED
        BY <4>1, <1>0, <1>2, insertInLineIs
    <3> QED
      BY <3>1, Zenon
  <2>2. u \in Screen /\ u.x = s.x /\ u.y = s.y
    BY <1>3, <2>1 DEF Edited
  <2>3. Do(write(u, n), pastEnd(s, n) \/ Misfits(s, n))
    BY <1>6, <2>1, Zenon
  <2>4. Effect(write(u, n)) /\ harmed' = (pastEnd(s, n) \/ Misfits(s, n))
    BY <2>3 DEF Do, Edit, Effect
  <2>5. harmed' \in BOOLEAN
    BY <2>4
  <2>6. harmed' <=> pastEnd(s, n) \/ Misfits(s, n)
    BY <2>4
  <2>7. Misfits(s, n) <=> ~IsWhole(u.text)
    <3>1. IsBroken(u.text) => ~IsWhole(u.text)
      BY <1>0, BrokenIs DEF IsWhole
    <3> QED
      BY <2>1, <3>1
  <2> HIDE DEF pastEnd
  <2>8. harmed' <=> pastEnd(s, n) \/ ~IsWhole(u.text)
    BY <2>6, <2>7
  <2>9. IsWhole(u.text) \/ IsBroken(u.text)
    BY <2>1
  <2> QED
    BY <1>4, <2>2, <2>4, <2>5, <2>8, <2>9
<1> QED
  BY <1>1, <1>5, <1>6

LEMMA RelativeKeeps ==
  ASSUME Healthy, Relative
  PROVE  Kept
<1>1. CASE Backspace
  BY <1>1, BackspaceKeeps
<1>2. CASE Tab \/ Return \/ CursorColumn \/ BackTab
  BY <1>2, ColumnKeeps
<1>3. CASE ReverseIndex \/ InsertLines \/ DeleteLines \/ ScrollUp \/ ScrollDown
  BY <1>3, ScrollKeeps
<1>4. CASE LineFeed \/ Index \/ NextLine \/ CursorUp \/ CursorDown \/ CursorLeft
  BY <1>4, LineKeeps
<1>5. CASE CursorRight
  BY <1>5, CursorRightKeeps
<1>6. CASE SaveCursor
  BY <1>6, SaveCursorKeeps
<1>7. CASE TabStop
  BY <1>7, TabStopKeeps
<1>8. CASE AlignTest
  BY <1>8, AlignTestKeeps
<1>9. CASE NextLines
  BY <1>9, NextLinesKeeps
<1>10. CASE PrecedingLines
  BY <1>10, PrecedingLinesKeeps
<1>11. CASE EraseInScreen \/ EraseInLine
  BY <1>11, EraseKeeps
<1>12. CASE DeleteChars \/ EraseChars \/ InsertChars
  BY <1>12, CharsKeep
<1>13. CASE WriteChar
  BY <1>13, WriteCharKeeps
<1> QED
  BY <1>1, <1>2, <1>3, <1>4, <1>5, <1>6, <1>7, <1>8, <1>9, <1>10, <1>11, <1>12, <1>13
     DEF Relative

(* The commands that name a row. *)

LEMMA SafeInv ==
  ASSUME Healthy, NEW s, At(s), Edit(s, FALSE), UNCHANGED <<rowCount, margins>>,
         originWithinMargins' \in BOOLEAN, isAlternate' \in BOOLEAN,
         saved' \in [x : 0..(columnCount + 1), y : 0..(MaxRows - 1), origin : BOOLEAN],
         saved'.y < rowCount,
         savedMargins' \in [top : 0..(MaxRows - 1), bottom : 0..(MaxRows - 1)]
  PROVE  Inv'
<1>1. Bounded
  BY NowIs
<1>2. /\ s.x \in Int /\ 0 <= s.x /\ s.x <= columnCount + 1
      /\ s.y \in Int /\ s.y < rowCount /\ 0 <= s.y /\ Len(s.text) = Size
  BY <1>1, ScreenIs
<1>3. /\ rowCount' = rowCount /\ topMargin' = topMargin /\ bottomMargin' = bottomMargin
      /\ curX' = s.x /\ curY' = s.y /\ intact' = TRUE /\ harmed' = FALSE
  BY <1>2 DEF Edit, margins, Size
<1>4. rowCount <= MaxRows /\ MaxRows \in Nat /\ rowCount \in Nat /\ columnCount \in Nat
  BY EmulatorAssumption DEF Healthy, TypeOK
<1>5. curX' \in 0..(columnCount + 1) /\ curY' \in -1..(MaxRows - 1) /\ curY' \in 0..(rowCount - 1)
  BY <1>2, <1>3, <1>4
<1>6. TypeOK'
  BY <1>3, <1>5 DEF Healthy, TypeOK
<1>7. Sound'
  BY <1>3, <1>5 DEF Healthy, Sound, MarginsLegal
<1>8. (saved.y < rowCount)'
  BY <1>3
<1> QED
  BY <1>3, <1>6, <1>7, <1>8 DEF Inv

LEMMA SafelyInv ==
  ASSUME Healthy, NEW s, At(s), Safely(s)
  PROVE  Inv'
<1>1. /\ originWithinMargins' = originWithinMargins /\ isAlternate' = isAlternate
      /\ saved' = saved /\ savedMargins' = savedMargins
      /\ Edit(s, FALSE) /\ UNCHANGED <<rowCount, margins>>
  BY DEF Safely, Do, Modes
<1>2. /\ originWithinMargins' \in BOOLEAN /\ isAlternate' \in BOOLEAN
      /\ saved' \in [x : 0..(columnCount + 1), y : 0..(MaxRows - 1), origin : BOOLEAN]
      /\ saved'.y < rowCount
      /\ savedMargins' \in [top : 0..(MaxRows - 1), bottom : 0..(MaxRows - 1)]
  BY <1>1 DEF Healthy, TypeOK
<1> QED
  BY <1>1, <1>2, SafeInv

LEMMA RestoreCursorKeeps ==
  ASSUME Healthy, RestoreCursor
  PROVE  Inv'
<1>0. Bounded /\ At(Now) /\ Now \in Screen /\ IsWhole(Now.text)
  BY NowIs DEF At
<1>1. /\ saved \in [x : 0..(columnCount + 1), y : 0..(MaxRows - 1), origin : BOOLEAN]
      /\ saved.y < rowCount /\ MaxRows \in Nat /\ columnCount \in Nat
      /\ isAlternate \in BOOLEAN
      /\ savedMargins \in [top : 0..(MaxRows - 1), bottom : 0..(MaxRows - 1)]
  BY EmulatorAssumption DEF Healthy, TypeOK
<1>2. PICK row \in Int, col \in Int :
        /\ row = saved.y /\ col = saved.x /\ 0 <= row /\ row < rowCount
        /\ 0 <= col /\ col <= columnCount + 1
  BY <1>1
<1>3. PICK t \in Screen : t = ToRow(Now, row) /\ t.x = Now.x /\ t.y = row /\ t.text = Now.text
  BY <1>0, ToRowIs
<1>4. At(t)
  BY <1>0, <1>2, <1>3 DEF At
<1>5. At([t EXCEPT !.x = col])
  BY <1>0, <1>2, <1>4, ColumnStays DEF Stays
<1>6. Edit([t EXCEPT !.x = col], FALSE)
  BY <1>2, <1>3 DEF RestoreCursor
<1>7. /\ originWithinMargins' \in BOOLEAN /\ isAlternate' \in BOOLEAN
      /\ saved' = saved /\ savedMargins' = savedMargins
      /\ UNCHANGED <<rowCount, margins>>
  BY <1>1 DEF RestoreCursor
<1> QED
  BY <1>1, <1>5, <1>6, <1>7, SafeInv

LEMMA PositionKeeps ==
  ASSUME Healthy, CursorPosition \/ CursorRow \/ ColumnMode
  PROVE  Inv'
<1>0. Bounded /\ At(Now) /\ rowCount \in Nat /\ rowCount >= 1
  BY NowIs DEF Bounded
<1>1. CASE CursorPosition
  <2>1. PICK row, col \in Nat : Safely(cursorToRow(Now, row, col))
    BY <1>1, ArgIs DEF CursorPosition
  <2> QED
    BY <1>0, <2>1, cursorToRowIs, SafelyInv
<1>2. CASE CursorRow
  <2>1. PICK n \in Nat : Safely(ToRow(Now, Smallest(n, rowCount - 1)))
    BY <1>2, ArgIs DEF CursorRow
  <2>2. PICK row \in Int : row = Smallest(n, rowCount - 1) /\ 0 <= row /\ row < rowCount
    BY <1>0 DEF Smallest
  <2>3. PICK t \in Screen : t = ToRow(Now, row) /\ t.x = Now.x /\ t.y = row /\ t.text = Now.text
    BY <1>0, ToRowIs DEF At
  <2>4. At(t)
    BY <1>0, <2>2, <2>3 DEF At
  <2> QED
    BY <2>1, <2>2, <2>3, <2>4, SafelyInv
<1>3. CASE ColumnMode
  <2>1. PICK t \in Screen : t = deleteInScreen(Now, 2) /\ t.x = Now.x /\ t.y = Now.y
                            /\ IsWhole(t.text)
    <3>1. PICK n \in 0..2 : n = 2
      OBVIOUS
    <3>2. LET t == deleteInScreen(Now, n) IN
          /\ t \in Screen /\ t.x = Now.x /\ t.y = Now.y
          /\ n = 2 \/ Now.x <= columnCount => Marked(Now, t)
      BY <1>0, deleteInScreenIs
    <3> QED
      BY <3>1, <3>2, Zenon DEF Marked
  <2>2. At(t)
    BY <1>0, <2>1 DEF At
  <2>3. PICK z \in Nat : z = 0
    OBVIOUS
  <2>4. At(cursorToRow(t, z, z))
    BY <1>0, <2>2, cursorToRowIs
  <2> QED
    BY <1>3, <2>1, <2>3, <2>4, SafelyInv DEF ColumnMode
<1> QED
  BY <1>1, <1>2, <1>3

LEMMA MarginsSetIs ==
  ASSUME NEW R \in Nat, R >= 1, NEW t \in Int, NEW b \in Int,
         NEW top \in Int, NEW bottom \in Int,
         top = (IF t < 1 THEN 0 ELSE IF t > R THEN R - 2 ELSE t - 1),
         bottom = (IF b < 1 \/ b > R THEN R - 1 ELSE b - 1),
         NEW p \in Int, NEW q \in Int,
         \/ top + 1 <= bottom /\ p = top /\ q = bottom
         \/ ~(top + 1 <= bottom) /\ top = 0 /\ p = 0 /\ q = 1
         \/ ~(top + 1 <= bottom) /\ top # 0 /\ p = bottom - 1 /\ q = bottom
  PROVE  /\ -1 <= p /\ p < R /\ 0 <= q /\ q <= R
         /\ (R = 1 \/ (b = 1 /\ t > 1 /\ p # 0))
              <=> ~(\/ p = 0 /\ q = R - 1
                    \/ 0 <= p /\ p < q /\ q < R)
  OBVIOUS

LEMMA SetMarginsKeeps ==
  ASSUME Healthy, SetMargins
  PROVE  Inv'
<1>0. /\ rowCount \in Nat /\ rowCount >= 1 /\ columnCount \in Nat
      /\ rowCount <= MaxRows /\ MaxRows \in Nat
  BY NowIs, EmulatorAssumption DEF Bounded, Healthy, TypeOK
<1>1. PICK t \in Arg, b \in Arg :
        /\ topMargin' = MarginsSet(t, b).top /\ bottomMargin' = MarginsSet(t, b).bottom
        /\ curX' = 0
        /\ curY' = IF originWithinMargins THEN MarginsSet(t, b).top ELSE 0
        /\ harmed' = (rowCount = 1 \/ (b = 1 /\ t > 1 /\ MarginsSet(t, b).top # 0))
        /\ UNCHANGED <<rowCount, Modes, intact>>
  BY DEF SetMargins
<1>2. t \in Int /\ b \in Int
  BY ArgIs
<1>3. PICK top \in Int, bottom \in Int :
        /\ top = (IF t < 1 THEN 0 ELSE IF t > rowCount THEN rowCount - 2 ELSE t - 1)
        /\ bottom = (IF b < 1 \/ b > rowCount THEN rowCount - 1 ELSE b - 1)
  BY <1>0, <1>2
<1>4. MarginsSet(t, b) = IF top + 1 <= bottom THEN [top |-> top, bottom |-> bottom]
                         ELSE IF top = 0 THEN [top |-> 0, bottom |-> 1]
                         ELSE [top |-> bottom - 1, bottom |-> bottom]
  BY <1>3 DEF MarginsSet
<1>5. PICK p \in Int, q \in Int :
        /\ p = MarginsSet(t, b).top /\ q = MarginsSet(t, b).bottom
        /\ \/ top + 1 <= bottom /\ p = top /\ q = bottom
           \/ ~(top + 1 <= bottom) /\ top = 0 /\ p = 0 /\ q = 1
           \/ ~(top + 1 <= bottom) /\ top # 0 /\ p = bottom - 1 /\ q = bottom
  <2>1. CASE top + 1 <= bottom
    <3>1. MarginsSet(t, b).top = top /\ MarginsSet(t, b).bottom = bottom
      BY <1>4, <2>1
    <3> QED
      BY <2>1, <3>1, Zenon
  <2>2. CASE ~(top + 1 <= bottom) /\ top = 0
    <3>1. MarginsSet(t, b).top = 0 /\ MarginsSet(t, b).bottom = 1 /\ 0 \in Int /\ 1 \in Int
      BY <1>4, <2>2
    <3> QED
      BY <2>2, <3>1, Zenon
  <2>3. CASE ~(top + 1 <= bottom) /\ top # 0
    <3>1. /\ MarginsSet(t, b).top = bottom - 1 /\ MarginsSet(t, b).bottom = bottom
          /\ bottom - 1 \in Int
      BY <1>4, <2>3
    <3> QED
      BY <2>3, <3>1, Zenon
  <2> QED
    BY <2>1, <2>2, <2>3
<1>6. /\ -1 <= p /\ p < rowCount /\ 0 <= q /\ q <= rowCount
      /\ (rowCount = 1 \/ (b = 1 /\ t > 1 /\ p # 0))
           <=> ~(\/ p = 0 /\ q = rowCount - 1
                 \/ 0 <= p /\ p < q /\ q < rowCount)
  BY <1>0, <1>2, <1>3, <1>5, MarginsSetIs
<1>7. /\ topMargin' = p /\ bottomMargin' = q /\ curX' = 0
      /\ curY' = IF originWithinMargins THEN p ELSE 0
      /\ harmed' = (rowCount = 1 \/ (b = 1 /\ t > 1 /\ p # 0))
  BY <1>1, <1>5, Zenon
<1>8. harmed' \in BOOLEAN
  BY <1>7
<1>9. harmed' <=> (rowCount = 1 \/ (b = 1 /\ t > 1 /\ p # 0))
  BY <1>7
<1>10. /\ rowCount' = rowCount /\ intact' = intact /\ originWithinMargins' = originWithinMargins
       /\ isAlternate' = isAlternate /\ saved' = saved /\ savedMargins' = savedMargins
  BY <1>1 DEF Modes
<1>11. /\ curX' \in 0..(columnCount + 1) /\ curY' \in -1..(MaxRows - 1)
       /\ topMargin' \in -1..(MaxRows - 1) /\ bottomMargin' \in 0..MaxRows
  BY <1>0, <1>6, <1>7
<1>12. TypeOK'
  BY <1>8, <1>10, <1>11 DEF Healthy, TypeOK
<1>13. MarginsLegal(topMargin, bottomMargin)' <=>
         \/ p = 0 /\ q = rowCount - 1
         \/ 0 <= p /\ p < q /\ q < rowCount
  <2>1. MarginsLegal(topMargin, bottomMargin)' <=>
          (\/ topMargin' = 0 /\ bottomMargin' = rowCount' - 1
           \/ 0 <= topMargin' /\ topMargin' < bottomMargin' /\ bottomMargin' < rowCount')
    BY DEF MarginsLegal
  <2>2. topMargin' = p /\ bottomMargin' = q /\ rowCount' = rowCount
    BY <1>7, <1>10
  <2>3. /\ topMargin' = 0 /\ bottomMargin' = rowCount' - 1 <=> p = 0 /\ q = rowCount - 1
        /\ 0 <= topMargin' <=> 0 <= p
        /\ topMargin' < bottomMargin' <=> p < q
        /\ bottomMargin' < rowCount' <=> q < rowCount
    BY <2>2
  <2> QED
    BY <2>1, <2>3
<1>14. ~harmed' => curY' \in 0..(rowCount - 1)
  <2>1. SUFFICES ASSUME ~harmed'
                 PROVE  curY' \in 0..(rowCount - 1)
    OBVIOUS
  <2>2. 0 <= p
    BY <1>6, <1>9, <2>1
  <2> QED
    BY <1>0, <1>6, <1>7, <2>2
<1>15. Sound' <=> ~harmed'
  <2>1. MarginsLegal(topMargin, bottomMargin)' <=> ~harmed'
    BY <1>6, <1>9, <1>13
  <2>2. intact'
    BY <1>10 DEF Healthy, Sound
  <2>3. Sound' <=> intact' /\ curY' \in 0..(rowCount' - 1) /\ MarginsLegal(topMargin, bottomMargin)'
    BY DEF Sound
  <2>4. ~harmed' => curY' \in 0..(rowCount' - 1)
    BY <1>10, <1>14
  <2> QED
    BY <2>1, <2>2, <2>3, <2>4
<1>16. (saved.y < rowCount)'
  BY <1>10 DEF Healthy
<1> QED
  BY <1>12, <1>15, <1>16 DEF Inv

LEMMA OriginModeKeeps ==
  ASSUME Healthy, OriginMode
  PROVE  Inv'
<1>0. /\ rowCount \in Nat /\ columnCount \in Nat /\ topMargin \in Nat /\ bottomMargin \in Nat
      /\ topMargin <= bottomMargin /\ bottomMargin < rowCount
      /\ rowCount <= MaxRows /\ MaxRows \in Nat
  BY NowIs, EmulatorAssumption DEF Bounded, Healthy, TypeOK
<1>1. /\ originWithinMargins' \in BOOLEAN /\ curX' = 0 /\ (curY' = topMargin \/ curY' = 0)
      /\ rowCount' = rowCount /\ topMargin' = topMargin /\ bottomMargin' = bottomMargin
      /\ isAlternate' = isAlternate /\ saved' = saved /\ savedMargins' = savedMargins
      /\ intact' = intact /\ harmed' = harmed
  BY DEF OriginMode, margins
<1>2. /\ curX' \in 0..(columnCount + 1) /\ curY' \in -1..(MaxRows - 1)
      /\ curY' \in 0..(rowCount - 1)
  BY <1>0, <1>1
<1>3. TypeOK'
  BY <1>1, <1>2 DEF Healthy, TypeOK
<1>4. Sound' /\ ~harmed'
  BY <1>1, <1>2 DEF Healthy, Sound, MarginsLegal
<1>5. (saved.y < rowCount)'
  BY <1>1 DEF Healthy
<1> QED
  BY <1>3, <1>4, <1>5 DEF Inv

LEMMA EnterAlternateKeeps ==
  ASSUME Healthy, EnterAlternate
  PROVE  Inv'
<1>0. /\ Bounded /\ At(Now) /\ curY \in Nat
      /\ topMargin \in Nat /\ bottomMargin \in Nat /\ rowCount \in Nat /\ rowCount >= 1
      /\ topMargin <= bottomMargin /\ bottomMargin < rowCount
      /\ rowCount <= MaxRows /\ MaxRows \in Nat
  BY NowIs, EmulatorAssumption DEF Bounded, Healthy, TypeOK
<1>1. PICK a : a = scrollFeed(Now, curY) /\ At(a)
  BY <1>0, ScrollsStay DEF Stays
<1>2. PICK b \in Screen : b = scrollFeed(a, 1) /\ At(b)
  <2>1. At(scrollFeed(a, 1))
    BY <1>0, <1>1, ScrollsStay DEF Stays
  <2> QED
    BY <2>1 DEF At
<1>3. PICK t \in Screen : t = ToRow(b, 0) /\ t.x = b.x /\ t.y = 0 /\ t.text = b.text
  BY ToRowIs
<1>4. At(t)
  BY <1>0, <1>2, <1>3 DEF At
<1>5. At([t EXCEPT !.x = 0])
  BY <1>0, <1>4, FirstColumn DEF Stays
<1>6. Edit([t EXCEPT !.x = 0], FALSE)
  BY <1>1, <1>2, <1>3 DEF EnterAlternate
<1>7. /\ isAlternate' \in BOOLEAN /\ originWithinMargins' = originWithinMargins
      /\ saved' = saved /\ UNCHANGED <<rowCount, margins>>
      /\ savedMargins' = [top |-> topMargin, bottom |-> bottomMargin]
  BY DEF EnterAlternate
<1>8. topMargin \in 0..(MaxRows - 1) /\ bottomMargin \in 0..(MaxRows - 1)
  BY <1>0
<1>9. savedMargins' \in [top : 0..(MaxRows - 1), bottom : 0..(MaxRows - 1)]
  BY <1>7, <1>8
<1>10. /\ originWithinMargins' \in BOOLEAN
       /\ saved' \in [x : 0..(columnCount + 1), y : 0..(MaxRows - 1), origin : BOOLEAN]
       /\ saved'.y < rowCount
  BY <1>7 DEF Healthy, TypeOK
<1> QED
  BY <1>5, <1>6, <1>7, <1>9, <1>10, SafeInv

LEMMA LeaveAlternateKeeps ==
  ASSUME Healthy, LeaveAlternate
  PROVE  Inv'
<1>0. /\ Bounded /\ At(Now) /\ Now \in Screen /\ rowCount \in Nat /\ rowCount >= 1
      /\ rowCount <= MaxRows /\ MaxRows \in Nat /\ columnCount \in Nat
      /\ savedMargins \in [top : 0..(MaxRows - 1), bottom : 0..(MaxRows - 1)]
  BY NowIs, EmulatorAssumption DEF Bounded, Healthy, TypeOK, At
<1>1. PICK t \in Screen : t = ToRow(Now, 0) /\ t.x = Now.x /\ t.y = 0 /\ t.text = Now.text
  BY <1>0, ToRowIs
<1>2. At(t)
  BY <1>0, <1>1 DEF At
<1>3. PICK u : u = [t EXCEPT !.x = 0] /\ At(u) /\ u.x = 0 /\ u.y = 0
  <2>1. At([t EXCEPT !.x = 0])
    BY <1>0, <1>2, FirstColumn DEF Stays
  <2>2. [t EXCEPT !.x = 0].x = 0 /\ [t EXCEPT !.x = 0].y = 0
    BY <1>1, WithColumn
  <2> QED
    BY <2>1, <2>2
<1>4. PICK w \in Screen : w = deleteInScreen(u, 2) /\ w.x = 0 /\ w.y = 0 /\ IsWhole(w.text)
  <2>1. PICK n \in 0..2 : n = 2
    OBVIOUS
  <2>2. LET v == deleteInScreen(u, n) IN
        /\ v \in Screen /\ v.x = u.x /\ v.y = u.y
        /\ n = 2 \/ u.x <= columnCount => Marked(u, v)
    BY <1>0, <1>3, deleteInScreenIs
  <2> QED
    BY <1>3, <2>1, <2>2, Zenon DEF Marked
<1>5. Edit(w, ~MarginsLegal(savedMargins.top, savedMargins.bottom))
  BY <1>1, <1>3, <1>4, Zenon DEF LeaveAlternate
<1>6. /\ curX' = 0 /\ curY' = 0 /\ intact' = TRUE
      /\ harmed' = ~MarginsLegal(savedMargins.top, savedMargins.bottom)
  BY <1>4, <1>5 DEF Edit, IsWhole, Size
<1>7. /\ isAlternate' = FALSE
      /\ topMargin' = savedMargins.top /\ bottomMargin' = savedMargins.bottom
      /\ rowCount' = rowCount /\ originWithinMargins' = originWithinMargins
      /\ saved' = saved /\ savedMargins' = savedMargins
  BY DEF LeaveAlternate
<1>8. harmed' \in BOOLEAN
  BY <1>6 DEF MarginsLegal
<1>9. harmed' <=> ~MarginsLegal(savedMargins.top, savedMargins.bottom)
  BY <1>6
<1>10. /\ curX' \in 0..(columnCount + 1) /\ curY' \in -1..(MaxRows - 1)
       /\ curY' \in 0..(rowCount - 1)
       /\ topMargin' \in -1..(MaxRows - 1) /\ bottomMargin' \in 0..MaxRows
  BY <1>0, <1>6, <1>7
<1>11. TypeOK'
  BY <1>6, <1>7, <1>8, <1>10 DEF Healthy, TypeOK
<1>12. MarginsLegal(topMargin, bottomMargin)'
         <=> MarginsLegal(savedMargins.top, savedMargins.bottom)
  BY <1>7 DEF MarginsLegal
<1>13. harmed' <=> ~Sound'
  BY <1>6, <1>7, <1>9, <1>10, <1>12 DEF Sound
<1>14. (saved.y < rowCount)'
  BY <1>7 DEF Healthy
<1> QED
  BY <1>11, <1>13, <1>14 DEF Inv

LEMMA setWidthKeeps ==
  ASSUME Healthy, setWidth
  PROVE  Inv'
<1>0. /\ curX \in Nat /\ curX <= columnCount + 1 /\ curY \in Nat /\ curY < rowCount
      /\ columnCount \in Nat /\ columnCount >= 2 /\ rowCount <= MaxRows /\ MaxRows \in Nat
      /\ rowCount \in Nat /\ MinRows \in Nat /\ MinRows >= 1
  BY NowIs, EmulatorAssumption DEF Bounded, Healthy, TypeOK
<1>1. /\ rowCount' \in MinRows..MaxRows
      /\ topMargin' = 0 /\ bottomMargin' = rowCount' - 1
      /\ saved' = [saved EXCEPT !.x = 0, !.y = 0]
      /\ harmed' = (curY' >= rowCount')
      /\ originWithinMargins' = originWithinMargins /\ isAlternate' = isAlternate
      /\ savedMargins' = savedMargins /\ intact' = intact
  BY DEF setWidth
<1>2. \/ curX' \in 0..(columnCount - 1) /\ curY' \in 0..(rowCount' - 1)
      \/ curX' = curX /\ curY' = curY
  BY DEF setWidth, Rebuilt
<1>3. PICK r \in Int : r = rowCount' /\ MinRows <= r /\ r <= MaxRows /\ r >= 1
  BY <1>0, <1>1
<1>4. PICK x \in Int, y \in Int :
        /\ x = curX' /\ y = curY' /\ 0 <= x /\ x <= columnCount + 1 /\ 0 <= y /\ y < MaxRows
  <2>1. CASE curX' \in 0..(columnCount - 1) /\ curY' \in 0..(rowCount' - 1)
    <3>1. curX' \in 0..(columnCount - 1) /\ curY' \in 0..(r - 1)
      BY <1>3, <2>1, Zenon
    <3>2. curX' \in Int /\ 0 <= curX' /\ curX' <= columnCount + 1
      BY <1>0, <3>1
    <3>3. curY' \in Int /\ 0 <= curY' /\ curY' < MaxRows
      <4>1. MaxRows \in Int /\ r <= MaxRows
        BY <1>0, <1>3
      <4> QED
        BY <4>1, <3>1
    <3> QED
      BY <3>2, <3>3, Zenon
  <2>2. CASE curX' = curX /\ curY' = curY
    BY <1>0, <2>2
  <2> QED
    BY <1>2, <2>1, <2>2
<1>5. /\ curX' \in 0..(columnCount + 1) /\ curY' \in -1..(MaxRows - 1)
      /\ topMargin' \in -1..(MaxRows - 1) /\ bottomMargin' \in 0..MaxRows
  BY <1>0, <1>1, <1>3, <1>4
<1>6. /\ saved' \in [x : 0..(columnCount + 1), y : 0..(MaxRows - 1), origin : BOOLEAN]
      /\ saved'.y = 0
  <2>1. saved \in [x : 0..(columnCount + 1), y : 0..(MaxRows - 1), origin : BOOLEAN]
    BY DEF Healthy, TypeOK
  <2>2. 0 \in 0..(columnCount + 1) /\ 0 \in 0..(MaxRows - 1)
    BY <1>0, <1>3
  <2> QED
    BY <1>1, <2>1, <2>2
<1>7. harmed' = (y >= r)
  BY <1>1, <1>3, <1>4, Zenon
<1>8. harmed' \in BOOLEAN
  BY <1>7
<1>9. harmed' <=> y >= r
  BY <1>7
<1>10. TypeOK'
  BY <1>1, <1>5, <1>6, <1>8 DEF Healthy, TypeOK
<1>11. MarginsLegal(topMargin, bottomMargin)'
  <2>1. topMargin' = 0 /\ bottomMargin' = rowCount' - 1
    BY <1>1
  <2> QED
    BY <2>1, Zenon DEF MarginsLegal
<1>12. curY' \in 0..(rowCount' - 1) <=> ~(y >= r)
  <2>1. y \in 0..(r - 1) <=> ~(y >= r)
    BY <1>4
  <2>2. curY' \in 0..(rowCount' - 1) <=> y \in 0..(r - 1)
    BY <1>3, <1>4, Zenon
  <2> QED
    BY <2>1, <2>2, Zenon
<1>13. harmed' <=> ~Sound'
  <2>1. intact'
    BY <1>1 DEF Healthy, Sound
  <2>2. Sound' <=> intact' /\ curY' \in 0..(rowCount' - 1) /\ MarginsLegal(topMargin, bottomMargin)'
    BY DEF Sound
  <2> QED
    BY <1>9, <1>11, <1>12, <2>1, <2>2, Zenon
<1>14. (saved.y < rowCount)'
  BY <1>3, <1>6
<1> QED
  BY <1>10, <1>13, <1>14 DEF Inv

LEMMA resetScreenKeeps ==
  ASSUME Healthy, resetScreen
  PROVE  Inv'
<1>0. /\ columnCount \in Nat /\ columnCount >= 2 /\ rowCount <= MaxRows /\ MaxRows \in Nat
      /\ rowCount \in Nat /\ rowCount >= 1
  BY NowIs, EmulatorAssumption DEF Bounded, Healthy, TypeOK
<1>1. /\ rowCount' = rowCount
      /\ topMargin' = 0 /\ bottomMargin' = rowCount - 1
      /\ originWithinMargins' = FALSE
      /\ saved' = [x |-> 0, y |-> 0, origin |-> FALSE]
      /\ isAlternate' = isAlternate /\ savedMargins' = savedMargins
      /\ intact' = intact /\ harmed' = harmed
  BY DEF resetScreen
<1>2. \/ curX' \in 0..(columnCount - 1) /\ curY' \in 0..(rowCount - 1)
      \/ curX' = 0 /\ curY' = 0
  BY DEF resetScreen, Rebuilt
<1>3. /\ curX' \in 0..(columnCount + 1) /\ curY' \in -1..(MaxRows - 1)
      /\ curY' \in 0..(rowCount - 1)
      /\ topMargin' \in -1..(MaxRows - 1) /\ bottomMargin' \in 0..MaxRows
  BY <1>0, <1>1, <1>2
<1>4. saved' \in [x : 0..(columnCount + 1), y : 0..(MaxRows - 1), origin : BOOLEAN]
      /\ saved'.y = 0
  <2>1. 0 \in 0..(columnCount + 1) /\ 0 \in 0..(MaxRows - 1)
    BY <1>0
  <2> QED
    BY <1>1, <2>1
<1>5. TypeOK'
  BY <1>1, <1>3, <1>4 DEF Healthy, TypeOK
<1>6. Sound' /\ ~harmed'
  BY <1>1, <1>3 DEF Healthy, Sound, MarginsLegal
<1>7. (saved.y < rowCount)'
  BY <1>0, <1>1, <1>4
<1> QED
  BY <1>5, <1>6, <1>7 DEF Inv

(***************************************************************************)
(* Which rows an edit changes.                                             *)
(***************************************************************************)

LEMMA SameCells ==
  ASSUME NEW u, NEW v, NEW m \in Int, NEW n \in Int,
         \A i \in m..n : u[i] \in Int /\ u[i] = v[i]
  PROVE  SubSeq(u, m, n) = SubSeq(v, m, n)
<1>0. \A i \in m..n : u[i] \in Int /\ v[i] \in Int
  OBVIOUS
<1>1. PICK a \in Seq(Int) : /\ a = SubSeq(u, m, n)
                            /\ Len(a) = IF m <= n THEN n - m + 1 ELSE 0
                            /\ \A i \in 1..(n - m + 1) : a[i] = u[m + i - 1]
  <2>1. \A i \in m..n : u[i] \in Int
    BY <1>0
  <2>2. /\ SubSeq(u, m, n) \in Seq(Int)
        /\ Len(SubSeq(u, m, n)) = IF m <= n THEN n - m + 1 ELSE 0
        /\ \A i \in 1..(n - m + 1) : SubSeq(u, m, n)[i] = u[m + i - 1]
    BY <2>1, SubSeqProperties
  <2> QED
    BY <2>2, Zenon
<1>2. PICK b \in Seq(Int) : /\ b = SubSeq(v, m, n)
                            /\ Len(b) = IF m <= n THEN n - m + 1 ELSE 0
                            /\ \A i \in 1..(n - m + 1) : b[i] = v[m + i - 1]
  <2>1. \A i \in m..n : v[i] \in Int
    BY <1>0
  <2>2. /\ SubSeq(v, m, n) \in Seq(Int)
        /\ Len(SubSeq(v, m, n)) = IF m <= n THEN n - m + 1 ELSE 0
        /\ \A i \in 1..(n - m + 1) : SubSeq(v, m, n)[i] = v[m + i - 1]
    BY <2>1, SubSeqProperties
  <2> QED
    BY <2>2, Zenon
<1>3. PICK k \in Int : k = IF m <= n THEN n - m + 1 ELSE 0
  <2>1. (IF m <= n THEN n - m + 1 ELSE 0) \in Int
    OBVIOUS
  <2> QED
    BY <2>1, Zenon
<1>4. Len(a) = k /\ Len(b) = k
  BY <1>1, <1>2, <1>3
<1>5. ASSUME NEW i \in 1..k
      PROVE  a[i] = b[i]
  <2>1. i \in 1..(n - m + 1) /\ m + i - 1 \in m..n
    BY <1>3
  <2> QED
    BY <2>1, <1>1, <1>2
<1>6. a = b
  BY <1>1, <1>2, <1>4, <1>5, SeqEqual
<1> QED
  BY <1>1, <1>2, <1>6

LEMMA CellsAreNumbers ==
  ASSUME Bounded, NEW i \in 1..Size
  PROVE  Cells[i] \in Int
<1>1. PICK n \in Nat : n = Size
  BY SizeIs
<1>2. Cells = [k \in 1..n |-> k]
  BY <1>1 DEF Cells, Size
<1> QED
  BY <1>1, <1>2

LEMMA ChangedIs ==
  ASSUME Bounded, NEW s, IsWhole(s.text), NEW low \in Int, NEW high \in Int,
         AgreeOutside(Cells, s.text, low * columnCount, (high + 1) * columnCount),
         NEW r \in Changed(s)
  PROVE  r \in 0..(rowCount - 1) /\ low <= r /\ r <= high
<1>1. r \in 0..(rowCount - 1) /\ Row(s.text, r) # Row(Cells, r)
  BY CellsAreWhole DEF Changed, IsWhole
<1>2. rowCount \in Nat /\ columnCount \in Nat
  BY DEF Bounded
<1>3. r \in Int /\ 0 <= r /\ r < rowCount
  BY <1>1, <1>2
<1>4. PICK m \in Int, n \in Int :
        m = r * columnCount + 1 /\ n = (r + 1) * columnCount /\ 1 <= m /\ n <= Size
  <2>1. /\ r * columnCount \in Nat
        /\ (r + 1) * columnCount = r * columnCount + columnCount
        /\ r * columnCount + columnCount <= Size
    BY <1>3, RowIs
  <2>2. PICK a \in Nat : a = r * columnCount
    BY <2>1
  <2>3. (r + 1) * columnCount = a + columnCount /\ a + columnCount <= Size
        /\ r * columnCount + 1 = a + 1
    BY <2>1, <2>2, Zenon
  <2>4. a + columnCount \in Int /\ a + 1 \in Int /\ 1 <= a + 1
    BY <1>2
  <2> QED
    BY <2>3, <2>4, Zenon
<1>5. ASSUME r < low \/ high < r
      PROVE  FALSE
  <2>1. ASSUME NEW i \in m..n
        PROVE  /\ i \in 1..Size
               /\ i <= low * columnCount \/ (high + 1) * columnCount < i
    <3>1. i \in 1..Size
      BY <1>4, SizeIs
    <3>2. CASE r < low
      <4>1. (r + 1) * columnCount <= low * columnCount /\ low * columnCount \in Int
        <5>1. r + 1 \in Int /\ r + 1 <= low
          BY <1>3, <3>2
        <5> QED
          BY <5>1, <1>2, RowsInOrder
      <4> QED
        BY <3>1, <4>1, <1>4
    <3>3. CASE high < r
      <4>1. (high + 1) * columnCount <= r * columnCount /\ (high + 1) * columnCount \in Int
            /\ r * columnCount \in Int
        <5>1. high + 1 \in Int /\ high + 1 <= r
          BY <1>3, <3>3
        <5> QED
          BY <5>1, <1>2, <1>3, RowsInOrder
      <4> QED
        BY <3>1, <4>1, <1>4
    <3> QED
      BY <1>5, <3>1, <3>2, <3>3
  <2>2. \A i \in m..n : Cells[i] \in Int /\ Cells[i] = s.text[i]
    BY <2>1, CellsAreNumbers DEF AgreeOutside
  <2>3. SubSeq(Cells, m, n) = SubSeq(s.text, m, n)
    BY <2>2, SameCells
  <2> QED
    BY <1>1, <1>4, <2>3, Zenon DEF Row
<1> QED
  BY <1>1, <1>3, <1>5

LEMMA NothingChanged ==
  ASSUME Healthy
  PROVE  Changed(Now) = {}
  BY NowIs DEF Changed

LEMMA RightEditIs ==
  ASSUME Healthy, NEW s \in RightEdits
  PROVE  /\ IsWhole(s.text) /\ RightOnly(Now, s.text)
         /\ s = Now \/ Edited(Now, s, s.text)
<1>0. Bounded /\ At(Now) /\ MaxArg \in Nat
  BY NowIs, EmulatorAssumption
<1>1. \A n \in Counts : n \in Int /\ n >= 0
  BY <1>0 DEF Counts
<1>2. CASE \E n \in Counts : s = deleteRangeInLine(Now, n)
  BY <1>0, <1>1, <1>2, deleteRangeInLineIs
<1>3. CASE \E n \in Counts : s = blankRangeInLine(Now, n)
  BY <1>0, <1>1, <1>3, blankRangeInLineIs
<1>4. CASE \E n \in Counts : Fits(Now, n) /\ s = insertInLine(Now, n)
  <2>1. PICK n \in Int : n >= 0 /\ Fits(Now, n) /\ s = insertInLine(Now, n)
    BY <1>1, <1>4
  <2>2. PICK x, c, count \in Int : x = Now.x /\ c = columnCount /\ count = Insertable(Now, n)
    <3>1. Now.x \in Int /\ columnCount \in Int /\ rowCount - Now.y - 1 \in Int
      BY <1>0 DEF At, Bounded
    <3>2. Insertable(Now, n) \in Int
      BY <3>1, SmallestIs DEF Insertable
    <3> QED
      BY <3>1, <3>2
  <2>3. /\ Misfits(Now, n) <=> count > 0 /\ x + count >= c /\ count # c
        /\ Fits(Now, n) <=> x + count < c \/ (x = 0 /\ count = c) \/ count = 0
    BY <2>2, Zenon DEF Misfits, Fits
  <2>4. ~Misfits(Now, n)
    BY <2>1, <2>3
  <2>5. LET t == insertInLine(Now, n) IN
         /\ t = Now \/ Edited(Now, t, t.text)
         /\ ~Misfits(Now, n) => IsWhole(t.text)
         /\ Fits(Now, n) => RightOnly(Now, t.text)
    BY <1>0, insertInLineIs
  <2> QED
    BY <2>1, <2>4, <2>5, Zenon
<1> QED
  BY <1>2, <1>3, <1>4 DEF RightEdits

LEMMA LineEditIs ==
  ASSUME Healthy, NEW s \in LineEdits
  PROVE  /\ IsWhole(s.text)
         /\ AgreeOutside(Cells, s.text, curY * columnCount, (curY + 1) * columnCount)
         /\ s = Now \/ curY \in s.marks
<1>0. /\ Bounded /\ At(Now) /\ Now.x = curX /\ Now.y = curY /\ Now.text = Cells
      /\ curX \in Nat /\ curY \in Nat /\ columnCount \in Nat
  BY NowIs DEF Bounded
<1>1. CASE s \in RightEdits
  <2>1. /\ IsWhole(s.text) /\ RightOnly(Now, s.text)
        /\ s = Now \/ Edited(Now, s, s.text)
    BY <1>1, RightEditIs
  <2>2. PICK a \in Int, b \in Int, d \in Int :
          /\ a = curY * columnCount + Smallest(curX, columnCount)
          /\ b = (curY + 1) * columnCount /\ d = curY * columnCount /\ d <= a
    <3>1. PICK k \in Nat : k = Smallest(curX, columnCount)
      BY <1>0 DEF Smallest
    <3>2. PICK d \in Int, b \in Int : d = curY * columnCount /\ b = (curY + 1) * columnCount
      BY <1>0
    <3>3. PICK a \in Int : a = d + k /\ d <= a
      OBVIOUS
    <3> QED
      BY <3>1, <3>2, <3>3, Zenon
  <2>3. AgreeOutside(Cells, s.text, a, b)
    BY <2>1, <2>2, <1>0, Zenon DEF RightOnly
  <2>4. AgreeOutside(Cells, s.text, d, b)
    BY <1>0, <2>2, <2>3, Wider
  <2>5. s = Now \/ curY \in s.marks
    BY <1>0, <2>1 DEF Edited
  <2> QED
    BY <2>1, <2>2, <2>4, <2>5, Zenon
<1>2. CASE \E n \in 0..2 : (n = 2 \/ curX + n <= columnCount) /\ s = deleteInLine(Now, n)
  <2>1. PICK n \in 0..2 : (n = 2 \/ curX + n <= columnCount) /\ s = deleteInLine(Now, n)
    BY <1>2
  <2>2. LET t == deleteInLine(Now, n)
            legal == \/ n = 2
                     \/ n = 0 /\ Now.x <= columnCount
                     \/ n = 1 /\ Now.x < columnCount
        IN  /\ t.marks = Now.marks \cup {Now.y}
            /\ legal => /\ IsWhole(t.text)
                        /\ AgreeOutside(Now.text, t.text, Now.y * columnCount,
                                        (Now.y + 1) * columnCount)
    BY <1>0, deleteInLineIs
  <2>3. \/ n = 2
        \/ n = 0 /\ Now.x <= columnCount
        \/ n = 1 /\ Now.x < columnCount
    BY <1>0, <2>1
  <2>4. curY \in s.marks
    BY <1>0, <2>1, <2>2
  <2>5. /\ IsWhole(s.text)
        /\ AgreeOutside(Now.text, s.text, Now.y * columnCount, (Now.y + 1) * columnCount)
    BY <2>1, <2>2, <2>3, Zenon
  <2> QED
    BY <1>0, <2>4, <2>5, Zenon
<1> QED
  BY <1>1, <1>2 DEF LineEdits

LEMMA ScrollChanges ==
  ASSUME Healthy, NEW n \in Counts
  PROVE  /\ Changed(scrollBack(Now, n)) \subseteq Inside
         /\ {topMargin, bottomMargin} \subseteq scrollBack(Now, n).marks
         /\ ~IntoView => /\ Changed(scrollFeed(Now, n)) \subseteq Inside
                         /\ {topMargin, bottomMargin} \subseteq scrollFeed(Now, n).marks
         /\ IntoView => 0..(rowCount - 1) \subseteq scrollFeed(Now, n).marks
<1>0. /\ Bounded /\ Now \in Screen /\ IsWhole(Now.text) /\ Now.text = Cells
      /\ topMargin \in Int /\ bottomMargin \in Int
  BY NowIs DEF Bounded, At
<1>1. n \in Int /\ n >= 0
  BY EmulatorAssumption DEF Counts
<1>2. ASSUME NEW t, IsWhole(t.text),
             AgreeOutside(Cells, t.text, topMargin * columnCount,
                          (bottomMargin + 1) * columnCount)
      PROVE  Changed(t) \subseteq Inside
  <2>1. ASSUME NEW r \in Changed(t)
        PROVE  r \in Inside
    <3>1. r \in 0..(rowCount - 1) /\ topMargin <= r /\ r <= bottomMargin
      BY <1>0, <1>2, ChangedIs
    <3> QED
      BY <3>1 DEF Inside
  <2> QED
    BY <2>1
<1>3. LET t == scrollBack(Now, n) IN
      /\ t.marks = Now.marks \cup {topMargin, bottomMargin}
      /\ n >= 0 => /\ IsWhole(t.text)
                   /\ AgreeOutside(Now.text, t.text, topMargin * columnCount,
                                   (bottomMargin + 1) * columnCount)
  BY <1>0, <1>1, scrollBackIs
<1>4. LET t == scrollWithin(Now, n) IN
      /\ t.marks = Now.marks \cup {topMargin, bottomMargin}
      /\ n >= 0 => /\ IsWhole(t.text)
                   /\ AgreeOutside(Now.text, t.text, topMargin * columnCount,
                                   (bottomMargin + 1) * columnCount)
  BY <1>0, <1>1, scrollWithinIs
<1>5. LET t == addLine(Now, n) IN t.marks = Now.marks \cup 0..(rowCount - 1)
  BY <1>0, <1>1, addLineIs
<1>6. /\ Changed(scrollBack(Now, n)) \subseteq Inside
      /\ {topMargin, bottomMargin} \subseteq scrollBack(Now, n).marks
  <2>1. PICK t : t = scrollBack(Now, n)
    OBVIOUS
  <2> QED
    BY <1>0, <1>1, <1>2, <1>3, <2>1
<1>7. /\ Changed(scrollWithin(Now, n)) \subseteq Inside
      /\ {topMargin, bottomMargin} \subseteq scrollWithin(Now, n).marks
  <2>1. PICK t : t = scrollWithin(Now, n)
    OBVIOUS
  <2> QED
    BY <1>0, <1>1, <1>2, <1>4, <2>1
<1>8. 0..(rowCount - 1) \subseteq addLine(Now, n).marks
  BY <1>5
<1> QED
  BY <1>6, <1>7, <1>8 DEF scrollFeed

LEMMA EditsAreInPlace ==
  ASSUME Healthy
  PROVE  EditsStayInPlace
<1>0. /\ Bounded /\ At(Now) /\ Now.x = curX /\ Now.y = curY /\ Now.text = Cells
      /\ curX \in Nat /\ curY \in Nat /\ columnCount \in Nat
      /\ curY < rowCount
  BY NowIs DEF Bounded
<1>1. ASSUME NEW s \in LineEdits
      PROVE  Changed(s) \subseteq {curY}
  <2>1. ASSUME NEW r \in Changed(s)
        PROVE  r = curY
    <3>1. /\ IsWhole(s.text)
          /\ AgreeOutside(Cells, s.text, curY * columnCount, (curY + 1) * columnCount)
      BY LineEditIs
    <3>2. r \in 0..(rowCount - 1) /\ curY <= r /\ r <= curY
      BY <1>0, <3>1, ChangedIs
    <3> QED
      BY <1>0, <3>2
  <2> QED
    BY <2>1
<1>2. ASSUME NEW s \in RightEdits
      PROVE  LET left == curY * columnCount + Smallest(curX, columnCount)
             IN  SubSeq(s.text, 1, left) = SubSeq(Cells, 1, left)
  <2>1. IsWhole(s.text) /\ RightOnly(Now, s.text)
    BY RightEditIs
  <2>2. PICK left \in Int : /\ left = curY * columnCount + Smallest(curX, columnCount)
                            /\ left <= Size
    <3>1. curY * columnCount \in Nat /\ curY * columnCount + columnCount <= Size
      <4>1. PICK y \in Int : y = curY /\ 0 <= y /\ y < rowCount
        BY <1>0
      <4>2. y * columnCount \in Nat /\ y * columnCount + columnCount <= Size
        BY <1>0, <4>1, RowIs
      <4> QED
        BY <4>1, <4>2, Zenon
    <3>2. PICK k \in Int : k = Smallest(curX, columnCount) /\ k <= columnCount
      <4>1. curX \in Int /\ columnCount \in Int
        BY <1>0
      <4>2. Smallest(curX, columnCount) \in Int /\ Smallest(curX, columnCount) <= columnCount
        BY <4>1, SmallestIs
      <4> QED
        BY <4>2, Zenon
    <3>3. PICK d \in Int : d = curY * columnCount /\ d + columnCount <= Size
      BY <3>1
    <3>4. PICK left \in Int : left = d + k /\ left <= Size
      BY <1>0, <3>2, <3>3, SizeIs
    <3> QED
      BY <3>2, <3>3, <3>4, Zenon
  <2>3. \A i \in 1..left : i \in 1..Size /\ i <= left
    BY <1>0, <2>2, SizeIs
  <2>4. \A i \in 1..left : Cells[i] \in Int /\ Cells[i] = s.text[i]
    <3>1. AgreeOutside(Cells, s.text, left, (curY + 1) * columnCount)
      BY <1>0, <2>1, <2>2, Zenon DEF RightOnly
    <3> QED
      BY <1>0, <2>3, <3>1, CellsAreNumbers DEF AgreeOutside
  <2>5. SubSeq(Cells, 1, left) = SubSeq(s.text, 1, left)
    BY <2>4, SameCells
  <2> QED
    BY <2>2, <2>5, Zenon
<1> QED
  BY <1>1, <1>2, ScrollChanges DEF EditsStayInPlace

LEMMA MarkedIs ==
  ASSUME Bounded, NEW t \in Screen, NEW s, s.text = Cells, Marked(s, t), NEW r \in Changed(t)
  PROVE  \E low, high \in t.marks : low <= r /\ r <= high
<1>1. PICK low \in t.marks, high \in t.marks :
        AgreeOutside(Cells, t.text, low * columnCount, (high + 1) * columnCount)
  BY DEF Marked
<1>2. low \in Int /\ high \in Int /\ IsWhole(t.text)
  BY DEF Screen, Marked
<1>3. low <= r /\ r <= high
  BY <1>1, <1>2, ChangedIs
<1> QED
  BY <1>3

LEMMA ChangesAreMarked ==
  ASSUME Healthy
  PROVE  ChangedIsMarked
<1>0. /\ Bounded /\ At(Now) /\ Now.x = curX /\ Now.y = curY /\ Now.text = Cells
      /\ curX \in Nat /\ curY \in Nat /\ rowCount \in Nat
      /\ topMargin \in Int /\ bottomMargin \in Int
  BY NowIs DEF Bounded
<1>1. ASSUME NEW s \in LineEdits, NEW r \in Changed(s)
      PROVE  \E low, high \in s.marks : low <= r /\ r <= high
  <2>1. /\ IsWhole(s.text)
        /\ AgreeOutside(Cells, s.text, curY * columnCount, (curY + 1) * columnCount)
        /\ s = Now \/ curY \in s.marks
    BY LineEditIs
  <2>2. curY \in s.marks
    BY <1>1, <2>1, NothingChanged
  <2>3. curY <= r /\ r <= curY
    BY <1>0, <2>1, ChangedIs
  <2> QED
    BY <2>2, <2>3
<1>2. ASSUME NEW n \in Counts, NEW s, s = scrollBack(Now, n) \/ s = scrollFeed(Now, n),
             NEW r \in Changed(s)
      PROVE  \E low, high \in s.marks : low <= r /\ r <= high
  <2>1. CASE s = scrollBack(Now, n) \/ ~IntoView
    <3>1. r \in Inside /\ topMargin \in s.marks /\ bottomMargin \in s.marks
      BY <1>2, <2>1, ScrollChanges
    <3> QED
      BY <3>1 DEF Inside
  <2>2. CASE s = scrollFeed(Now, n) /\ IntoView
    <3>1. r \in 0..(rowCount - 1)
      BY DEF Changed
    <3>2. r \in s.marks /\ r \in Int
      BY <2>2, <3>1, <1>0, ScrollChanges
    <3> QED
      BY <3>2
  <2> QED
    BY <1>2, <2>1, <2>2
<1>3. ASSUME NEW n \in 0..2, n = 2 \/ curX <= columnCount,
             NEW s, s = deleteInScreen(Now, n), NEW r \in Changed(s)
      PROVE  \E low, high \in s.marks : low <= r /\ r <= high
  <2>1. LET t == deleteInScreen(Now, n) IN
         /\ t \in Screen
         /\ n = 2 \/ Now.x <= columnCount => Marked(Now, t)
    BY <1>0, deleteInScreenIs
  <2>2. s \in Screen /\ Marked(Now, s)
    BY <1>0, <1>3, <2>1, Zenon
  <2> QED
    BY <1>0, <2>2, MarkedIs
<1>4. ASSUME NEW s, s = alignTest(Now), NEW r \in Changed(s)
      PROVE  \E low, high \in s.marks : low <= r /\ r <= high
  <2>1. LET t == alignTest(Now) IN t.marks = Now.marks \cup {0, rowCount - 1}
    BY <1>0, alignTestIs
  <2>2. 0 \in s.marks /\ rowCount - 1 \in s.marks
    BY <1>4, <2>1
  <2>3. r \in 0..(rowCount - 1)
    BY DEF Changed
  <2>4. 0 <= r /\ r <= rowCount - 1
    BY <1>0, <2>3
  <2> QED
    BY <2>2, <2>4
<1> QED
  BY <1>1, <1>2, <1>3, <1>4 DEF ChangedIsMarked

(***************************************************************************)
(* The theorems.                                                           *)
(***************************************************************************)

LEMMA NothingFollowsHarm ==
  ASSUME Relative \/ Positioning
  PROVE  ~harmed
<1>1. ASSUME NEW s, NEW h, Do(s, h) \/ Safely(s) \/ Edit(s, h)
      PROVE  ~harmed
  BY <1>1 DEF Safely, Do, Edit
<1>2. CASE Relative
  <2>1. CASE Backspace \/ Tab \/ Return \/ LineFeed
    BY <2>1, <1>1, Zenon DEF Backspace, Tab, Return, LineFeed
  <2>2. CASE SaveCursor \/ Index \/ NextLine \/ ReverseIndex \/ TabStop \/ AlignTest
    BY <2>2, <1>1, Zenon DEF SaveCursor, Index, NextLine, ReverseIndex, TabStop, AlignTest
  <2>3. CASE CursorUp \/ CursorDown \/ CursorRight \/ CursorLeft \/ CursorColumn
    BY <2>3, <1>1, Zenon DEF CursorUp, CursorDown, CursorRight, CursorLeft, CursorColumn
  <2>4. CASE NextLines \/ PrecedingLines
    BY <2>4, <1>1, Zenon DEF NextLines, PrecedingLines
  <2>5. CASE EraseInScreen \/ EraseInLine \/ InsertLines \/ DeleteLines
    BY <2>5, <1>1, Zenon DEF EraseInScreen, EraseInLine, InsertLines, DeleteLines
  <2>6. CASE DeleteChars \/ EraseChars \/ ScrollUp \/ ScrollDown
    BY <2>6, <1>1, Zenon DEF DeleteChars, EraseChars, ScrollUp, ScrollDown
  <2>7. CASE BackTab \/ InsertChars \/ WriteChar
    BY <2>7, <1>1, Zenon DEF BackTab, InsertChars, WriteChar
  <2> QED
    BY <1>2, <2>1, <2>2, <2>3, <2>4, <2>5, <2>6, <2>7 DEF Relative
<1>3. CASE Positioning
  <2>1. CASE RestoreCursor \/ CursorPosition \/ CursorRow \/ ColumnMode
    BY <2>1, <1>1, Zenon DEF RestoreCursor, CursorPosition, CursorRow, ColumnMode
  <2>2. CASE SetMargins \/ OriginMode \/ EnterAlternate \/ LeaveAlternate
    BY <2>2, <1>1, Zenon DEF SetMargins, OriginMode, EnterAlternate, LeaveAlternate
  <2>3. CASE setWidth \/ resetScreen
    BY <2>3, Zenon DEF setWidth, resetScreen
  <2> QED
    BY <1>3, <2>1, <2>2, <2>3 DEF Positioning
<1> QED
  BY <1>2, <1>3

LEMMA PositioningKeeps ==
  ASSUME Healthy, Positioning
  PROVE  Inv'
  BY RestoreCursorKeeps, PositionKeeps, SetMarginsKeeps, OriginModeKeeps,
     EnterAlternateKeeps, LeaveAlternateKeeps, setWidthKeeps, resetScreenKeeps
     DEF Positioning

LEMMA InitIsInv ==
  ASSUME Init
  PROVE  Inv
<1>1. /\ columnCount \in Nat /\ columnCount >= 2 /\ MinRows \in Nat /\ MinRows >= 1
      /\ MaxRows \in Nat
  BY EmulatorAssumption
<1>2. /\ rowCount \in MinRows..MaxRows /\ curX = 0 /\ curY = 0
      /\ topMargin = 0 /\ bottomMargin = rowCount - 1
      /\ originWithinMargins = FALSE /\ isAlternate = FALSE
      /\ saved = [x |-> 0, y |-> 0, origin |-> FALSE]
      /\ savedMargins = [top |-> 0, bottom |-> 0]
      /\ intact = TRUE /\ harmed = FALSE
  BY DEF Init
<1>3. rowCount \in Nat /\ rowCount >= 1 /\ rowCount <= MaxRows
  BY <1>1, <1>2
<1>4. /\ 0 \in 0..(columnCount + 1) /\ 0 \in -1..(MaxRows - 1) /\ 0 \in 0..(MaxRows - 1)
      /\ rowCount - 1 \in 0..MaxRows /\ 0 \in 0..(rowCount - 1)
  BY <1>1, <1>3
<1>5. /\ saved \in [x : 0..(columnCount + 1), y : 0..(MaxRows - 1), origin : BOOLEAN]
      /\ savedMargins \in [top : 0..(MaxRows - 1), bottom : 0..(MaxRows - 1)]
  BY <1>2, <1>4
<1>6. TypeOK
  BY <1>2, <1>4, <1>5 DEF TypeOK
<1>7. Sound
  BY <1>2, <1>4 DEF Sound, MarginsLegal
<1>8. saved.y < rowCount
  BY <1>2, <1>3
<1> QED
  BY <1>2, <1>6, <1>7, <1>8 DEF Inv

LEMMA InvIsHealthy ==
  ASSUME Inv, ~harmed
  PROVE  Healthy
  BY DEF Inv, Healthy

LEMMA InvIsKept ==
  ASSUME Inv, [Next]_vars
  PROVE  Inv'
<1>1. CASE Relative
  BY <1>1, NothingFollowsHarm, InvIsHealthy, RelativeKeeps DEF Kept
<1>2. CASE Positioning
  BY <1>2, NothingFollowsHarm, InvIsHealthy, PositioningKeeps
<1>3. CASE UNCHANGED vars
  <2>1. /\ rowCount' = rowCount /\ curX' = curX /\ curY' = curY
        /\ topMargin' = topMargin /\ bottomMargin' = bottomMargin
        /\ originWithinMargins' = originWithinMargins /\ isAlternate' = isAlternate
        /\ saved' = saved /\ savedMargins' = savedMargins
        /\ intact' = intact /\ harmed' = harmed
    BY <1>3 DEF vars
  <2> QED
    BY <2>1 DEF Inv, TypeOK, Sound, MarginsLegal
<1> QED
  BY <1>1, <1>2, <1>3 DEF Next, Stopped

\* The screen string has a cell for every column of every row, the cursor is on
\* a row of it and the margins are legal, until one of the commands comes that
\* are named (executeCommandAt, excuteControlChar and setWidth).
THEOREM Damage == Spec => []DamageIsNamed
<1>1. Init => Inv
  BY InitIsInv
<1>2. Inv /\ [Next]_vars => Inv'
  BY InvIsKept
<1>3. Inv => DamageIsNamed
  BY DEF Inv, DamageIsNamed
<1> QED
  BY <1>1, <1>2, <1>3, PTL DEF Spec

\* However a screen came about, scrolling moves the rows between its margins
\* only, and the commands that edit a line leave the others and what is left of
\* the cursor alone (scrollBack, scrollFeed, blankRangeInLine, deleteInLine,
\* deleteRangeInLine and insertInLine).
THEOREM InPlaceAlways == Spec => []EditsStayInPlace
<1>1. Init => Inv
  BY InitIsInv
<1>2. Inv /\ [Next]_vars => Inv'
  BY InvIsKept
<1>3. Inv => EditsStayInPlace
  <2>1. ASSUME Inv, ~harmed
        PROVE  EditsStayInPlace
    BY <2>1, InvIsHealthy, EditsAreInPlace
  <2>2. harmed => EditsStayInPlace
    BY DEF EditsStayInPlace
  <2> QED
    BY <2>1, <2>2
<1> QED
  BY <1>1, <1>2, <1>3, PTL DEF Spec

\* What these commands, the erasing of the screen and the alignment test change
\* lies between two rows that invalidateLine was called for.
THEOREM MarkedAlways == Spec => []ChangedIsMarked
<1>1. Init => Inv
  BY InitIsInv
<1>2. Inv /\ [Next]_vars => Inv'
  BY InvIsKept
<1>3. Inv => ChangedIsMarked
  <2>1. ASSUME Inv, ~harmed
        PROVE  ChangedIsMarked
    BY <2>1, InvIsHealthy, ChangesAreMarked
  <2>2. harmed => ChangedIsMarked
    BY DEF ChangedIsMarked
  <2> QED
    BY <2>1, <2>2
<1> QED
  BY <1>1, <1>2, <1>3, PTL DEF Spec

\* A command that works from where the cursor is does not carry it over a margin
\* (cursorUp, cursorDown and the scrolling of excuteControlChar).
THEOREM WithinMargins == Spec => OnlyPositioningLeavesMargins
<1>1. Init => Inv
  BY InitIsInv
<1>2. Inv /\ [Next]_vars => Inv'
  BY InvIsKept
<1>3. Inv /\ [Next]_vars =>
        [(curY \in Inside /\ curY' \notin Inside /\ ~harmed') => ~Relative]_vars
  <2>1. ASSUME Inv, Relative, curY \in Inside, ~harmed'
        PROVE  curY' \in Inside
    BY <2>1, NothingFollowsHarm, InvIsHealthy, RelativeKeeps DEF Kept
  <2> QED
    BY <2>1
<1> QED
  BY <1>1, <1>2, <1>3, PTL DEF Spec, OnlyPositioningLeavesMargins
=============================================================================
