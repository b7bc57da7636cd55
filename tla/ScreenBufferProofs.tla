-------------------------- MODULE ScreenBufferProofs --------------------------
(***************************************************************************)
(* What ScreenBuffer promises about the screen and the text view, for      *)
(* screens of any height, any history, any resize and any arguments.       *)
(***************************************************************************)
EXTENDS ScreenBuffer, TLAPS

-----------------------------------------------------------------------------
(***************************************************************************)
(* The inductive invariant.                                                *)
(***************************************************************************)

\* The view ends with a line feed only behind a flush that displaced the rows.
NewlineDisplaces == newline => displaced

\* The block lives in the frame that waits for it, and so does the scroll.
InFrame ==
  /\ block => pc = "flush"
  /\ pending # End => pc \in {"flush", "relock"}

\* The view has no line below the screen, and the history is within its bound,
\* also after the scroll the parser is waiting to do.
Fits == ~raised /\ ~displaced =>
  /\ Len(view) <= screenOffset + rowCount
  /\ screenOffset + rowCount <= MaxLines + MaxRows
  /\ pending # End =>
       /\ pending <= MaxLines
       /\ \/ screenOffset + rowCount + pending <= MaxLines
          \/ screenOffset + rowCount <= MaxRows

\* What holds of the parser while the main thread leaves its screen alone.
Undisturbed == ~exposed =>
  /\ ~raised /\ ~displaced
  /\ curY < rowCount
  /\ last < rowCount
  /\ \/ last = -1 /\ first = IntMax
     \/ last >= 0 /\ first \in 0..(rowCount - 1)
  /\ pc = "flush" => block
  /\ pc = "relock" => last = -1
  /\ pending # End => pending \in 1..rowCount
  /\ block => last >= 0

\* The screen is a window on what was written ...
Window == Placed =>
  \A r \in 1..rowCount : screen[r] = At(text, screenOffset + r)

\* ... and nothing is written below it.
Beyond == Placed =>
  \A i \in Lines : i > screenOffset + rowCount => text[i] = blank

\* A line the view shows wrong is a row of the screen the next flush copies.
Stale == Placed => \A i \in Lines : At(view, i) # text[i] =>
  /\ i > screenOffset
  /\ first <= i - screenOffset - 1
  /\ last >= 0
  /\ screenOffset = 0 => i - 1 <= Largest(last, Len(view) - 1)

\* While the parser does not hold the lock and has left no block, the view is
\* right throughout: a resize may take the screen from it.
Handed == pc \in {"idle", "relock"} \/ (pc = "flush" /\ ~block)
Agree == Placed /\ Handed => \A i \in Lines : At(view, i) = text[i]

ScreenInvariant ==
  /\ TypeOK /\ NewlineDisplaces /\ InFrame /\ Fits /\ Undisturbed
  /\ Window /\ Beyond /\ Stale /\ Agree

-----------------------------------------------------------------------------
(***************************************************************************)
(* The operators on texts.                                                 *)
(***************************************************************************)

LEMMA IntMaxType == IntMax \in Nat
  BY SMT DEF IntMax

LEMMA BlanksSeq ==
  ASSUME NEW n \in Nat
  PROVE  /\ Blanks(n) \in Seq(Line) /\ Len(Blanks(n)) = n
         /\ \A i \in 1..n : Blanks(n)[i] = blank
  BY ScreenAssumption DEF Blanks

LEMMA AtSeq ==
  ASSUME NEW s \in Seq(Line), NEW i \in Int
  PROVE  /\ At(s, i) \in Line
         /\ i \in 1..Len(s) => At(s, i) = s[i]
         /\ i \notin 1..Len(s) => At(s, i) = blank
  BY ScreenAssumption DEF At

LEMMA AtRows ==
  ASSUME NEW n \in Nat, NEW s \in [1..n -> Line], NEW i \in Int
  PROVE  /\ At(s, i) \in Line
         /\ i \in 1..n => At(s, i) = s[i]
         /\ i \notin 1..n => At(s, i) = blank
  BY ScreenAssumption DEF At

LEMMA PaddedSeq ==
  ASSUME NEW s \in Seq(Line), NEW n \in Nat
  PROVE  /\ Padded(s, n) \in Seq(Line) /\ Len(Padded(s, n)) = n
         /\ \A i \in 1..n : Padded(s, n)[i] = At(s, i)
<1>1. \A i \in 1..n : At(s, i) \in Line
  BY AtSeq
<1>2. QED
  BY <1>1 DEF Padded

\* A prefix of the rows the view has, and the rows copied behind it.
LEMMA Spliced ==
  ASSUME NEW k \in Seq(Line), NEW c \in Nat, NEW f \in [1..c -> Line]
  PROVE  /\ k \o f \in Seq(Line) /\ Len(k \o f) = Len(k) + c
         /\ \A i \in 1..Len(k) : (k \o f)[i] = k[i]
         /\ \A i \in (Len(k) + 1)..(Len(k) + c) : (k \o f)[i] = f[i - Len(k)]
<1>1. f \in Seq(Line) /\ Len(f) = c
  OBVIOUS
<1>2. QED
  BY <1>1

LEMMA SeqRows ==
  ASSUME NEW s \in Seq(Line)
  PROVE  s \in [1..Len(s) -> Line]
  OBVIOUS

LEMMA Prefix ==
  ASSUME NEW s \in Seq(Line), NEW n \in Int, n <= Len(s)
  PROVE  /\ SubSeq(s, 1, n) \in Seq(Line)
         /\ n >= 0 => /\ Len(SubSeq(s, 1, n)) = n
                      /\ \A i \in 1..n : SubSeq(s, 1, n)[i] = s[i]
  OBVIOUS

LEMMA LargestSmallest ==
  ASSUME NEW a \in Int, NEW b \in Int
  PROVE  /\ Largest(a, b) \in Int /\ Largest(a, b) >= a /\ Largest(a, b) >= b
         /\ Largest(a, b) = a \/ Largest(a, b) = b
         /\ Smallest(a, b) \in Int /\ Smallest(a, b) <= a /\ Smallest(a, b) <= b
         /\ Smallest(a, b) = a \/ Smallest(a, b) = b
  BY DEF Largest, Smallest

-----------------------------------------------------------------------------
(***************************************************************************)
(* The flush block.                                                        *)
(***************************************************************************)

\* The parts of Flushed, by name.
Update == screenOffset + first
Count == Largest(Len(view), 1)
Kept ==
  IF Update < Count THEN SubSeq(view, 1, Update)
  ELSE IF Len(view) = 0 \/ ~newline THEN Padded(view, Update)
  ELSE Padded(view, Update + 1)
LinesThen == IF Update < Count THEN Count ELSE Update + 1
Bottom == IF screenOffset = 0 THEN Largest(last, LinesThen - 1) ELSE rowCount - 1
Copied == Largest(0, Bottom - first + 1)
Rows == [i \in 1..Copied |-> At(screen, first + i)]

SavedThen ==
  LET top == IF screenOffset < Len(view) THEN screenOffset ELSE 0
      n   == Len(Kept \o Rows)
  IN IF top + curY < n THEN top + curY + 1
     ELSE IF top + curY > n THEN 0 ELSE saved

LEMMA FlushedIs ==
  /\ Flushed.raises = (first < 0 \/ (first <= Bottom /\ Bottom >= rowCount))
  /\ Flushed.view = Kept \o Rows
  /\ Flushed.newline = (Bottom < first)
  /\ Flushed.saved = SavedThen
  /\ Flushed.first = IntMax /\ Flushed.last = -1
<1>1. Flushed = [raises  |-> first < 0 \/ (first <= Bottom /\ Bottom >= rowCount),
                 view    |-> Kept \o Rows,
                 newline |-> Bottom < first,
                 saved   |-> SavedThen,
                 first   |-> IntMax,
                 last    |-> -1]
  BY Zenon DEF Flushed, SavedThen, Bottom, LinesThen, Kept, Rows, Copied, Count, Update
<1>2. QED
  BY <1>1

LEMMA FlushedSaved ==
  ASSUME TypeOK
  PROVE  Flushed.saved \in Nat
<1> DEFINE top == IF screenOffset < Len(view) THEN screenOffset ELSE 0
           n == Len(Kept \o Rows)
<1>1. SavedThen = IF top + curY < n THEN top + curY + 1
                  ELSE IF top + curY > n THEN 0 ELSE saved
  BY DEF SavedThen
<1>2. top \in Nat /\ curY \in Nat /\ saved \in Nat
  BY DEF TypeOK
<1> HIDE DEF top, n
<1>3. QED
  BY <1>1, <1>2, FlushedIs

LEMMA FlushTypes ==
  ASSUME TypeOK
  PROVE  /\ Update \in Int /\ Count \in Nat \ {0} /\ LinesThen \in Int
         /\ Bottom \in Int /\ Copied \in Nat
         /\ Rows \in [1..Copied -> Line]
         /\ \A i \in 1..Copied : Rows[i] = At(screen, first + i)
<1>1. /\ screenOffset \in Nat /\ first \in Int /\ last \in Int
      /\ rowCount \in Nat /\ Len(view) \in Nat
      /\ screen \in [1..rowCount -> Line]
  BY ScreenAssumption DEF TypeOK
<1>2. Update \in Int /\ Count \in Nat \ {0}
  BY <1>1 DEF Update, Count, Largest
<1>3. LinesThen \in Int
  BY <1>2 DEF LinesThen
<1>4. Bottom \in Int
  BY <1>1, <1>3 DEF Bottom, Largest
<1>5. Copied \in Nat
  BY <1>1, <1>4 DEF Copied, Largest
<1>6. \A i \in 1..Copied : At(screen, first + i) \in Line
  BY <1>1, <1>5, AtRows
<1>7. QED
  BY <1>2, <1>3, <1>4, <1>5, <1>6 DEF Rows

\* The lines the block keeps are those of the view.
LEMMA KeptLines ==
  ASSUME TypeOK, first >= 0
  PROVE  /\ Kept \in Seq(Line)
         /\ ~newline => /\ Len(Kept) = Update
                        /\ \A i \in 1..Update : Kept[i] = At(view, i)
<1>1. view \in Seq(Line) /\ Len(view) \in Nat /\ Update \in Nat
  BY DEF TypeOK, Update
<1>2. CASE Update < Count
  <2>1. Update <= Len(view)
    BY <1>1, <1>2 DEF Count, Largest
  <2>2. Kept = SubSeq(view, 1, Update)
    BY <1>2 DEF Kept
  <2>3. \A i \in 1..Update : At(view, i) = view[i]
    BY <1>1, <2>1, AtSeq
  <2>4. QED
    BY <1>1, <2>1, <2>2, <2>3, Prefix
<1>3. CASE ~(Update < Count) /\ ~newline
  <2>1. Kept = Padded(view, Update)
    BY <1>3 DEF Kept
  <2>2. QED
    BY <1>1, <1>3, <2>1, PaddedSeq
<1>4. CASE ~(Update < Count) /\ newline
  <2>1. Kept = Padded(view, Update) \/ Kept = Padded(view, Update + 1)
    BY <1>4 DEF Kept
  <2>2. Update + 1 \in Nat
    BY <1>1
  <2>3. Padded(view, Update) \in Seq(Line) /\ Padded(view, Update + 1) \in Seq(Line)
    BY <1>1, <2>2, PaddedSeq, Zenon
  <2>4. Kept \in Seq(Line)
    BY <2>1, <2>3, Zenon
  <2>5. QED
    BY <1>4, <2>4
<1>5. QED
  BY <1>2, <1>3, <1>4

LEMMA FlushedTyped ==
  ASSUME TypeOK, ~Flushed.raises
  PROVE  /\ first >= 0
         /\ Flushed.view \in Seq(Line) /\ Flushed.newline \in BOOLEAN
         /\ Flushed.saved \in Nat /\ Flushed.first = IntMax /\ Flushed.last = -1
<1>0. first \in Int
  BY DEF TypeOK
<1>a. ~(first < 0)
  BY FlushedIs, Zenon
<1>b. Flushed.newline \in BOOLEAN
  <2>1. (Bottom < first) \in BOOLEAN
    OBVIOUS
  <2>2. QED
    BY <2>1, FlushedIs, SMT
<1>1. first >= 0
  BY <1>0, <1>a
<1>2. Kept \o Rows \in Seq(Line)
  BY <1>1, KeptLines, FlushTypes, Spliced
<1>3. QED
  BY <1>1, <1>2, <1>b, FlushedIs, FlushedSaved

\* A block that does not displace the rows leaves a view that ends with the
\* last row it copied, row Bottom.
LEMMA FlushedLines ==
  ASSUME TypeOK, ~newline, ~Flushed.raises, ~Flushed.newline
  PROVE  /\ first >= 0 /\ first <= Bottom /\ Bottom < rowCount
         /\ Len(Flushed.view) = screenOffset + Bottom + 1
         /\ \A i \in 1..Update : Flushed.view[i] = At(view, i)
         /\ \A i \in (Update + 1)..(screenOffset + Bottom + 1) :
              Flushed.view[i] = At(screen, i - screenOffset)
<1>0. first \in Int /\ Bottom \in Int /\ rowCount \in Int
  BY FlushTypes, ScreenAssumption DEF TypeOK
<1>a. ~(first < 0 \/ (first <= Bottom /\ Bottom >= rowCount)) /\ ~(Bottom < first)
  BY FlushedIs, Zenon
<1>1. first >= 0 /\ first <= Bottom /\ Bottom < rowCount
  BY <1>0, <1>a
<1>2. /\ Kept \in Seq(Line) /\ Len(Kept) = Update
      /\ \A i \in 1..Update : Kept[i] = At(view, i)
  BY <1>1, KeptLines
<1>3. Copied = Bottom - first + 1
  BY <1>1, FlushTypes DEF Copied, Largest, TypeOK
<1>4. /\ screenOffset \in Nat /\ first \in Nat /\ Bottom \in Int /\ Copied \in Nat
      /\ Update = screenOffset + first
  BY <1>1, FlushTypes DEF TypeOK, Update
<1>5. /\ Len(Kept \o Rows) = Update + Copied
      /\ \A i \in 1..Update : (Kept \o Rows)[i] = Kept[i]
      /\ \A i \in (Update + 1)..(Update + Copied) :
           (Kept \o Rows)[i] = Rows[i - Update]
  BY <1>2, FlushTypes, Spliced
<1>6. ASSUME NEW i \in (Update + 1)..(Update + Copied)
      PROVE  Rows[i - Update] = At(screen, i - screenOffset)
  <2>1. i - Update \in 1..Copied /\ first + (i - Update) = i - screenOffset
    BY <1>4
  <2>2. Rows[i - Update] = At(screen, first + (i - Update))
    BY <2>1, FlushTypes
  <2>3. QED
    BY <2>1, <2>2
<1>7. Update + Copied = screenOffset + Bottom + 1
  BY <1>3, <1>4
<1>8. QED
  BY <1>1, <1>2, <1>5, <1>6, <1>7, FlushedIs

LEMMA BottomBounds ==
  ASSUME TypeOK
  PROVE  /\ screenOffset > 0 => Bottom = rowCount - 1
         /\ screenOffset = 0 => Bottom >= last /\ Bottom >= Len(view) - 1
<1>1. /\ Len(view) \in Nat /\ last \in Int /\ screenOffset \in Nat
      /\ LinesThen \in Int /\ Count \in Nat /\ Update \in Int
  BY FlushTypes DEF TypeOK
<1>2. Count >= Len(view)
  BY <1>1 DEF Count, Largest
<1>3. LinesThen >= Count
  BY <1>1 DEF LinesThen
<1>4. screenOffset = 0 => Bottom >= last /\ Bottom >= LinesThen - 1
  BY <1>1 DEF Bottom, Largest
<1>5. screenOffset > 0 => Bottom = rowCount - 1
  BY DEF Bottom
<1>6. QED
  BY <1>1, <1>2, <1>3, <1>4, <1>5, FlushTypes

\* What the block leaves in the view is what was written.
LEMMA FlushAgrees ==
  ASSUME TypeOK, Window, Beyond, Stale, Placed,
         ~newline, ~Flushed.raises, ~Flushed.newline,
         NEW i \in Lines
  PROVE  At(Flushed.view, i) = text[i]
<1> DEFINE v == Flushed.view
           n == screenOffset + Bottom + 1
<1>1. /\ screenOffset \in Nat /\ first \in Nat /\ rowCount \in Nat /\ Bottom \in Int
      /\ last \in Int /\ Len(view) \in Nat /\ i \in Nat \ {0}
      /\ Update = screenOffset + first
      /\ first <= Bottom /\ Bottom < rowCount
  BY FlushedLines, FlushTypes, ScreenAssumption DEF TypeOK, Lines, Update
<1>2. view \in Seq(Line) /\ v \in Seq(Line) /\ Len(v) = n
  BY FlushedLines, FlushedTyped DEF TypeOK
<1>3. At(view, i) # text[i] =>
        /\ i > screenOffset /\ first <= i - screenOffset - 1 /\ last >= 0
        /\ screenOffset = 0 => i - 1 <= Largest(last, Len(view) - 1)
  BY DEF Stale
<1>4. CASE i <= Update
  <2>1. i \in 1..Update /\ i \in 1..Len(v)
    BY <1>1, <1>2, <1>4
  <2>2. At(v, i) = v[i] /\ v[i] = At(view, i)
    BY <1>1, <1>2, <2>1, FlushedLines, AtSeq
  <2>3. At(view, i) = text[i]
    BY <1>1, <1>3, <1>4
  <2>4. QED
    BY <2>2, <2>3
<1>5. CASE i > Update /\ i <= n
  <2>1. i \in (Update + 1)..n /\ i \in 1..Len(v)
    BY <1>1, <1>2, <1>5
  <2>2. At(v, i) = v[i]
    BY <1>1, <1>2, <2>1, AtSeq
  <2>3. v[i] = At(screen, i - screenOffset)
    BY <2>1, FlushedLines
  <2>4. i - screenOffset \in 1..rowCount /\ screenOffset + (i - screenOffset) = i
    BY <1>1, <1>5
  <2>5. screen \in [1..rowCount -> Line]
    BY DEF TypeOK
  <2>6. At(screen, i - screenOffset) = screen[i - screenOffset]
    BY <1>1, <2>4, <2>5, AtRows
  <2>7. screen[i - screenOffset] = At(text, screenOffset + (i - screenOffset))
    BY <2>4 DEF Window
  <2>8. At(text, i) = text[i]
    BY DEF TypeOK, At
  <2>9. QED
    BY <2>2, <2>3, <2>4, <2>6, <2>7, <2>8
<1>6. CASE i > n
  <2>1. i \notin 1..Len(v)
    BY <1>1, <1>2, <1>6
  <2>2. At(v, i) = blank
    BY <1>1, <1>2, <2>1, AtSeq
  <2>3. CASE screenOffset > 0
    <3>1. i > screenOffset + rowCount
      BY <1>1, <1>6, <2>3, BottomBounds
    <3>2. QED
      BY <2>2, <3>1 DEF Beyond
  <2>4. CASE screenOffset = 0
    <3>1. Bottom >= last /\ Bottom >= Len(view) - 1
      BY <2>4, BottomBounds
    <3>2. i - 1 > last /\ i - 1 > Len(view) - 1
      BY <1>1, <1>6, <2>4, <3>1
    <3>3. ~(i - 1 <= Largest(last, Len(view) - 1))
      BY <1>1, <3>2 DEF Largest
    <3>4. At(view, i) = text[i]
      BY <1>3, <2>4, <3>3
    <3>5. At(view, i) = blank
      BY <1>1, <1>2, <3>2, AtSeq
    <3>6. QED
      BY <2>2, <3>4, <3>5
  <2>5. QED
    BY <1>1, <2>3, <2>4
<1>7. QED
  BY <1>1, <1>4, <1>5, <1>6

LEMMA FlushFits ==
  ASSUME TypeOK, ~newline, ~Flushed.raises, ~Flushed.newline
  PROVE  Len(Flushed.view) <= screenOffset + rowCount
<1>1. screenOffset \in Nat /\ Bottom \in Int /\ rowCount \in Nat
  BY FlushTypes, ScreenAssumption DEF TypeOK
<1>2. QED
  BY <1>1, FlushedLines

\* As long as the main thread leaves the screen alone the block copies a row
\* and stays inside the screen.
LEMMA FlushUndisturbed ==
  ASSUME ScreenInvariant, ~exposed, block
  PROVE  ~Flushed.raises /\ ~Flushed.newline
<1>1. /\ first \in 0..(rowCount - 1) /\ last \in 0..(rowCount - 1)
      /\ ~raised /\ ~displaced
  BY ScreenAssumption DEF ScreenInvariant, Undisturbed, TypeOK
<1>2. Len(view) <= screenOffset + rowCount
  BY <1>1 DEF ScreenInvariant, Fits
<1>3. /\ screenOffset \in Nat /\ rowCount \in Nat \ {0} /\ Len(view) \in Nat
      /\ Bottom \in Int /\ TypeOK
  BY ScreenAssumption, FlushTypes DEF ScreenInvariant, TypeOK
<1>4. CASE screenOffset > 0
  <2>1. Bottom = rowCount - 1
    BY <1>3, <1>4, BottomBounds
  <2>2. ~(Bottom < first) /\ ~(first < 0 \/ (first <= Bottom /\ Bottom >= rowCount))
    BY <1>1, <1>3, <2>1
  <2>3. QED
    BY <2>2, FlushedIs, Zenon
<1>5. CASE screenOffset = 0
  <2>1. Update = first /\ Count \in 1..rowCount
    BY <1>1, <1>2, <1>3, <1>5 DEF Update, Count, Largest
  <2>2. LinesThen \in (first + 1)..rowCount
    BY <1>1, <1>3, <2>1 DEF LinesThen
  <2>3. Bottom \in first..(rowCount - 1)
    BY <1>1, <1>3, <1>5, <2>2 DEF Bottom, Largest
  <2>4. ~(Bottom < first) /\ ~(first < 0 \/ (first <= Bottom /\ Bottom >= rowCount))
    BY <1>1, <1>3, <2>3
  <2>5. QED
    BY <2>4, FlushedIs, Zenon
<1>6. QED
  BY <1>3, <1>4, <1>5

\* getLock and flushScreenOnUI: with a block, and without.
LEMMA UnlockedIs ==
  /\ block => Unlocked = Flushed
  /\ ~block => /\ Unlocked.raises = FALSE
               /\ Unlocked.view = view /\ Unlocked.newline = newline
               /\ Unlocked.saved = saved
               /\ Unlocked.first = first /\ Unlocked.last = last
  BY DEF Unlocked

LEMMA UnlockedTyped ==
  ASSUME TypeOK, ~Unlocked.raises
  PROVE  /\ Unlocked.view \in Seq(Line) /\ Unlocked.newline \in BOOLEAN
         /\ Unlocked.saved \in Nat
         /\ Unlocked.first \in Int /\ Unlocked.last \in Int
<1>1. CASE block
  <2>1. ~Flushed.raises /\ Unlocked = Flushed
    BY <1>1, UnlockedIs, Zenon
  <2>2. IntMax \in Int /\ -1 \in Int
    BY IntMaxType
  <2>3. QED
    BY <2>1, <2>2, FlushedTyped
<1>2. CASE ~block
  BY <1>2, UnlockedIs DEF TypeOK
<1>3. QED
  BY <1>1, <1>2

LEMMA UnlockedFits ==
  ASSUME ScreenInvariant, ~raised, ~displaced,
         ~Unlocked.raises, ~Unlocked.newline
  PROVE  Len(Unlocked.view) <= screenOffset + rowCount
<1>1. TypeOK /\ ~newline
  BY DEF ScreenInvariant, NewlineDisplaces
<1>2. CASE block
  <2>1. ~Flushed.raises /\ ~Flushed.newline /\ Unlocked = Flushed
    BY <1>2, UnlockedIs, Zenon
  <2>2. QED
    BY <1>1, <2>1, FlushFits
<1>3. CASE ~block
  <2>1. Unlocked.view = view
    BY <1>3, UnlockedIs, Zenon
  <2>2. QED
    BY <2>1 DEF ScreenInvariant, Fits
<1>4. QED
  BY <1>2, <1>3

\* The view the main thread finds when it gets the lock.
LEMMA UnlockedAgrees ==
  ASSUME ScreenInvariant, Placed, pc # "parse",
         ~Unlocked.raises, ~Unlocked.newline,
         NEW i \in Lines
  PROVE  At(Unlocked.view, i) = text[i]
<1>1. TypeOK /\ ~newline
  BY DEF ScreenInvariant, NewlineDisplaces, Placed
<1>2. CASE block
  <2>1. ~Flushed.raises /\ ~Flushed.newline /\ Unlocked = Flushed
    BY <1>2, UnlockedIs, Zenon
  <2>2. QED
    BY <1>1, <2>1, FlushAgrees DEF ScreenInvariant
<1>3. CASE ~block
  <2>1. Unlocked.view = view
    BY <1>3, UnlockedIs, Zenon
  <2>2. Handed
    BY <1>1, <1>3 DEF TypeOK, Handed
  <2>3. QED
    BY <2>1, <2>2 DEF ScreenInvariant, Agree
<1>4. QED
  BY <1>2, <1>3

LEMMA UnlockedUndisturbed ==
  ASSUME ScreenInvariant, ~exposed
  PROVE  ~Unlocked.raises /\ ~Unlocked.newline
<1>1. CASE block
  BY <1>1, FlushUndisturbed, UnlockedIs, Zenon
<1>2. CASE ~block
  <2>1. ~newline
    BY DEF ScreenInvariant, NewlineDisplaces, Undisturbed
  <2>2. QED
    BY <1>2, <2>1, UnlockedIs, Zenon
<1>3. QED
  BY <1>1, <1>2

-----------------------------------------------------------------------------
(***************************************************************************)
(* Types.                                                                  *)
(***************************************************************************)

LEMMA InitTypes == Init => TypeOK
<1> SUFFICES ASSUME Init PROVE TypeOK
  OBVIOUS
<1>1. rowCount \in Nat /\ rowCount \in MinRows..MaxRows
  BY ScreenAssumption DEF Init
<1>2. screen \in [1..rowCount -> Line]
  BY <1>1, ScreenAssumption DEF Init, Blanks
<1>3. text \in [Lines -> Line]
  BY ScreenAssumption DEF Init
<1>a. <<>> \in Seq(Line) /\ 0 \in Nat /\ -1 \in Int /\ IntMax \in Int
  BY IntMaxType
<1>4. /\ view \in Seq(Line) /\ newline \in BOOLEAN /\ saved \in Nat
      /\ screenOffset \in Nat /\ curY \in Nat
      /\ first \in Int /\ last \in Int
  BY <1>a, Zenon DEF Init
<1>b. 0 \in 0..MaxChunk
  BY ScreenAssumption
<1>5. /\ block \in BOOLEAN /\ pc \in {"idle", "parse", "flush", "relock"}
      /\ pending \in {End} \cup 0..MaxRows /\ budget \in 0..MaxChunk
      /\ ui \in {"idle", "resize", "reset"} /\ newRows \in MinRows..MaxRows
      /\ raised \in BOOLEAN /\ exposed \in BOOLEAN /\ displaced \in BOOLEAN
  BY <1>1, <1>b, Zenon DEF Init
<1>6. QED
  BY <1>1, <1>2, <1>3, <1>4, <1>5 DEF TypeOK

\* addLine: what goes at the top comes at the bottom as blank rows.
LEMMA Scrolled ==
  ASSUME TypeOK, NEW n \in 0..rowCount
  PROVE  LET s == SubSeq(screen, n + 1, rowCount) \o Blanks(n)
         IN /\ s \in [1..rowCount -> Line]
            /\ \A r \in 1..(rowCount - n) : s[r] = screen[r + n]
            /\ \A r \in (rowCount - n + 1)..rowCount : s[r] = blank
<1>1. /\ rowCount \in Nat /\ n \in Nat /\ n <= rowCount
      /\ screen \in Seq(Line) /\ Len(screen) = rowCount
  BY ScreenAssumption DEF TypeOK
<1> DEFINE t == SubSeq(screen, n + 1, rowCount)
           b == Blanks(n)
<1>2. /\ t \in Seq(Line) /\ Len(t) = rowCount - n
      /\ \A r \in 1..(rowCount - n) : t[r] = screen[r + n]
  BY <1>1
<1>3. /\ b \in Seq(Line) /\ Len(b) = n /\ \A r \in 1..n : b[r] = blank
  BY <1>1, BlanksSeq
<1> HIDE DEF t, b
<1>4. /\ t \o b \in Seq(Line) /\ Len(t \o b) = rowCount
      /\ \A r \in 1..(rowCount - n) : (t \o b)[r] = t[r]
      /\ \A r \in (rowCount - n + 1)..rowCount : (t \o b)[r] = b[r - (rowCount - n)]
  <2>1. b \in [1..n -> Line] /\ Len(t) + n = rowCount
    BY <1>1, <1>2, <1>3
  <2>2. QED
    BY <1>1, <1>2, <2>1, Spliced
<1>5. t \o b \in [1..rowCount -> Line]
  BY <1>4, SeqRows, Zenon
<1>6. \A r \in (rowCount - n + 1)..rowCount : r - (rowCount - n) \in 1..n
  BY <1>1
<1>7. /\ \A r \in 1..(rowCount - n) : (t \o b)[r] = screen[r + n]
      /\ \A r \in (rowCount - n + 1)..rowCount : (t \o b)[r] = blank
  BY <1>2, <1>3, <1>4, <1>6
<1>8. QED
  BY <1>5, <1>7 DEF t, b

LEMMA AddedTypes ==
  ASSUME TypeOK, NEW n \in Nat, addLineNow(n)
  PROVE  /\ rowCount' = rowCount /\ curY' \in Nat /\ raised' \in BOOLEAN
         /\ screen' \in [1..rowCount -> Line] /\ screenOffset' \in Nat
         /\ first' \in Int /\ last' \in Int
<1>1. /\ rowCount \in Nat /\ screen \in [1..rowCount -> Line] /\ screenOffset \in Nat
      /\ first \in Int /\ last \in Int /\ curY \in Nat /\ raised \in BOOLEAN
  BY ScreenAssumption DEF TypeOK
<1>2. CASE n > rowCount
  BY <1>1, <1>2 DEF addLineNow, screenVars
<1>3. CASE ~(n > rowCount)
  <2>1. n \in 0..rowCount
    BY <1>1, <1>3
  <2>2. SubSeq(screen, n + 1, rowCount) \o Blanks(n) \in [1..rowCount -> Line]
    BY <2>1, Scrolled
  <2>3. /\ screen' = SubSeq(screen, n + 1, rowCount) \o Blanks(n)
        /\ last' = rowCount - 1
        /\ first' = IF first < rowCount THEN first - n ELSE rowCount - n
        /\ screenOffset' = screenOffset + n
        /\ UNCHANGED <<rowCount, curY, raised>>
    BY <1>3 DEF addLineNow
  <2>4. screen' \in [1..rowCount -> Line]
    BY <2>2, <2>3
  <2>5. first' \in Int /\ last' \in Int /\ screenOffset' \in Nat
    BY <1>1, <2>3
  <2>6. QED
    BY <1>1, <2>3, <2>4, <2>5
<1>4. QED
  BY <1>2, <1>3

\* setContent gives the screen the height it is asked for, from a view that may
\* be any.
LEMMA ContentTypes ==
  ASSUME NEW rows \in Nat \ {0}, NEW f \in Int, NEW l \in Int, NEW y \in Nat,
         Unlocked.view \in Seq(Line), Unlocked.saved \in Nat,
         setContent(rows, f, l, y)
  PROVE  /\ rowCount' = rows
         /\ screenOffset' = Largest(0, Len(Unlocked.view) - rows)
         /\ screenOffset' \in Nat
         /\ screenOffset' + rows >= Len(Unlocked.view)
         /\ screenOffset' + rows = rows \/ screenOffset' + rows = Len(Unlocked.view)
         /\ screen' \in [1..rows -> Line]
         /\ \A r \in 1..rows : screen'[r] = At(Unlocked.view, screenOffset' + r)
         /\ \/ curY' = y /\ first' = f /\ last' = l
            \/ /\ curY' \in 0..(rows - 1)
               /\ first' = Low(Low(f, y), curY') /\ last' = High(High(l, y), curY')
         /\ curY' \in Nat /\ first' \in Int /\ last' \in Int
<1> DEFINE v == Unlocked.view
           c == Unlocked.saved
           offset == Largest(0, Len(v) - rows)
           found == c > offset /\ c <= Len(v)
           row == Smallest(c - offset - 1, rows - 1)
<1>1. /\ rowCount' = rows /\ screenOffset' = offset
      /\ screen' = [i \in 1..rows |-> At(v, offset + i)]
      /\ curY' = IF found THEN row ELSE y
      /\ first' = IF found THEN Low(Low(f, y), row) ELSE f
      /\ last' = IF found THEN High(High(l, y), row) ELSE l
  BY DEF setContent
<1>2. v \in Seq(Line) /\ Len(v) \in Nat /\ c \in Nat
  OBVIOUS
<1> HIDE DEF v, c
<1>3. /\ offset \in Nat /\ offset + rows >= Len(v)
      /\ offset + rows = rows \/ offset + rows = Len(v)
  BY <1>2 DEF Largest
<1> HIDE DEF offset
<1>4. \A i \in 1..rows : At(v, offset + i) \in Line
  <2> TAKE i \in 1..rows
  <2>1. offset + i \in Int
    BY <1>3
  <2>2. QED
    BY <1>2, <2>1, AtSeq
<1>5. /\ screen' \in [1..rows -> Line]
      /\ \A r \in 1..rows : screen'[r] = At(v, screenOffset' + r)
  BY <1>1, <1>4
<1>6. found => row \in 0..(rows - 1)
  BY <1>2, <1>3 DEF Smallest
<1> HIDE DEF found, row
<1>7. \/ curY' = y /\ first' = f /\ last' = l
      \/ /\ curY' \in 0..(rows - 1)
         /\ first' = Low(Low(f, y), curY') /\ last' = High(High(l, y), curY')
  BY <1>1, <1>6
<1>8. curY' \in Nat /\ first' \in Int /\ last' \in Int
  BY <1>7 DEF Low, High, Smallest, Largest
<1>9. QED
  BY <1>1, <1>3, <1>5, <1>7, <1>8 DEF v, offset

\* The scroll of n lines that scrollFeed asks addLine for.
LEMMA RepeatBounds ==
  ASSUME TypeOK, NEW n \in Nat
  PROVE  /\ Smallest(n, rowCount) \in 0..rowCount
         /\ Smallest(n, rowCount) \in 0..MaxRows
         /\ n > 0 => Smallest(n, rowCount) > 0
  BY ScreenAssumption DEF TypeOK, Smallest

LEMMA CursorTypes ==
  ASSUME TypeOK, NEW row \in Nat, CursorTo(row), budget' \in 0..MaxChunk
  PROVE  TypeOK'
<1>1. curY' \in Nat /\ first' \in Int /\ last' \in Int
  BY DEF TypeOK, CursorTo, Low, High, Largest, Smallest
<1>2. QED
  BY <1>1 DEF TypeOK, CursorTo, Parsing, viewVars, history

LEMMA ScrollTypes ==
  ASSUME TypeOK, NEW n \in Nat, scrollFeed(n), budget' \in 0..MaxChunk
  PROVE  TypeOK'
<1> DEFINE repeat == Smallest(n, rowCount)
<1>1. repeat \in 0..MaxRows /\ repeat \in Nat
  BY RepeatBounds
<1>2. (MustFlush(repeat) /\ flushScreen(repeat))
      \/ (addLineNow(repeat) /\ Parsing /\ UNCHANGED text /\ exposed' = (exposed \/ repeat = 0))
  BY DEF scrollFeed
<1> HIDE DEF repeat
<1>3. CASE flushScreen(repeat)
  BY <1>1, <1>3 DEF TypeOK, flushScreen, screenVars, viewVars, history
<1>4. CASE addLineNow(repeat) /\ Parsing /\ UNCHANGED text
           /\ exposed' = (exposed \/ repeat = 0)
  <2>1. /\ rowCount' = rowCount /\ curY' \in Nat /\ raised' \in BOOLEAN
        /\ screen' \in [1..rowCount -> Line] /\ screenOffset' \in Nat
        /\ first' \in Int /\ last' \in Int
    BY <1>1, <1>4, AddedTypes
  <2>2. exposed' \in BOOLEAN
    BY <1>4 DEF TypeOK
  <2>3. QED
    BY <1>4, <2>1, <2>2 DEF TypeOK, Parsing, viewVars
<1>5. QED
  BY <1>2, <1>3, <1>4

\* What a command does to the types, whichever it is.
LEMMA ParseTypes ==
  ASSUME TypeOK, Parse
  PROVE  TypeOK'
<1>1. rowCount \in Nat \ {0} /\ curY \in Nat /\ budget \in Int
  BY ScreenAssumption DEF TypeOK
<1>2. Command => budget' \in 0..MaxChunk
  BY ScreenAssumption DEF TypeOK, Command
<1>3. CASE cursorToRow
  <2>1. PICK row \in 0..(MaxRows - 1) : CursorTo(Smallest(row, rowCount - 1))
    BY <1>3 DEF cursorToRow
  <2>2. Smallest(row, rowCount - 1) \in Nat
    BY <1>1 DEF Smallest
  <2>3. QED
    BY <1>2, <1>3, <2>1, <2>2, CursorTypes DEF cursorToRow
<1>4. CASE cursorUp
  <2>1. Largest(curY - 1, 0) \in Nat
    BY <1>1 DEF Largest
  <2>2. QED
    BY <1>2, <1>4, <2>1, CursorTypes DEF cursorUp
<1>5. CASE cursorDown
  <2>1. Smallest(curY + 1, rowCount - 1) \in Nat
    BY <1>1 DEF Smallest
  <2>2. QED
    BY <1>2, <1>5, <2>1, CursorTypes DEF cursorDown
<1>6. CASE LineFeed
  <2>1. 1 \in Nat /\ curY + 1 \in Nat
    BY <1>1
  <2>2. scrollFeed(1) \/ CursorTo(curY + 1)
    BY <1>6 DEF LineFeed
  <2>3. QED
    BY <1>2, <1>6, <2>1, <2>2, CursorTypes, ScrollTypes DEF LineFeed
<1>7. CASE ScrollUp
  <2>1. PICK n \in ScrollCounts : scrollFeed(n)
    BY <1>7 DEF ScrollUp
  <2>2. n \in Nat
    BY ScreenAssumption
  <2>3. QED
    BY <1>2, <1>7, <2>1, <2>2, ScrollTypes DEF ScrollUp
<1>8. CASE WriteChar
  <2>1. budget' \in 0..MaxChunk /\ Parsing /\ UNCHANGED exposed
    BY <1>2, <1>8 DEF WriteChar
  <2>2. CASE curY >= rowCount
    <3>1. raised' = TRUE /\ UNCHANGED <<screenVars, text>>
      BY <1>8, <2>2 DEF WriteChar
    <3>2. QED
      BY <2>1, <3>1 DEF TypeOK, Parsing, viewVars, screenVars
  <2>3. CASE ~(curY >= rowCount)
    <3>1. PICK v \in Line \ {blank} :
            /\ screen' = [screen EXCEPT ![curY + 1] = v]
            /\ text' = [i \in Lines |-> IF i = screenOffset + curY + 1
                                        THEN v ELSE text[i]]
            /\ first' = Low(first, curY) /\ last' = High(last, curY)
            /\ UNCHANGED <<rowCount, screenOffset, curY, raised>>
      BY <1>8, <2>3 DEF WriteChar
    <3>2. screen' \in [1..rowCount -> Line] /\ text' \in [Lines -> Line]
      BY <3>1 DEF TypeOK
    <3>3. first' \in Int /\ last' \in Int
      BY <1>1, <3>1 DEF TypeOK, Low, High, Smallest, Largest
    <3>4. QED
      BY <2>1, <3>1, <3>2, <3>3 DEF TypeOK, Parsing, viewVars
  <2>4. QED
    BY <2>2, <2>3
<1>9. CASE deleteInScreen
  <2>1. /\ budget' \in 0..MaxChunk /\ Parsing
        /\ UNCHANGED <<rowCount, screenOffset, curY, raised, exposed>>
    BY <1>2, <1>9 DEF deleteInScreen
  <2>2. screen' \in [1..rowCount -> Line]
    BY <1>1, <1>9, BlanksSeq, SeqRows DEF deleteInScreen
  <2>3. text' \in [Lines -> Line]
    BY <1>9, ScreenAssumption DEF TypeOK, deleteInScreen
  <2>4. first' \in Int /\ last' \in Int
    BY <1>1, <1>9 DEF TypeOK, deleteInScreen, Low, High, Smallest, Largest
  <2>5. QED
    BY <2>1, <2>2, <2>3, <2>4 DEF TypeOK, Parsing, viewVars
<1>10. CASE EndOfData
  <2>1. CASE flushScreen(End)
    BY <1>10, <2>1 DEF TypeOK, EndOfData, flushScreen, screenVars, viewVars, history
  <2>2. CASE ~flushScreen(End)
    BY <1>10, <2>2 DEF TypeOK, EndOfData, screenVars, viewVars, history
  <2>3. QED
    BY <2>1, <2>2
<1>11. CASE Relock
  <2>1. CASE pending = End
    BY <1>11, <2>1 DEF TypeOK, Relock, screenVars, viewVars, history
  <2>2. CASE pending # End
    <3>1. pending \in Nat /\ addLineNow(pending) /\ pc' = "parse"
      BY <1>11, <2>2 DEF TypeOK, Relock
    <3>2. /\ rowCount' = rowCount /\ curY' \in Nat /\ raised' \in BOOLEAN
          /\ screen' \in [1..rowCount -> Line] /\ screenOffset' \in Nat
          /\ first' \in Int /\ last' \in Int
      BY <3>1, AddedTypes
    <3>3. QED
      BY <1>11, <3>1, <3>2 DEF TypeOK, Relock, viewVars, history
  <2>3. QED
    BY <2>1, <2>2
<1>12. QED
  BY <1>3, <1>4, <1>5, <1>6, <1>7, <1>8, <1>9, <1>10, <1>11 DEF Parse

\* A block that raised changes nothing else.
LEMMA RaisedTypes ==
  ASSUME TypeOK, block' = FALSE, raised' = TRUE,
         UNCHANGED <<screenVars, viewVars, history, pending, budget, newRows>>,
         pc' \in {"idle", "parse", "flush", "relock"},
         ui' \in {"idle", "resize", "reset"}
  PROVE  TypeOK'
  BY DEF TypeOK, screenVars, viewVars, history

LEMMA RebuiltTypes ==
  ASSUME TypeOK, NEW rows \in MinRows..MaxRows,
         NEW f \in Int, NEW l \in Int, NEW y \in Nat,
         ~Unlocked.raises, setContent(rows, f, l, y),
         block' = FALSE, view' = Unlocked.view, newline' = Unlocked.newline,
         saved' = Unlocked.saved, displaced' = (displaced \/ Unlocked.newline),
         UNCHANGED <<raised, pc, pending, budget, newRows>>, ui' = "idle",
         text' \in [Lines -> Line], exposed' \in BOOLEAN
  PROVE  TypeOK'
<1>1. /\ Unlocked.view \in Seq(Line) /\ Unlocked.newline \in BOOLEAN
      /\ Unlocked.saved \in Nat
  BY UnlockedTyped
<1>2. rows \in Nat \ {0}
  BY ScreenAssumption
<1>3. /\ rowCount' = rows /\ screenOffset' \in Nat
      /\ screen' \in [1..rows -> Line]
      /\ curY' \in Nat /\ first' \in Int /\ last' \in Int
  BY <1>1, <1>2, ContentTypes
<1>4. displaced' \in BOOLEAN
  BY <1>1 DEF TypeOK
<1>5. QED
  BY <1>1, <1>3, <1>4 DEF TypeOK

LEMMA MainTypes ==
  ASSUME TypeOK, Main
  PROVE  TypeOK'
<1>1. CASE flushScreenOnUI
  <2>1. CASE Unlocked.raises
    <3>1. block' = FALSE /\ raised' = TRUE /\ UNCHANGED <<screenVars, viewVars, history>>
      BY <1>1, <2>1 DEF flushScreenOnUI, AfterBlock
    <3>2. QED
      BY <1>1, <3>1, RaisedTypes DEF flushScreenOnUI, TypeOK
  <2>2. CASE ~Unlocked.raises
    <3>1. /\ block' = FALSE /\ view' = Unlocked.view /\ newline' = Unlocked.newline
          /\ saved' = Unlocked.saved /\ displaced' = (displaced \/ Unlocked.newline)
          /\ first' = Unlocked.first /\ last' = Unlocked.last
          /\ UNCHANGED <<raised, screen, rowCount, screenOffset, curY, history>>
          /\ UNCHANGED <<pending, budget, ui, newRows>> /\ pc' = "relock"
      BY <1>1, <2>2 DEF flushScreenOnUI, AfterBlock
    <3>2. /\ view' \in Seq(Line) /\ newline' \in BOOLEAN /\ saved' \in Nat
          /\ first' \in Int /\ last' \in Int
      BY <2>2, <3>1, UnlockedTyped
    <3>3. displaced' \in BOOLEAN
      BY <2>2, <3>1, UnlockedTyped DEF TypeOK
    <3>4. QED
      BY <3>1, <3>2, <3>3 DEF TypeOK, history
  <2>3. QED
    BY <2>1, <2>2
<1>2. CASE setWidth
  <2>1. CASE Unlocked.raises
    <3>1. block' = FALSE /\ raised' = TRUE /\ UNCHANGED <<screenVars, viewVars, history>>
      BY <1>2, <2>1 DEF setWidth, AfterBlock
    <3>2. QED
      BY <1>2, <3>1, RaisedTypes DEF setWidth, TypeOK
  <2>2. CASE ~Unlocked.raises
    <3>1. /\ block' = FALSE /\ view' = Unlocked.view /\ newline' = Unlocked.newline
          /\ saved' = Unlocked.saved /\ displaced' = (displaced \/ Unlocked.newline)
          /\ setContent(newRows, Unlocked.first, Unlocked.last, curY)
          /\ exposed' = TRUE /\ UNCHANGED <<raised, text>>
          /\ UNCHANGED <<pc, pending, budget, newRows>> /\ ui' = "idle"
      BY <1>2, <2>2 DEF setWidth, AfterBlock
    <3>2. /\ newRows \in MinRows..MaxRows /\ curY \in Nat
          /\ text' \in [Lines -> Line] /\ exposed' \in BOOLEAN
      BY <3>1 DEF TypeOK
    <3>3. Unlocked.first \in Int /\ Unlocked.last \in Int
      BY <2>2, UnlockedTyped
    <3>4. QED
      BY <2>2, <3>1, <3>2, <3>3, RebuiltTypes
  <2>3. QED
    BY <2>1, <2>2
<1>3. CASE resetScreen
  <2>1. CASE Unlocked.raises
    <3>1. block' = FALSE /\ raised' = TRUE /\ UNCHANGED <<screenVars, viewVars, history>>
      BY <1>3, <2>1 DEF resetScreen, AfterBlock
    <3>2. QED
      BY <1>3, <3>1, RaisedTypes DEF resetScreen, TypeOK
  <2>2. CASE ~Unlocked.raises
    <3>1. /\ block' = FALSE /\ view' = Unlocked.view /\ newline' = Unlocked.newline
          /\ saved' = Unlocked.saved /\ displaced' = (displaced \/ Unlocked.newline)
          /\ setContent(rowCount, IntMax, -1, 0)
          /\ text' = [i \in Lines |-> At(Unlocked.view, i)]
          /\ exposed' = (exposed \/ pc # "idle") /\ UNCHANGED raised
          /\ UNCHANGED <<pc, pending, budget, newRows>> /\ ui' = "idle"
      BY <1>3, <2>2 DEF resetScreen, AfterBlock
    <3>2. \A i \in Lines : At(Unlocked.view, i) \in Line
      BY <2>2, UnlockedTyped, AtSeq DEF Lines
    <3>3. text' \in [Lines -> Line] /\ exposed' \in BOOLEAN
      BY <3>1, <3>2 DEF TypeOK
    <3>4. rowCount \in MinRows..MaxRows /\ IntMax \in Int /\ -1 \in Int /\ 0 \in Nat
      BY IntMaxType DEF TypeOK
    <3>5. QED
      BY <2>2, <3>1, <3>3, <3>4, RebuiltTypes
  <2>3. QED
    BY <2>1, <2>2
<1>4. QED
  BY <1>1, <1>2, <1>3 DEF Main

LEMMA NextTypes == TypeOK /\ [Next]_vars => TypeOK'
<1> SUFFICES ASSUME TypeOK, [Next]_vars PROVE TypeOK'
  OBVIOUS
<1>1. CASE \E n \in 0..MaxChunk : newDataAvailableIn(n)
  BY <1>1 DEF TypeOK, newDataAvailableIn, screenVars, viewVars, history
<1>2. CASE Parse
  BY <1>2, ParseTypes
<1>3. CASE Main
  BY <1>3, MainTypes
<1>4. CASE ResizeStart
  BY <1>4 DEF TypeOK, ResizeStart, screenVars, viewVars, history
<1>5. CASE initScreen
  <2>1. <<>> \in Seq(Line)
    OBVIOUS
  <2>2. view' \in Seq(Line) /\ newline' \in BOOLEAN
    BY <1>5, <2>1, Zenon DEF initScreen
  <2>3. QED
    BY <1>5, <2>2 DEF TypeOK, initScreen, screenVars, history
<1>6. CASE Aborted \/ UNCHANGED vars
  <2>1. UNCHANGED vars
    BY <1>6 DEF Aborted
  <2>2. QED
    BY <2>1 DEF TypeOK, vars
<1>7. QED
  BY <1>1, <1>2, <1>3, <1>4, <1>5, <1>6 DEF Next

\* The view, the screen and the history keep their types: the screen has as
\* many rows as rowCount says, whatever the order of resizes, resets, blocks
\* and scrolls.
THEOREM TypesKept == Spec => []TypeOK
<1>1. QED
  BY InitTypes, NextTypes, PTL DEF Spec

-----------------------------------------------------------------------------
(***************************************************************************)
(* The invariant, step by step.                                            *)
(***************************************************************************)

LEMMA InitInvariant == Init => ScreenInvariant
<1> SUFFICES ASSUME Init PROVE ScreenInvariant
  OBVIOUS
<1>1. TypeOK
  BY InitTypes
<1>2. /\ rowCount \in MinRows..MaxRows /\ MinRows \in Nat \ {0} /\ MaxRows \in Nat
      /\ MaxLines \in Nat
  BY ScreenAssumption DEF Init
<1>3. /\ view = <<>> /\ Len(view) = 0 /\ ~newline /\ screenOffset = 0 /\ pending = End
      /\ first = IntMax /\ last = -1 /\ curY = 0 /\ ~block /\ pc = "idle"
      /\ ~raised /\ ~displaced
  BY DEF Init
<1>4. \A i \in Lines : text[i] = blank
  BY DEF Init
<1>5. \A i \in Lines : At(view, i) = blank
  <2>1. <<>> \in Seq(Line) /\ Len(<<>>) = 0
    OBVIOUS
  <2>2. \A i \in Lines : i \in Int /\ i \notin 1..0
    BY DEF Lines
  <2>3. QED
    BY <1>3, <2>1, <2>2, AtSeq
<1>6. \A r \in 1..rowCount : screen[r] = At(text, screenOffset + r)
  <2> TAKE r \in 1..rowCount
  <2>1. screen[r] = blank
    BY <1>2, BlanksSeq DEF Init
  <2>2. screenOffset + r = r /\ r \in Lines /\ DOMAIN text = Lines
    BY <1>1, <1>2, <1>3 DEF Lines, TypeOK
  <2>3. QED
    BY <1>4, <2>1, <2>2 DEF At
<1>7. NewlineDisplaces /\ InFrame /\ Window /\ Beyond /\ Stale /\ Agree
  BY <1>3, <1>4, <1>5, <1>6
     DEF NewlineDisplaces, InFrame, Window, Beyond, Stale, Agree
<1>8. Fits
  BY <1>2, <1>3 DEF Fits
<1>9. Undisturbed
  BY <1>2, <1>3 DEF Undisturbed
<1>10. QED
  BY <1>1, <1>7, <1>8, <1>9 DEF ScreenInvariant

\* A step that changes neither the screen nor the view.
LEMMA QuietText ==
  ASSUME ScreenInvariant, UNCHANGED <<screenVars, viewVars, raised, text>>,
         ui' = "reset" <=> ui = "reset"
  PROVE  NewlineDisplaces' /\ Window' /\ Beyond' /\ Stale'
<1>1. /\ UNCHANGED <<view, newline, screen, rowCount, screenOffset, first, last,
                     text, displaced, raised>>
      /\ Placed' = Placed
  BY DEF screenVars, viewVars, Placed, Running
<1>2. NewlineDisplaces /\ Window /\ Beyond /\ Stale
  BY DEF ScreenInvariant
<1>3. NewlineDisplaces'
  BY <1>1, <1>2 DEF NewlineDisplaces
<1>4. Window'
  BY <1>1, <1>2 DEF Window
<1>5. Beyond'
  BY <1>1, <1>2 DEF Beyond
<1>6. Stale'
  BY <1>1, <1>2 DEF Stale
<1>7. QED
  BY <1>3, <1>4, <1>5, <1>6

LEMMA MarksWiden ==
  ASSUME NEW f \in Int, NEW l \in Int, NEW a \in Int
  PROVE  /\ Low(f, a) \in Int /\ Low(f, a) <= f /\ Low(f, a) <= a
         /\ Low(f, a) = f \/ Low(f, a) = a
         /\ High(l, a) \in Int /\ High(l, a) >= l /\ High(l, a) >= a
         /\ High(l, a) = l \/ High(l, a) = a
  BY DEF Low, High, Smallest, Largest

\* Marking more rows leaves a stale row marked.
LEMMA WiderStale ==
  ASSUME ScreenInvariant, NEW i \in Lines, Placed, At(view, i) # text[i],
         NEW f \in Int, NEW l \in Int, f <= first, l >= last
  PROVE  /\ i > screenOffset /\ f <= i - screenOffset - 1 /\ l >= 0
         /\ screenOffset = 0 => i - 1 <= Largest(l, Len(view) - 1)
<1>1. /\ i > screenOffset /\ first <= i - screenOffset - 1 /\ last >= 0
      /\ screenOffset = 0 => i - 1 <= Largest(last, Len(view) - 1)
  BY DEF ScreenInvariant, Stale
<1>2. /\ i \in Nat /\ screenOffset \in Nat /\ first \in Int /\ last \in Int
      /\ Len(view) \in Nat
  BY DEF Lines, ScreenInvariant, TypeOK
<1>3. QED
  BY <1>1, <1>2 DEF Largest

LEMMA CursorKeeps ==
  ASSUME ScreenInvariant, TypeOK', Command, NEW row \in Nat, CursorTo(row),
         ~exposed => row < rowCount
  PROVE  ScreenInvariant'
<1>1. /\ UNCHANGED <<view, newline, displaced, block, pc, pending, ui, exposed,
                     screen, rowCount, screenOffset, raised, text>>
      /\ curY' = row
      /\ first' = Low(Low(first, curY), row) /\ last' = High(High(last, curY), row)
  BY DEF CursorTo, Parsing, viewVars, history
<1>2. /\ first \in Int /\ last \in Int /\ curY \in Nat /\ rowCount \in Nat
      /\ screenOffset \in Nat
  BY ScreenAssumption DEF ScreenInvariant, TypeOK
<1>3. /\ first' \in Int /\ first' <= first /\ first' <= curY /\ first' <= row
      /\ first' = first \/ first' = curY \/ first' = row
      /\ last' \in Int /\ last' >= last /\ last' >= curY /\ last' >= row
      /\ last' = last \/ last' = curY \/ last' = row
  BY <1>1, <1>2, MarksWiden
<1>4. Placed' = Placed
  BY <1>1 DEF Placed, Running
<1>5. NewlineDisplaces' /\ InFrame' /\ Fits'
  BY <1>1 DEF ScreenInvariant, NewlineDisplaces, InFrame, Fits
<1>6. Undisturbed'
  <2> SUFFICES ASSUME ~exposed PROVE Undisturbed'
    BY <1>1 DEF Undisturbed
  <2>1. /\ ~raised /\ ~displaced /\ curY < rowCount /\ last < rowCount
        /\ \/ last = -1 /\ first = IntMax
           \/ last >= 0 /\ first \in 0..(rowCount - 1)
        /\ pc = "flush" => block
        /\ pending # End => pending \in 1..rowCount
    BY DEF ScreenInvariant, Undisturbed
  <2>2. row < rowCount /\ last' >= 0 /\ last' < rowCount /\ first' \in 0..(rowCount - 1)
    BY <1>2, <1>3, <2>1, IntMaxType
  <2>3. pc' # "relock"
    BY <1>1 DEF Command
  <2>4. QED
    BY <1>1, <2>1, <2>2, <2>3 DEF Undisturbed
<1>7. Window' /\ Beyond'
  BY <1>1, <1>4 DEF ScreenInvariant, Window, Beyond
<1>8. Stale'
  <2> SUFFICES ASSUME Placed, NEW i \in Lines, At(view, i) # text[i]
               PROVE  /\ i > screenOffset /\ first' <= i - screenOffset - 1 /\ last' >= 0
                      /\ screenOffset = 0 => i - 1 <= Largest(last', Len(view) - 1)
    BY <1>1, <1>4 DEF Stale
  <2>1. QED
    BY <1>3, WiderStale
<1>9. Agree'
  BY <1>1 DEF Command, Agree, Handed
<1>10. QED
  BY <1>5, <1>6, <1>7, <1>8, <1>9 DEF ScreenInvariant

\* The block is handed over: the rows stay marked until it has run.
LEMMA FlushKeeps ==
  ASSUME ScreenInvariant, TypeOK', NEW then \in Int, pc = "parse", ~raised,
         flushScreen(then),
         then # End =>
           /\ then <= MaxLines
           /\ screenOffset + rowCount + then <= MaxLines
           /\ ~exposed => then \in 1..rowCount
  PROVE  ScreenInvariant'
<1>1. /\ last >= 0 /\ block' /\ pc' = "flush" /\ pending' = then
      /\ UNCHANGED <<screenVars, viewVars, ui, raised, history>>
  BY DEF flushScreen
<1>2. /\ UNCHANGED <<view, displaced, screenOffset, rowCount, first, last, curY,
                     raised, exposed, text>>
  BY <1>1 DEF screenVars, viewVars, history
<1>3. NewlineDisplaces' /\ Window' /\ Beyond' /\ Stale'
  BY <1>1, <1>2, QuietText
<1>4. InFrame' /\ Agree'
  BY <1>1 DEF InFrame, Agree, Handed
<1>5. Fits'
  <2> SUFFICES ASSUME ~raised, ~displaced PROVE Fits'
    BY <1>2 DEF Fits
  <2>1. /\ Len(view) <= screenOffset + rowCount
        /\ screenOffset + rowCount <= MaxLines + MaxRows
    BY DEF ScreenInvariant, Fits
  <2>2. pending' # End => /\ pending' <= MaxLines
                          /\ screenOffset + rowCount + pending' <= MaxLines
    BY <1>1
  <2> HIDE DEF End
  <2>3. QED
    BY <1>2, <2>1, <2>2 DEF Fits
<1>6. Undisturbed'
  <2> SUFFICES ASSUME ~exposed PROVE Undisturbed'
    BY <1>2 DEF Undisturbed
  <2>1. /\ ~raised /\ ~displaced /\ curY < rowCount /\ last < rowCount
        /\ \/ last = -1 /\ first = IntMax
           \/ last >= 0 /\ first \in 0..(rowCount - 1)
    BY DEF ScreenInvariant, Undisturbed
  <2>2. pending' # End => pending' \in 1..rowCount
    BY <1>1
  <2>3. QED
    BY <1>1, <1>2, <2>1, <2>2 DEF Undisturbed
<1>7. QED
  BY <1>3, <1>4, <1>5, <1>6 DEF ScreenInvariant

\* addLine: the top rows go, which the view has.
LEMMA AddKeeps ==
  ASSUME ScreenInvariant, TypeOK', NEW n \in Nat, addLineNow(n),
         UNCHANGED <<viewVars, block, ui, text>>, pc' = "parse", pending' = End, ~block,
         ~raised, ~exposed' => ~exposed /\ n # 0,
         ~exposed /\ n # 0 => n <= rowCount,
         ~displaced => screenOffset + rowCount + n <= MaxLines + MaxRows,
         (pc = "parse" /\ ~MustFlush(n)) \/ pc = "relock"
  PROVE  ScreenInvariant'
<1>1. UNCHANGED <<view, newline, displaced>>
  BY DEF viewVars
<1>2. /\ first \in Int /\ last \in Int /\ curY \in Nat /\ rowCount \in Nat
      /\ screenOffset \in Nat /\ Len(view) \in Nat /\ view \in Seq(Line)
      /\ screen \in [1..rowCount -> Line] /\ TypeOK
      /\ text \in [Lines -> Line]
  BY ScreenAssumption DEF ScreenInvariant, TypeOK
<1>3. NewlineDisplaces' /\ InFrame' /\ Agree'
  BY <1>1 DEF ScreenInvariant, NewlineDisplaces, InFrame, Agree, Handed
<1>4. CASE n > rowCount
  <2>1. raised' /\ exposed'
    BY <1>1, <1>2, <1>4 DEF addLineNow
  <2>2. QED
    BY <1>3, <2>1
       DEF ScreenInvariant, Fits, Undisturbed, Window, Beyond, Stale, Placed, Running
<1>5. CASE ~(n > rowCount)
  <2> DEFINE s == SubSeq(screen, n + 1, rowCount) \o Blanks(n)
  <2>1. /\ screen' = s /\ last' = rowCount - 1
        /\ first' = IF first < rowCount THEN first - n ELSE rowCount - n
        /\ screenOffset' = screenOffset + n
        /\ UNCHANGED <<rowCount, curY, raised>>
    BY <1>5 DEF addLineNow
  <2>2. n \in 0..rowCount
    BY <1>2, <1>5
  <2>3. /\ \A r \in 1..(rowCount - n) : s[r] = screen[r + n]
        /\ \A r \in (rowCount - n + 1)..rowCount : s[r] = blank
    BY <1>2, <2>2, Scrolled
  <2> HIDE DEF s
  <2>4. Placed' = Placed
    BY <1>1, <2>1 DEF Placed, Running
  <2>5. Placed => ~raised /\ ~displaced
    BY DEF Placed, Running
  <2>6. Fits'
    BY <1>1, <1>2, <2>1, <2>2 DEF ScreenInvariant, Fits
  <2>7. Undisturbed'
    <3> SUFFICES ASSUME ~exposed, n # 0 PROVE Undisturbed'
      BY <1>1 DEF Undisturbed
    <3>1. /\ ~raised /\ ~displaced /\ curY < rowCount /\ last < rowCount
          /\ \/ last = -1 /\ first = IntMax
             \/ last >= 0 /\ first \in 0..(rowCount - 1)
          /\ pc = "flush" => block
          /\ pc = "relock" => last = -1
      BY DEF ScreenInvariant, Undisturbed
    <3>2. rowCount < IntMax /\ IntMax \in Nat
      BY ScreenAssumption, IntMaxType DEF ScreenInvariant, TypeOK
    <3>3. CASE last = -1 /\ first = IntMax
      <4>1. last' >= 0 /\ first' \in 0..(rowCount - 1)
        BY <1>2, <2>1, <2>2, <3>2, <3>3
      <4>2. QED
        BY <1>1, <1>2, <2>1, <3>1, <4>1 DEF Undisturbed
    <3>4. CASE last >= 0 /\ first \in 0..(rowCount - 1)
      <4>1. first - n >= 0
        <5>1. pc # "relock"
          BY <1>2, <3>1, <3>4
        <5>2. QED
          BY <1>2, <5>1 DEF MustFlush
      <4>2. last' >= 0 /\ first' \in 0..(rowCount - 1)
        BY <1>2, <2>1, <2>2, <3>4, <4>1
      <4>3. QED
        BY <1>1, <1>2, <2>1, <3>1, <4>2 DEF Undisturbed
    <3>5. QED
      BY <3>1, <3>3, <3>4
  <2>8. Window'
    <3> SUFFICES ASSUME Placed, NEW r \in 1..rowCount
                 PROVE  s[r] = At(text, screenOffset + n + r)
      BY <1>1, <1>2, <2>1, <2>4 DEF Window
    <3>1. CASE r <= rowCount - n
      <4>1. r \in 1..(rowCount - n) /\ r + n \in 1..rowCount
        BY <1>2, <2>2, <3>1
      <4>2. s[r] = screen[r + n] /\ screen[r + n] = At(text, screenOffset + (r + n))
        BY <2>3, <4>1 DEF ScreenInvariant, Window
      <4>3. screenOffset + (r + n) = screenOffset + n + r
        BY <1>2
      <4>4. QED
        BY <4>2, <4>3
    <3>2. CASE ~(r <= rowCount - n)
      <4>1. r \in (rowCount - n + 1)..rowCount
        BY <1>2, <2>2, <3>2
      <4>2. s[r] = blank
        BY <2>3, <4>1
      <4>3. screenOffset + n + r > screenOffset + rowCount
        BY <1>2, <2>2, <3>2
      <4>4. At(text, screenOffset + n + r) = blank
        BY <1>2, <4>3 DEF ScreenInvariant, Beyond, At
      <4>5. QED
        BY <4>2, <4>4
    <3>3. QED
      BY <3>1, <3>2
  <2>9. Beyond'
    <3> SUFFICES ASSUME Placed, NEW i \in Lines, i > screenOffset + n + rowCount
                 PROVE  text[i] = blank
      BY <2>1, <2>4 DEF Beyond
    <3>1. i > screenOffset + rowCount
      BY <1>2, <2>2 DEF Lines
    <3>2. QED
      BY <3>1 DEF ScreenInvariant, Beyond
  <2>10. Stale'
    <3> SUFFICES ASSUME Placed, NEW i \in Lines, At(view, i) # text[i]
                 PROVE  /\ i > screenOffset + n /\ first' <= i - (screenOffset + n) - 1
                        /\ last' >= 0
                        /\ screenOffset + n = 0 => i - 1 <= Largest(last', Len(view) - 1)
      BY <1>1, <2>1, <2>4 DEF Stale
    <3>1. pc = "parse" /\ ~MustFlush(n)
      BY DEF ScreenInvariant, Agree, Handed
    <3>2. first - n >= 0
      BY <1>2, <3>1 DEF MustFlush
    <3>3. i > screenOffset /\ first <= i - screenOffset - 1
      BY DEF ScreenInvariant, Stale
    <3>4. i <= screenOffset + rowCount
      <4>1. CASE i > screenOffset + rowCount
        <5>1. text[i] = blank
          BY <4>1 DEF ScreenInvariant, Beyond
        <5>2. Len(view) <= screenOffset + rowCount
          BY <2>5 DEF ScreenInvariant, Fits
        <5>3. At(view, i) = blank
          BY <1>2, <4>1, <5>2, AtSeq DEF Lines
        <5>4. QED
          BY <5>1, <5>3
      <4>2. QED
        BY <1>2, <4>1 DEF Lines
    <3>5. first <= rowCount - 1 /\ first' = first - n
      BY <1>2, <2>1, <3>3, <3>4 DEF Lines
    <3>6. i > screenOffset + n /\ first' <= i - (screenOffset + n) - 1 /\ last' >= 0
      BY <1>2, <2>1, <2>2, <3>2, <3>3, <3>5 DEF Lines
    <3>7. screenOffset + n = 0 => i - 1 <= Largest(last', Len(view) - 1)
      BY <1>2, <2>1, <2>2, <3>4 DEF Lines, Largest
    <3>8. QED
      BY <3>6, <3>7
  <2>11. QED
    BY <1>3, <2>6, <2>7, <2>8, <2>9, <2>10 DEF ScreenInvariant
<1>6. QED
  BY <1>4, <1>5

LEMMA ScrollKeeps ==
  ASSUME ScreenInvariant, TypeOK', Command, NEW n \in Nat, scrollFeed(n)
  PROVE  ScreenInvariant'
<1> DEFINE repeat == Smallest(n, rowCount)
<1>1. TypeOK /\ pc = "parse" /\ ~raised
  BY DEF ScreenInvariant, Command
<1>2. repeat \in 0..rowCount /\ repeat \in Nat /\ rowCount \in Nat /\ screenOffset \in Nat
  BY <1>1, RepeatBounds, ScreenAssumption DEF TypeOK
<1>3. /\ screenOffset + rowCount + repeat <= MaxLines
      /\ \/ MustFlush(repeat) /\ flushScreen(repeat)
         \/ /\ ~MustFlush(repeat) /\ addLineNow(repeat) /\ Parsing /\ UNCHANGED text
            /\ exposed' = (exposed \/ repeat = 0)
  BY DEF scrollFeed
<1> HIDE DEF repeat
<1>4. MaxLines \in Nat /\ MaxRows \in Nat
  BY ScreenAssumption
<1>5. CASE MustFlush(repeat) /\ flushScreen(repeat)
  <2>1. ~exposed => repeat \in 1..rowCount
    <3> SUFFICES ASSUME ~exposed PROVE repeat # 0
      BY <1>2
    <3>1. first >= 0
      <4>1. last >= 0
        BY <1>5 DEF flushScreen
      <4>2. (last = -1 /\ first = IntMax) \/ (last >= 0 /\ first \in 0..(rowCount - 1))
        BY DEF ScreenInvariant, Undisturbed
      <4>3. QED
        BY <1>2, <4>1, <4>2
    <3>2. first - repeat < 0
      BY <1>5 DEF MustFlush
    <3>3. first \in Int
      BY <1>1 DEF TypeOK
    <3>4. QED
      BY <1>2, <3>1, <3>2, <3>3
  <2>2. repeat <= MaxLines
    BY <1>2, <1>3, <1>4
  <2>3. repeat \in Int
    BY <1>2
  <2>4. QED
    BY <1>1, <1>3, <1>5, <2>1, <2>2, <2>3, FlushKeeps
<1>6. CASE /\ ~MustFlush(repeat) /\ addLineNow(repeat) /\ Parsing /\ UNCHANGED text
           /\ exposed' = (exposed \/ repeat = 0)
  <2>1. /\ UNCHANGED <<viewVars, block, pc, pending, ui, newRows>>
        /\ ~exposed' => ~exposed /\ repeat # 0
    BY <1>6 DEF Parsing
  <2>2. ~block
    BY <1>1 DEF ScreenInvariant, InFrame
  <2>3. screenOffset + rowCount + repeat <= MaxLines + MaxRows
    BY <1>2, <1>3, <1>4
  <2>4. repeat <= rowCount
    BY <1>2
  <2>5. pending' = End
    BY <1>1, <2>1 DEF ScreenInvariant, InFrame
  <2>6. QED
    BY <1>1, <1>2, <1>6, <2>1, <2>2, <2>3, <2>4, <2>5, AddKeeps
<1>7. QED
  BY <1>3, <1>5, <1>6

\* A command that writes on a row of the screen, or blanks them all: what it
\* writes is on the screen and in the history, and the rows are marked.
LEMMA EditKeeps ==
  ASSUME ScreenInvariant, TypeOK', Command, Parsing,
         UNCHANGED <<rowCount, screenOffset, curY, raised, exposed>>,
         first' <= first, last' >= last, last' >= 0,
         ~exposed => first' >= 0 /\ first' < rowCount /\ last' < rowCount,
         NEW Edited \in SUBSET (1..rowCount),
         \A r \in Edited : first' <= r - 1 /\ r - 1 <= last',
         \A r \in (1..rowCount) \ Edited : screen'[r] = screen[r],
         \A i \in Lines : i - screenOffset \notin Edited => text'[i] = text[i],
         ~raised /\ ~displaced =>
           \A r \in Edited : screen'[r] = text'[screenOffset + r]
  PROVE  ScreenInvariant'
<1>1. /\ UNCHANGED <<view, newline, displaced, block, pc, pending, ui, exposed,
                     rowCount, screenOffset, curY, raised>>
      /\ pc = "parse"
  BY DEF Parsing, viewVars, Command
<1>2. /\ first' \in Int /\ last' \in Int /\ rowCount \in Nat /\ screenOffset \in Nat
      /\ first \in Int /\ last \in Int
      /\ DOMAIN text = Lines /\ DOMAIN text' = Lines /\ Len(view) \in Nat
  BY ScreenAssumption DEF ScreenInvariant, TypeOK
<1>3. Placed' = Placed /\ (Placed => ~raised /\ ~displaced)
  BY <1>1 DEF Placed, Running
<1>4. NewlineDisplaces' /\ InFrame' /\ Fits' /\ Agree'
  BY <1>1 DEF ScreenInvariant, NewlineDisplaces, InFrame, Fits, Agree, Handed
<1>5. Undisturbed'
  <2> SUFFICES ASSUME ~exposed PROVE Undisturbed'
    BY <1>1 DEF Undisturbed
  <2>1. /\ ~raised /\ ~displaced /\ curY < rowCount
        /\ pending # End => pending \in 1..rowCount
    BY DEF ScreenInvariant, Undisturbed
  <2>2. last' >= 0 /\ last' < rowCount /\ first' \in 0..(rowCount - 1)
    BY <1>2
  <2>3. QED
    BY <1>1, <2>1, <2>2 DEF Undisturbed
<1>6. Window'
  <2> SUFFICES ASSUME Placed, NEW r \in 1..rowCount
               PROVE  screen'[r] = At(text', screenOffset + r)
    BY <1>1, <1>3 DEF Window
  <2>1. screenOffset + r \in Lines /\ (screenOffset + r) - screenOffset = r
    BY <1>2, <1>3, ScreenAssumption DEF ScreenInvariant, Fits, Lines
  <2>2. /\ At(text', screenOffset + r) = text'[screenOffset + r]
        /\ At(text, screenOffset + r) = text[screenOffset + r]
    BY <1>2, <2>1 DEF At
  <2>3. CASE r \in Edited
    BY <1>3, <2>2, <2>3
  <2>4. CASE r \notin Edited
    <3>1. screen'[r] = screen[r] /\ text'[screenOffset + r] = text[screenOffset + r]
      BY <2>1, <2>4
    <3>2. screen[r] = At(text, screenOffset + r)
      BY DEF ScreenInvariant, Window
    <3>3. QED
      BY <2>2, <3>1, <3>2
  <2>5. QED
    BY <2>3, <2>4
<1>7. Beyond'
  <2> SUFFICES ASSUME Placed, NEW i \in Lines, i > screenOffset + rowCount
               PROVE  text'[i] = blank
    BY <1>1, <1>3 DEF Beyond
  <2>1. i - screenOffset \notin Edited
    BY <1>2 DEF Lines
  <2>2. QED
    BY <2>1 DEF ScreenInvariant, Beyond
<1>8. Stale'
  <2> SUFFICES ASSUME Placed, NEW i \in Lines, At(view, i) # text'[i]
               PROVE  /\ i > screenOffset /\ first' <= i - screenOffset - 1 /\ last' >= 0
                      /\ screenOffset = 0 => i - 1 <= Largest(last', Len(view) - 1)
    BY <1>1, <1>3 DEF Stale
  <2>1. CASE i - screenOffset \in Edited
    <3>1. /\ i - screenOffset \in 1..rowCount
          /\ first' <= (i - screenOffset) - 1 /\ (i - screenOffset) - 1 <= last'
      BY <2>1
    <3>2. QED
      BY <1>2, <3>1 DEF Lines, Largest
  <2>2. CASE i - screenOffset \notin Edited
    <3>1. At(view, i) # text[i]
      BY <2>2
    <3>2. QED
      BY <1>2, <3>1, WiderStale
  <2>3. QED
    BY <2>1, <2>2
<1>9. QED
  BY <1>4, <1>5, <1>6, <1>7, <1>8 DEF ScreenInvariant

LEMMA WriteKeeps ==
  ASSUME ScreenInvariant, TypeOK', WriteChar
  PROVE  ScreenInvariant'
<1>1. Command /\ Parsing /\ UNCHANGED exposed
  BY DEF WriteChar
<1>2. /\ curY \in Nat /\ rowCount \in Nat /\ screenOffset \in Nat
      /\ first \in Int /\ last \in Int /\ screen \in [1..rowCount -> Line]
  BY ScreenAssumption DEF ScreenInvariant, TypeOK
<1>3. CASE curY >= rowCount
  <2>1. raised' /\ exposed'
    BY <1>1, <1>2, <1>3 DEF WriteChar, ScreenInvariant, Undisturbed
  <2>2. UNCHANGED <<newline, displaced, block, pc, pending>>
    BY <1>1 DEF Parsing, viewVars
  <2>3. NewlineDisplaces' /\ InFrame'
    BY <2>2 DEF ScreenInvariant, NewlineDisplaces, InFrame
  <2>4. QED
    BY <2>1, <2>3
       DEF ScreenInvariant, Fits, Undisturbed, Window, Beyond, Stale, Agree, Placed, Running
<1>4. CASE ~(curY >= rowCount)
  <2>1. PICK v \in Line \ {blank} :
          /\ screen' = [screen EXCEPT ![curY + 1] = v]
          /\ text' = [i \in Lines |-> IF i = screenOffset + curY + 1
                                      THEN v ELSE text[i]]
          /\ first' = Low(first, curY) /\ last' = High(last, curY)
          /\ UNCHANGED <<rowCount, screenOffset, curY, raised>>
    BY <1>4 DEF WriteChar
  <2>2. /\ first' <= first /\ first' <= curY /\ first' \in {first, curY}
        /\ last' >= last /\ last' >= curY /\ last' \in {last, curY}
    BY <1>2, <2>1, MarksWiden
  <2>3. ~exposed => first' >= 0 /\ first' < rowCount /\ last' < rowCount
    <3> SUFFICES ASSUME ~exposed PROVE first' >= 0 /\ first' < rowCount /\ last' < rowCount
      OBVIOUS
    <3>1. /\ curY < rowCount /\ last < rowCount
          /\ first = IntMax \/ first \in 0..(rowCount - 1)
      BY DEF ScreenInvariant, Undisturbed
    <3>2. QED
      BY <1>2, <2>2, <3>1, IntMaxType
  <2>4. {curY + 1} \in SUBSET (1..rowCount)
    BY <1>2, <1>4
  <2>5. \A r \in {curY + 1} : first' <= r - 1 /\ r - 1 <= last'
    BY <1>2, <2>2
  <2>6. \A r \in (1..rowCount) \ {curY + 1} : screen'[r] = screen[r]
    BY <1>2, <2>1
  <2>7. \A i \in Lines : i - screenOffset \notin {curY + 1} => text'[i] = text[i]
    BY <1>2, <2>1
  <2>8. ~raised /\ ~displaced =>
          \A r \in {curY + 1} : screen'[r] = text'[screenOffset + r]
    <3> SUFFICES ASSUME ~raised, ~displaced
                 PROVE  screen'[curY + 1] = text'[screenOffset + (curY + 1)]
      OBVIOUS
    <3>1. screenOffset + (curY + 1) \in Lines
      BY <1>2, <1>4, ScreenAssumption DEF ScreenInvariant, Fits, Lines
    <3>2. screenOffset + (curY + 1) = screenOffset + curY + 1 /\ curY + 1 \in 1..rowCount
      BY <1>2, <1>4
    <3>3. QED
      BY <1>2, <2>1, <3>1, <3>2
  <2>9. last' >= 0
    BY <1>2, <2>2
  <2>10. QED
    BY <1>1, <2>1, <2>2, <2>3, <2>4, <2>5, <2>6, <2>7, <2>8, <2>9, EditKeeps
<1>5. QED
  BY <1>3, <1>4

LEMMA BlankKeeps ==
  ASSUME ScreenInvariant, TypeOK', deleteInScreen
  PROVE  ScreenInvariant'
<1>1. /\ Command /\ Parsing
      /\ UNCHANGED <<rowCount, screenOffset, curY, raised, exposed>>
      /\ screen' = Blanks(rowCount)
      /\ text' = [i \in Lines |->
                    IF i \in (screenOffset + 1)..(screenOffset + rowCount)
                    THEN blank ELSE text[i]]
      /\ first' = Low(first, 0) /\ last' = High(last, rowCount - 1)
  BY DEF deleteInScreen
<1>2. /\ rowCount \in Nat \ {0} /\ screenOffset \in Nat
      /\ first \in Int /\ last \in Int
  BY ScreenAssumption DEF ScreenInvariant, TypeOK
<1>3. /\ first' <= first /\ first' <= 0 /\ first' \in {first, 0}
      /\ last' >= last /\ last' >= rowCount - 1 /\ last' \in {last, rowCount - 1}
  BY <1>1, <1>2 DEF Low, High, Smallest, Largest
<1>4. ~exposed => first' >= 0 /\ first' < rowCount /\ last' < rowCount
  <2> SUFFICES ASSUME ~exposed PROVE first' >= 0 /\ first' < rowCount /\ last' < rowCount
    OBVIOUS
  <2>1. last < rowCount /\ (first = IntMax \/ first \in 0..(rowCount - 1))
    BY DEF ScreenInvariant, Undisturbed
  <2>2. QED
    BY <1>2, <1>3, <2>1, IntMaxType
<1>5. \A r \in 1..rowCount : first' <= r - 1 /\ r - 1 <= last'
  BY <1>1, <1>2 DEF Low, High, Smallest, Largest
<1>6. \A i \in Lines : i - screenOffset \notin 1..rowCount => text'[i] = text[i]
  BY <1>1, <1>2 DEF Lines
<1>7. ~raised /\ ~displaced =>
        \A r \in 1..rowCount : screen'[r] = text'[screenOffset + r]
  <2> SUFFICES ASSUME ~raised, ~displaced, NEW r \in 1..rowCount
               PROVE  screen'[r] = text'[screenOffset + r]
    OBVIOUS
  <2>1. screenOffset + r \in Lines
    BY <1>2, ScreenAssumption DEF ScreenInvariant, Fits, Lines
  <2>2. screenOffset + r \in (screenOffset + 1)..(screenOffset + rowCount)
    BY <1>2
  <2>3. text'[screenOffset + r] = blank
    BY <1>1, <2>1, <2>2
  <2>4. screen'[r] = blank
    BY <1>1, <1>2, BlanksSeq
  <2>5. QED
    BY <2>3, <2>4
<1>8. last' >= 0 /\ (1..rowCount) \in SUBSET (1..rowCount)
  BY <1>1, <1>2 DEF High, Largest
<1>9. QED
  BY <1>1, <1>3, <1>4, <1>5, <1>6, <1>7, <1>8, EditKeeps

\* flushScreen returns: to the buffer, or to the scroll that waited.
LEMMA RelockKeeps ==
  ASSUME ScreenInvariant, TypeOK', Relock
  PROVE  ScreenInvariant'
<1>1. /\ pc = "relock" /\ ~raised /\ pending' = End
      /\ UNCHANGED <<viewVars, block, budget, ui, newRows, history>>
      /\ ~block
  BY DEF Relock, ScreenInvariant, InFrame
<1>2. CASE pending = End
  <2>1. pc' = "idle" /\ UNCHANGED <<screenVars, raised>>
    BY <1>1, <1>2 DEF Relock
  <2>2. UNCHANGED <<text, exposed, view, displaced, rowCount, screenOffset, first, last, curY>>
    BY <1>1, <2>1 DEF history, viewVars, screenVars
  <2>3. NewlineDisplaces' /\ Window' /\ Beyond' /\ Stale'
    BY <1>1, <2>1, <2>2, QuietText
  <2>4. InFrame'
    BY <1>1 DEF InFrame
  <2>5. Fits'
    BY <1>1, <2>1, <2>2 DEF ScreenInvariant, Fits
  <2>6. Undisturbed'
    BY <1>1, <2>1, <2>2 DEF ScreenInvariant, Undisturbed
  <2>7. Agree'
    BY <1>1, <2>1, <2>2 DEF ScreenInvariant, Agree, Handed, Placed, Running
  <2>8. QED
    BY <2>3, <2>4, <2>5, <2>6, <2>7 DEF ScreenInvariant
<1>3. CASE pending # End
  <2>1. pc' = "parse" /\ addLineNow(pending)
    BY <1>1, <1>3 DEF Relock
  <2>2. /\ pending \in Nat /\ rowCount \in Nat /\ rowCount <= MaxRows
        /\ screenOffset \in Nat /\ MaxLines \in Nat /\ MaxRows \in Nat
    BY <1>3, ScreenAssumption DEF ScreenInvariant, TypeOK
  <2>3. ~exposed => pending # 0 /\ pending <= rowCount
    BY <1>3, <2>2 DEF ScreenInvariant, Undisturbed
  <2>4. ~displaced => screenOffset + rowCount + pending <= MaxLines + MaxRows
    <3> SUFFICES ASSUME ~displaced
                 PROVE  screenOffset + rowCount + pending <= MaxLines + MaxRows
      OBVIOUS
    <3>1. /\ pending <= MaxLines
          /\ \/ screenOffset + rowCount + pending <= MaxLines
             \/ screenOffset + rowCount <= MaxRows
      BY <1>1, <1>3 DEF ScreenInvariant, Fits
    <3>2. QED
      BY <2>2, <3>1
  <2>5. UNCHANGED <<text, exposed>>
    BY <1>1 DEF history
  <2>6. QED
    BY <1>1, <2>1, <2>2, <2>3, <2>4, <2>5, AddKeeps
<1>4. QED
  BY <1>2, <1>3

LEMMA EndKeeps ==
  ASSUME ScreenInvariant, TypeOK', EndOfData
  PROVE  ScreenInvariant'
<1>1. pc = "parse" /\ ~raised
  BY DEF EndOfData
<1>2. CASE flushScreen(End)
  <2>1. End \in Int
    BY DEF End
  <2>2. QED
    BY <1>1, <1>2, <2>1, FlushKeeps
<1>3. CASE ~flushScreen(End)
  <2>1. /\ last < 0 /\ pc' = "idle"
        /\ UNCHANGED <<screenVars, viewVars, block, pending, ui, newRows, raised, history>>
    BY <1>3 DEF EndOfData
  <2>2. UNCHANGED <<text, exposed, view, displaced, rowCount, screenOffset, first, last, curY>>
    BY <2>1 DEF history, viewVars, screenVars
  <2>3. NewlineDisplaces' /\ Window' /\ Beyond' /\ Stale'
    BY <2>1, <2>2, QuietText
  <2>4. InFrame'
    BY <1>1, <2>1 DEF ScreenInvariant, InFrame
  <2>5. Fits'
    BY <2>1, <2>2 DEF ScreenInvariant, Fits
  <2>6. Undisturbed'
    BY <2>1, <2>2 DEF ScreenInvariant, Undisturbed
  <2>7. Agree'
    <3> SUFFICES ASSUME Placed, NEW i \in Lines PROVE At(view, i) = text[i]
      BY <2>1, <2>2 DEF Agree, Placed, Running
    <3>1. At(view, i) # text[i] => last >= 0
      BY DEF ScreenInvariant, Stale
    <3>2. last \in Int
      BY DEF ScreenInvariant, TypeOK
    <3>3. QED
      BY <2>1, <3>1, <3>2
  <2>8. QED
    BY <2>3, <2>4, <2>5, <2>6, <2>7 DEF ScreenInvariant
<1>4. QED
  BY <1>2, <1>3

LEMMA ParseKeeps ==
  ASSUME ScreenInvariant, Parse
  PROVE  ScreenInvariant'
<1>1. TypeOK /\ TypeOK'
  BY ParseTypes DEF ScreenInvariant
<1>2. /\ rowCount \in Nat \ {0} /\ curY \in Nat
      /\ ~exposed => curY < rowCount
  BY <1>1, ScreenAssumption DEF TypeOK, ScreenInvariant, Undisturbed
<1>3. CASE cursorToRow
  <2>1. PICK row \in 0..(MaxRows - 1) : CursorTo(Smallest(row, rowCount - 1))
    BY <1>3 DEF cursorToRow
  <2>2. Smallest(row, rowCount - 1) \in Nat /\ Smallest(row, rowCount - 1) < rowCount
    BY <1>2 DEF Smallest
  <2>3. QED
    BY <1>1, <1>3, <2>1, <2>2, CursorKeeps DEF cursorToRow
<1>4. CASE cursorUp
  <2>1. /\ Largest(curY - 1, 0) \in Nat
        /\ ~exposed => Largest(curY - 1, 0) < rowCount
    BY <1>2 DEF Largest
  <2>2. QED
    BY <1>1, <1>4, <2>1, CursorKeeps DEF cursorUp
<1>5. CASE cursorDown
  <2>1. Smallest(curY + 1, rowCount - 1) \in Nat /\ Smallest(curY + 1, rowCount - 1) < rowCount
    BY <1>2 DEF Smallest
  <2>2. QED
    BY <1>1, <1>5, <2>1, CursorKeeps DEF cursorDown
<1>6. CASE LineFeed
  <2>1. CASE scrollFeed(1)
    <3>1. 1 \in Nat
      OBVIOUS
    <3>2. QED
      BY <1>1, <1>6, <2>1, <3>1, ScrollKeeps DEF LineFeed
  <2>2. CASE curY < rowCount - 1 /\ CursorTo(curY + 1)
    <3>1. curY + 1 \in Nat /\ curY + 1 < rowCount
      BY <1>2, <2>2
    <3>2. QED
      BY <1>1, <1>6, <2>2, <3>1, CursorKeeps DEF LineFeed
  <2>3. QED
    BY <1>6, <2>1, <2>2 DEF LineFeed
<1>7. CASE ScrollUp
  <2>1. PICK n \in ScrollCounts : scrollFeed(n)
    BY <1>7 DEF ScrollUp
  <2>2. n \in Nat
    BY ScreenAssumption
  <2>3. QED
    BY <1>1, <1>7, <2>1, <2>2, ScrollKeeps DEF ScrollUp
<1>8. QED
  BY <1>1, <1>3, <1>4, <1>5, <1>6, <1>7, WriteKeeps, BlankKeeps, EndKeeps, RelockKeeps
     DEF Parse

\* The block only raises when the main thread has disturbed the screen.
LEMMA RaisedKeeps ==
  ASSUME ScreenInvariant, TypeOK', Unlocked.raises,
         raised' = TRUE, block' = FALSE, UNCHANGED <<viewVars, history, pending>>,
         pending # End => pc' \in {"flush", "relock"}
  PROVE  ScreenInvariant'
<1>1. exposed /\ UNCHANGED <<newline, displaced, exposed>>
  BY UnlockedUndisturbed DEF viewVars, history
<1>2. NewlineDisplaces' /\ InFrame'
  BY <1>1 DEF ScreenInvariant, NewlineDisplaces, InFrame
<1>3. Fits' /\ Undisturbed' /\ Window' /\ Beyond' /\ Stale' /\ Agree'
  BY <1>1 DEF Fits, Undisturbed, Window, Beyond, Stale, Agree, Placed, Running
<1>4. QED
  BY <1>2, <1>3 DEF ScreenInvariant

\* The view is right once the block has run: so it is everywhere that it is
\* stale nowhere.
LEMMA RightIsNotStale ==
  ASSUME Placed' => \A i \in Lines : At(view', i) = text'[i]
  PROVE  Stale' /\ Agree'
  BY DEF Stale, Agree

LEMMA FlushOnUIKeeps ==
  ASSUME ScreenInvariant, TypeOK', flushScreenOnUI
  PROVE  ScreenInvariant'
<1>1. /\ pc = "flush" /\ ui = "idle" /\ ~raised /\ pc' = "relock"
      /\ UNCHANGED <<pending, budget, ui, newRows>>
  BY DEF flushScreenOnUI
<1>2. CASE Unlocked.raises
  <2>1. block' = FALSE /\ raised' = TRUE /\ UNCHANGED <<screenVars, viewVars, history>>
    BY <1>2 DEF flushScreenOnUI, AfterBlock
  <2>2. QED
    BY <1>1, <1>2, <2>1, RaisedKeeps
<1>3. CASE ~Unlocked.raises
  <2>1. /\ block' = FALSE /\ view' = Unlocked.view /\ newline' = Unlocked.newline
        /\ displaced' = (displaced \/ Unlocked.newline)
        /\ first' = Unlocked.first /\ last' = Unlocked.last
        /\ UNCHANGED <<raised, screen, rowCount, screenOffset, curY, text, exposed>>
    BY <1>3 DEF flushScreenOnUI, AfterBlock, history
  <2>2. NewlineDisplaces' /\ InFrame'
    BY <1>1, <2>1 DEF NewlineDisplaces, InFrame
  <2>3. Placed' => Placed /\ ~Unlocked.newline
    BY <1>1, <2>1 DEF Placed, Running
  <2>4. Window' /\ Beyond'
    BY <2>1, <2>3 DEF ScreenInvariant, Window, Beyond
  <2>5. Stale' /\ Agree'
    <3>1. Placed' => \A i \in Lines : At(view', i) = text'[i]
      BY <1>1, <1>3, <2>1, <2>3, UnlockedAgrees
    <3>2. QED
      BY <3>1, RightIsNotStale
  <2>6. Fits'
    <3> SUFFICES ASSUME ~raised, ~displaced, ~Unlocked.newline PROVE Fits'
      BY <2>1 DEF Fits
    <3>1. Len(view') <= screenOffset + rowCount
      BY <1>3, <2>1, UnlockedFits
    <3>2. QED
      BY <1>1, <2>1, <3>1 DEF ScreenInvariant, Fits
  <2>7. Undisturbed'
    <3> SUFFICES ASSUME ~exposed PROVE Undisturbed'
      BY <2>1 DEF Undisturbed
    <3>1. /\ ~raised /\ ~displaced /\ curY < rowCount /\ block
          /\ pending # End => pending \in 1..rowCount
      BY <1>1 DEF ScreenInvariant, Undisturbed
    <3>2. ~Unlocked.newline
      BY UnlockedUndisturbed
    <3>3. first' = IntMax /\ last' = -1
      BY <2>1, <3>1, FlushedIs, UnlockedIs
    <3>4. rowCount \in Nat
      BY ScreenAssumption DEF ScreenInvariant, TypeOK
    <3>5. ~displaced' /\ ~raised'
      BY <2>1, <3>1, <3>2
    <3>6. QED
      BY <1>1, <2>1, <3>1, <3>3, <3>4, <3>5 DEF Undisturbed
  <2>8. QED
    BY <2>2, <2>4, <2>5, <2>6, <2>7 DEF ScreenInvariant
<1>4. QED
  BY <1>2, <1>3

LEMMA InHistory ==
  ASSUME NEW o \in Nat, NEW n \in Nat, o + n <= MaxLines + MaxRows, NEW r \in 1..n
  PROVE  o + r \in Lines
  BY ScreenAssumption DEF Lines

LEMMA BelowView ==
  ASSUME NEW o \in Nat, NEW n \in Nat, NEW len \in Nat, o + n >= len,
         NEW i \in Lines, i > o + n
  PROVE  i \in Int /\ i \notin 1..len
  BY DEF Lines

\* The rebuilt screen has no line of the view above it that does not fit, and
\* is no lower than it was, or starts the history anew.
LEMMA RebuiltFits ==
  ASSUME ScreenInvariant, NEW rows \in 1..MaxRows,
         ~raised, ~displaced, ~Unlocked.raises, ~Unlocked.newline,
         view' = Unlocked.view, rowCount' = rows, pending' = pending,
         screenOffset' \in Nat,
         screenOffset' + rows >= Len(Unlocked.view),
         screenOffset' + rows = rows \/ screenOffset' + rows = Len(Unlocked.view)
  PROVE  Fits'
<1>1. Len(Unlocked.view) <= screenOffset + rowCount
  BY UnlockedFits
<1>2. /\ screenOffset + rowCount <= MaxLines + MaxRows
      /\ pending # End =>
           /\ pending <= MaxLines
           /\ \/ screenOffset + rowCount + pending <= MaxLines
              \/ screenOffset + rowCount <= MaxRows
  BY DEF ScreenInvariant, Fits
<1>3. TypeOK
  BY DEF ScreenInvariant
<1>4. Unlocked.view \in Seq(Line)
  BY <1>3, UnlockedTyped
<1>5. Len(Unlocked.view) \in Nat
  BY <1>4
<1>6. screenOffset \in Nat /\ rowCount \in Nat /\ pending \in Int
  BY <1>3, ScreenAssumption DEF TypeOK, End
<1>7. /\ screenOffset' + rows <= MaxLines + MaxRows
      /\ (screenOffset + rowCount + pending <= MaxLines \/ screenOffset + rowCount <= MaxRows) =>
           (screenOffset' + rows + pending <= MaxLines \/ screenOffset' + rows <= MaxRows)
  <2>1. screenOffset + rowCount <= MaxLines + MaxRows
    BY <1>2
  <2> DEFINE o == screenOffset'
             len == Len(Unlocked.view)
             h == screenOffset + rowCount
  <2>2. /\ o \in Nat /\ len \in Nat /\ h \in Nat /\ len <= h /\ pending \in Int
        /\ h <= MaxLines + MaxRows
        /\ o + rows = rows \/ o + rows = len
        /\ rows \in 1..MaxRows /\ MaxRows \in Nat /\ MaxLines \in Nat
    <3>1. o \in Nat /\ len \in Nat /\ h \in Nat /\ pending \in Int
      BY <1>5, <1>6
    <3>2. len <= h /\ h <= MaxLines + MaxRows
      BY <1>1, <2>1
    <3>3. o + rows = rows \/ o + rows = len
      OBVIOUS
    <3>4. MaxRows \in Nat /\ MaxLines \in Nat
      BY ScreenAssumption
    <3>5. QED
      BY <3>1, <3>2, <3>3, <3>4
  <2> HIDE DEF o, len, h
  <2>3. /\ o + rows <= MaxLines + MaxRows
        /\ (h + pending <= MaxLines \/ h <= MaxRows) =>
             (o + rows + pending <= MaxLines \/ o + rows <= MaxRows)
    BY <2>2
  <2>4. QED
    BY <2>3 DEF o, h
<1>8. QED
  BY <1>2, <1>7 DEF Fits

\* A screen taken from the end of a view that is right is a window on it.
LEMMA RebuiltText ==
  ASSUME ScreenInvariant, TypeOK', NEW rows \in 1..MaxRows,
         ~raised, ~displaced, ~Unlocked.raises, ~Unlocked.newline,
         view' = Unlocked.view, rowCount' = rows,
         screenOffset' \in Nat, screenOffset' + rows <= MaxLines + MaxRows,
         screenOffset' + rows >= Len(Unlocked.view),
         \A r \in 1..rows : screen'[r] = At(Unlocked.view, screenOffset' + r),
         \A i \in Lines : At(Unlocked.view, i) = text'[i]
  PROVE  Window' /\ Beyond' /\ Stale' /\ Agree'
<1>1. rows \in Nat /\ MaxLines \in Nat /\ MaxRows \in Nat /\ DOMAIN text' = Lines
  BY ScreenAssumption DEF TypeOK
<1>2. Stale' /\ Agree'
  BY RightIsNotStale
<1>3. Window'
  <2> SUFFICES ASSUME NEW r \in 1..rows
               PROVE  screen'[r] = At(text', screenOffset' + r)
    BY DEF Window
  <2>1. screenOffset' + r \in Lines
    BY <1>1, InHistory, Zenon
  <2>2. At(text', screenOffset' + r) = text'[screenOffset' + r]
    BY <1>1, <2>1 DEF At
  <2>3. QED
    BY <2>1, <2>2
<1>4. Beyond'
  <2> SUFFICES ASSUME NEW i \in Lines, i > screenOffset' + rows PROVE text'[i] = blank
    BY DEF Beyond
  <2>1. i \in Int /\ i \notin 1..Len(Unlocked.view)
    <3>1. Len(Unlocked.view) \in Nat
      BY UnlockedTyped DEF ScreenInvariant
    <3>2. QED
      BY <1>1, <3>1, BelowView, Zenon
  <2>2. At(Unlocked.view, i) = blank
    BY <2>1, UnlockedTyped, AtSeq DEF ScreenInvariant
  <2>3. QED
    BY <2>2
<1>5. QED
  BY <1>2, <1>3, <1>4

LEMMA SetWidthKeeps ==
  ASSUME ScreenInvariant, TypeOK', setWidth
  PROVE  ScreenInvariant'
<1>1. /\ ui = "resize" /\ pc # "parse" /\ ~raised /\ ui' = "idle"
      /\ UNCHANGED <<pc, pending, budget, newRows>>
  BY DEF setWidth, LockFree
<1>2. /\ TypeOK /\ newRows \in 1..MaxRows /\ newRows \in Nat \ {0} /\ curY \in Nat
      /\ pending # End => pc \in {"flush", "relock"}
  BY ScreenAssumption DEF ScreenInvariant, TypeOK, InFrame
<1>3. CASE Unlocked.raises
  <2>1. block' = FALSE /\ raised' = TRUE /\ UNCHANGED <<screenVars, viewVars, history>>
    BY <1>3 DEF setWidth, AfterBlock
  <2>2. QED
    BY <1>1, <1>2, <1>3, <2>1, RaisedKeeps
<1>4. CASE ~Unlocked.raises
  <2>1. /\ block' = FALSE /\ view' = Unlocked.view /\ newline' = Unlocked.newline
        /\ displaced' = (displaced \/ Unlocked.newline)
        /\ setContent(newRows, Unlocked.first, Unlocked.last, curY)
        /\ exposed' /\ UNCHANGED <<raised, text>>
    BY <1>4 DEF setWidth, AfterBlock
  <2>2. NewlineDisplaces' /\ InFrame' /\ Undisturbed'
    BY <1>1, <1>2, <2>1 DEF NewlineDisplaces, InFrame, Undisturbed
  <2>3. /\ rowCount' = newRows /\ screenOffset' \in Nat
        /\ screenOffset' + newRows >= Len(Unlocked.view)
        /\ screenOffset' + newRows = newRows \/ screenOffset' + newRows = Len(Unlocked.view)
        /\ \A r \in 1..newRows : screen'[r] = At(Unlocked.view, screenOffset' + r)
    BY <1>2, <1>4, <2>1, UnlockedTyped, ContentTypes
  <2>4. CASE displaced'
    BY <2>2, <2>4 DEF ScreenInvariant, Fits, Window, Beyond, Stale, Agree, Placed
  <2>5. CASE ~displaced'
    <3>1. ~displaced /\ ~Unlocked.newline /\ Placed
      BY <1>1, <2>1, <2>5 DEF Placed, Running
    <3>2. Fits'
      BY <1>1, <1>2, <1>4, <2>1, <2>3, <3>1, RebuiltFits
    <3>3. screenOffset' + newRows <= MaxLines + MaxRows
      BY <1>1, <2>1, <2>3, <2>5, <3>2 DEF Fits
    <3>4. \A i \in Lines : At(Unlocked.view, i) = text'[i]
      BY <1>1, <1>4, <2>1, <3>1, UnlockedAgrees
    <3>5. Window' /\ Beyond' /\ Stale' /\ Agree'
      BY <1>1, <1>2, <1>4, <2>1, <2>3, <3>1, <3>3, <3>4, RebuiltText
    <3>6. QED
      BY <2>2, <3>2, <3>5 DEF ScreenInvariant
  <2>6. QED
    BY <2>4, <2>5
<1>5. QED
  BY <1>3, <1>4

LEMMA ResetKeeps ==
  ASSUME ScreenInvariant, TypeOK', resetScreen
  PROVE  ScreenInvariant'
<1>1. /\ ui = "reset" /\ pc # "parse" /\ ~raised /\ ui' = "idle"
      /\ UNCHANGED <<pc, pending, budget, newRows>>
  BY DEF resetScreen, LockFree
<1>2. /\ TypeOK /\ rowCount \in 1..MaxRows /\ rowCount \in Nat \ {0}
      /\ pending # End => pc \in {"flush", "relock"}
      /\ IntMax \in Int /\ -1 \in Int /\ 0 \in Nat
  BY ScreenAssumption, IntMaxType DEF ScreenInvariant, TypeOK, InFrame
<1>3. CASE Unlocked.raises
  <2>1. block' = FALSE /\ raised' = TRUE /\ UNCHANGED <<screenVars, viewVars, history>>
    BY <1>3 DEF resetScreen, AfterBlock
  <2>2. QED
    BY <1>1, <1>2, <1>3, <2>1, RaisedKeeps
<1>4. CASE ~Unlocked.raises
  <2>1. /\ block' = FALSE /\ view' = Unlocked.view /\ newline' = Unlocked.newline
        /\ displaced' = (displaced \/ Unlocked.newline)
        /\ setContent(rowCount, IntMax, -1, 0)
        /\ text' = [i \in Lines |-> At(Unlocked.view, i)]
        /\ exposed' = (exposed \/ pc # "idle") /\ UNCHANGED raised
    BY <1>4 DEF resetScreen, AfterBlock
  <2>2. NewlineDisplaces' /\ InFrame'
    BY <1>1, <1>2, <2>1 DEF NewlineDisplaces, InFrame
  <2>3. /\ rowCount' = rowCount /\ screenOffset' \in Nat
        /\ screenOffset' + rowCount >= Len(Unlocked.view)
        /\ screenOffset' + rowCount = rowCount
           \/ screenOffset' + rowCount = Len(Unlocked.view)
        /\ \A r \in 1..rowCount : screen'[r] = At(Unlocked.view, screenOffset' + r)
        /\ \/ curY' = 0 /\ first' = IntMax /\ last' = -1
           \/ /\ curY' \in 0..(rowCount - 1)
              /\ first' = Low(Low(IntMax, 0), curY') /\ last' = High(High(-1, 0), curY')
    BY <1>2, <1>4, <2>1, UnlockedTyped, ContentTypes
  <2>4. Undisturbed'
    <3> SUFFICES ASSUME ~exposed, pc = "idle" PROVE Undisturbed'
      BY <2>1 DEF Undisturbed
    <3>1. ~Unlocked.newline /\ ~displaced
      BY UnlockedUndisturbed DEF ScreenInvariant, Undisturbed
    <3>2. curY' \in 0..(rowCount - 1)
      BY <1>2, <2>3
    <3>3. (last' = -1 /\ first' = IntMax) \/ (last' \in 0..(rowCount - 1) /\ first' = 0)
      <4>1. CASE curY' = 0 /\ first' = IntMax /\ last' = -1
        BY <4>1
      <4>2. CASE first' = Low(Low(IntMax, 0), curY') /\ last' = High(High(-1, 0), curY')
        BY <1>2, <3>2, <4>2, IntMaxType DEF Low, High, Smallest, Largest
      <4>3. QED
        BY <2>3, <4>1, <4>2
    <3>4. pending' = End
      BY <1>1, <1>2
    <3>5. QED
      BY <1>1, <1>2, <2>1, <2>3, <3>1, <3>2, <3>3, <3>4 DEF Undisturbed
  <2>5. CASE displaced'
    BY <2>2, <2>4, <2>5 DEF ScreenInvariant, Fits, Window, Beyond, Stale, Agree, Placed
  <2>6. CASE ~displaced'
    <3>1. ~displaced /\ ~Unlocked.newline
      BY <2>1, <2>6
    <3>2. Fits'
      BY <1>1, <1>2, <1>4, <2>1, <2>3, <3>1, RebuiltFits
    <3>3. screenOffset' + rowCount <= MaxLines + MaxRows
      BY <1>1, <2>1, <2>3, <2>6, <3>2 DEF Fits
    <3>4. \A i \in Lines : At(Unlocked.view, i) = text'[i]
      BY <2>1
    <3>5. Window' /\ Beyond' /\ Stale' /\ Agree'
      BY <1>1, <1>2, <1>4, <2>1, <2>3, <3>1, <3>3, <3>4, RebuiltText
    <3>6. QED
      BY <2>2, <2>4, <3>2, <3>5 DEF ScreenInvariant
  <2>7. QED
    BY <2>5, <2>6
<1>5. QED
  BY <1>3, <1>4

LEMMA NewDataKeeps ==
  ASSUME ScreenInvariant, TypeOK', NEW n \in 0..MaxChunk, newDataAvailableIn(n)
  PROVE  ScreenInvariant'
<1>1. /\ pc = "idle" /\ pc' = "parse"
      /\ UNCHANGED <<screenVars, viewVars, block, pending, ui, newRows, raised, history>>
  BY DEF newDataAvailableIn
<1>2. UNCHANGED <<text, exposed, view, displaced, rowCount, screenOffset, first, last, curY>>
  BY <1>1 DEF history, viewVars, screenVars
<1>3. NewlineDisplaces' /\ Window' /\ Beyond' /\ Stale'
  BY <1>1, <1>2, QuietText
<1>4. InFrame' /\ Agree'
  BY <1>1 DEF ScreenInvariant, InFrame, Agree, Handed
<1>5. Fits' /\ Undisturbed'
  BY <1>1, <1>2 DEF ScreenInvariant, Fits, Undisturbed
<1>6. QED
  BY <1>3, <1>4, <1>5 DEF ScreenInvariant

LEMMA ResizeStartKeeps ==
  ASSUME ScreenInvariant, TypeOK', ResizeStart
  PROVE  ScreenInvariant'
<1>1. /\ ui = "idle" /\ ui' = "resize"
      /\ UNCHANGED <<screenVars, viewVars, block, pc, pending, budget, raised, history>>
  BY DEF ResizeStart
<1>2. UNCHANGED <<text, exposed, view, displaced, rowCount, screenOffset, first, last, curY>>
  BY <1>1 DEF history, viewVars, screenVars
<1>3. NewlineDisplaces' /\ Window' /\ Beyond' /\ Stale'
  BY <1>1, <1>2, QuietText
<1>4. InFrame' /\ Agree'
  BY <1>1, <1>2 DEF ScreenInvariant, InFrame, Agree, Handed, Placed, Running
<1>5. Fits' /\ Undisturbed'
  BY <1>1, <1>2 DEF ScreenInvariant, Fits, Undisturbed
<1>6. QED
  BY <1>3, <1>4, <1>5 DEF ScreenInvariant

LEMMA InitScreenKeeps ==
  ASSUME ScreenInvariant, TypeOK', initScreen
  PROVE  ScreenInvariant'
<1>1. /\ ui' = "reset" /\ view' = <<>> /\ newline' = FALSE
      /\ UNCHANGED <<screenVars, saved, displaced, block, pc, pending, raised, history>>
  BY DEF initScreen
<1>2. UNCHANGED <<exposed, rowCount, screenOffset, first, last, curY>>
  BY <1>1 DEF history, screenVars
<1>3. NewlineDisplaces' /\ InFrame'
  BY <1>1 DEF ScreenInvariant, NewlineDisplaces, InFrame
<1>4. Window' /\ Beyond' /\ Stale' /\ Agree'
  BY <1>1 DEF Window, Beyond, Stale, Agree, Placed, Running
<1>5. Fits'
  <2>1. Len(view') = 0
    BY <1>1
  <2>2. screenOffset + rowCount >= 0
    BY ScreenAssumption DEF ScreenInvariant, TypeOK
  <2>3. QED
    BY <1>1, <1>2, <2>1, <2>2 DEF ScreenInvariant, Fits
<1>6. Undisturbed'
  BY <1>1, <1>2 DEF ScreenInvariant, Undisturbed
<1>7. QED
  BY <1>3, <1>4, <1>5, <1>6 DEF ScreenInvariant

LEMMA StutterKeeps ==
  ASSUME ScreenInvariant, TypeOK', UNCHANGED vars
  PROVE  ScreenInvariant'
<1>1. /\ UNCHANGED <<screenVars, viewVars, raised, text, exposed, block, pc, pending, ui>>
      /\ UNCHANGED <<view, displaced, rowCount, screenOffset, first, last, curY>>
  BY DEF vars, screenVars, viewVars
<1>2. NewlineDisplaces' /\ Window' /\ Beyond' /\ Stale'
  BY <1>1, QuietText
<1>3. InFrame' /\ Agree'
  BY <1>1 DEF ScreenInvariant, InFrame, Agree, Handed, Placed, Running
<1>4. Fits' /\ Undisturbed'
  BY <1>1 DEF ScreenInvariant, Fits, Undisturbed
<1>5. QED
  BY <1>2, <1>3, <1>4 DEF ScreenInvariant

LEMMA NextInvariant == ScreenInvariant /\ [Next]_vars => ScreenInvariant'
<1> SUFFICES ASSUME ScreenInvariant, [Next]_vars PROVE ScreenInvariant'
  OBVIOUS
<1>1. TypeOK'
  BY NextTypes DEF ScreenInvariant
<1>2. CASE \E n \in 0..MaxChunk : newDataAvailableIn(n)
  BY <1>1, <1>2, NewDataKeeps
<1>3. CASE Parse
  BY <1>3, ParseKeeps
<1>4. CASE Main
  BY <1>1, <1>4, FlushOnUIKeeps, SetWidthKeeps, ResetKeeps DEF Main
<1>5. CASE ResizeStart
  BY <1>1, <1>5, ResizeStartKeeps
<1>6. CASE initScreen
  BY <1>1, <1>6, InitScreenKeeps
<1>7. CASE Aborted \/ UNCHANGED vars
  BY <1>1, <1>7, StutterKeeps DEF Aborted
<1>8. QED
  BY <1>2, <1>3, <1>4, <1>5, <1>6, <1>7 DEF Next

\* The invariant of the screen, its history and the block that is handed over.
THEOREM InvariantKept == Spec => []ScreenInvariant
<1>1. QED
  BY InitInvariant, NextInvariant, PTL DEF Spec

-----------------------------------------------------------------------------
(***************************************************************************)
(* What the runs check, for every height, history and resize.              *)
(***************************************************************************)

LEMMA InvariantKeepsScrollback == ScreenInvariant => ScrollbackKept
<1> SUFFICES ASSUME ScreenInvariant, Placed, NEW i \in Lines, i <= screenOffset
             PROVE  At(view, i) = text[i]
  BY DEF ScrollbackKept
<1>1. At(view, i) # text[i] => i > screenOffset
  BY DEF ScreenInvariant, Stale
<1>2. i \in Int /\ screenOffset \in Int
  BY DEF Lines, ScreenInvariant, TypeOK
<1>3. QED
  BY <1>1, <1>2

\* A line that scrolled off is in the view as it was written: addLine
\* (171-193) never drops a row the view does not have.
THEOREM ScrollbackIsKept == Spec => []ScrollbackKept
<1>1. QED
  BY InvariantKept, InvariantKeepsScrollback, PTL

LEMMA InvariantKeepsWindow == ScreenInvariant => ScreenIsWindow
  BY DEF ScreenInvariant, Window, Undisturbed, ScreenIsWindow

\* The screen is a window on what was written, also when a resize rebuilt it
\* (2387-2457); before the main thread disturbs it, no order of commands,
\* scrolls and flushes leaves the screen or displaces it.
THEOREM WindowIsKept == Spec => []ScreenIsWindow
<1>1. QED
  BY InvariantKept, InvariantKeepsWindow, PTL

LEMMA InvariantMarksStale == ScreenInvariant => StaleIsInvalid
<1> SUFFICES ASSUME ScreenInvariant, Placed, NEW r \in 0..(rowCount - 1),
                    At(view, screenOffset + r + 1) # At(text, screenOffset + r + 1)
             PROVE  /\ first <= r
                    /\ last >= 0
                    /\ screenOffset = 0 => r <= Largest(last, Len(view) - 1)
  BY DEF StaleIsInvalid
<1>1. /\ screenOffset \in Nat /\ rowCount \in Nat /\ first \in Int
      /\ MaxLines \in Nat /\ MaxRows \in Nat /\ DOMAIN text = Lines
  BY ScreenAssumption DEF ScreenInvariant, TypeOK
<1>2. screenOffset + rowCount <= MaxLines + MaxRows
  BY DEF ScreenInvariant, Fits, Placed, Running
<1> DEFINE i == screenOffset + r + 1
<1>3. i \in Lines /\ i - screenOffset - 1 = r /\ (screenOffset = 0 => i - 1 = r)
  BY <1>1, <1>2 DEF Lines
<1>4. At(text, i) = text[i]
  BY <1>1, <1>3 DEF At
<1>5. /\ first <= i - screenOffset - 1 /\ last >= 0
      /\ screenOffset = 0 => i - 1 <= Largest(last, Len(view) - 1)
  BY <1>3, <1>4 DEF ScreenInvariant, Stale
<1>6. QED
  BY <1>3, <1>5

\* A row the view shows wrong is always in the range the next flush copies.
THEOREM StaleIsMarked == Spec => []StaleIsInvalid
<1>1. QED
  BY InvariantKept, InvariantMarksStale, PTL

=============================================================================
