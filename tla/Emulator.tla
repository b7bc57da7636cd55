------------------------------ MODULE Emulator ------------------------------
(***************************************************************************)
(* What the escape sequences do to the screen (VT100ScreenBuffer.m): the   *)
(* screen is one string of rowCount * columnCount characters, edited by    *)
(* deleting and inserting ranges computed from the cursor, the margins and *)
(* the arguments of the sequence.                                          *)
(*                                                                         *)
(* No branch of the code depends on a character of the screen.  Therefore  *)
(* every command is applied to the screen whose cells are numbered, and    *)
(* the state keeps only whether the result is a screen.  The modes that    *)
(* the other end sets freely and that do nothing but choose a branch       *)
(* (autoWrap, autoBackWrap, autoReturnLineFeed, insertMode, isVT100, the   *)
(* tab stops) are choices of the commands that look at them.  Attributes,  *)
(* character sets and replies are left out; so is the way of a line into   *)
(* the view, which is ScreenBuffer's.                                      *)
(***************************************************************************)
EXTENDS Integers, Sequences

CONSTANTS
  columnCount,
  MinRows, MaxRows,
  MaxArg           \* the largest argument of a sequence

ASSUME EmulatorAssumption ==
  /\ columnCount \in Nat \ {0, 1}
  /\ MinRows \in Nat \ {0} /\ MaxRows \in Nat /\ MinRows <= MaxRows
  /\ MaxArg \in Nat

VARIABLES
  rowCount,
  curX, curY,
  topMargin, bottomMargin,
  originWithinMargins,
  isAlternate,
  saved,           \* ESC 7: savedCurX, savedCurY, savedOriginWithinMargins
  savedMargins,    \* mode 1049: savedTopMargin, savedBottomMargin
  intact,          \* the screen has its rows and nothing outside was touched
  harmed           \* history: the last command was one of those named harmful

cursor == <<curX, curY>>
margins == <<topMargin, bottomMargin>>
vars == <<rowCount, curX, curY, topMargin, bottomMargin, originWithinMargins,
          isAlternate, saved, savedMargins, intact, harmed>>

Absent == -1
Arg == Absent..MaxArg
Largest(a, b) == IF a > b THEN a ELSE b
Smallest(a, b) == IF a < b THEN a ELSE b
AtLeastOne(arg) == Largest(arg, 1)              \* (arg > 1 ? arg : 1)
OneIfAbsent(arg) == IF arg = Absent THEN 1 ELSE arg
FromOne(arg) == IF arg > 0 THEN arg - 1 ELSE 0

MarginsLegal(top, bottom) ==
  \/ top = 0 /\ bottom = rowCount - 1
  \/ 0 <= top /\ top < bottom /\ bottom < rowCount

Init ==
  /\ rowCount \in MinRows..MaxRows
  /\ curX = 0 /\ curY = 0
  /\ topMargin = 0 /\ bottomMargin = rowCount - 1
  /\ originWithinMargins = FALSE /\ isAlternate = FALSE
  /\ saved = [x |-> 0, y |-> 0, origin |-> FALSE]
  /\ savedMargins = [top |-> 0, bottom |-> 0]
  /\ intact = TRUE /\ harmed = FALSE

(***************************************************************************)
(* The screen string.  Gone is what is left of it after NSRangeException.  *)
(***************************************************************************)

Blank == 0
Written == -1
Gone == <<-2>>

Cells == [i \in 1..(rowCount * columnCount) |-> i]
Blanks(n) == [i \in 1..n |-> Blank]
BlankString(n) == IF n \in 0..columnCount THEN Blanks(n) ELSE Gone

Deleted(text, at, n) ==
  IF text = Gone \/ at < 0 \/ n < 0 \/ at + n > Len(text) THEN Gone
  ELSE SubSeq(text, 1, at) \o SubSeq(text, at + n + 1, Len(text))

Inserted(text, at, string) ==
  IF text = Gone \/ string = Gone \/ at < 0 \/ at > Len(text) THEN Gone
  ELSE SubSeq(text, 1, at) \o string \o SubSeq(text, at + 1, Len(text))

Replaced(text, at, n, string) == Inserted(Deleted(text, at, n), at, string)

Filled(text, rows, cell) ==
  IF text = Gone THEN Gone
  ELSE [i \in 1..Len(text) |->
          IF (i - 1) \div columnCount \in rows THEN cell ELSE text[i]]

Row(text, r) == SubSeq(text, r * columnCount + 1, (r + 1) * columnCount)

(***************************************************************************)
(* The methods the commands are made of.  The state s of a command holds   *)
(* the cursor, the text and the rows invalidateLine was called for.        *)
(***************************************************************************)

Now == [x |-> curX, y |-> curY, text |-> Cells, marks |-> {}]

invalidateLine(s, rows) == [s EXCEPT !.marks = @ \cup rows]
AtColumn(s, col) == invalidateLine([s EXCEPT !.x = col], {s.y})
ToRow(s, row) == invalidateLine([s EXCEPT !.y = row], {s.y, row})

\* Variant: the lower margin is not looked at.
cursorDownFree(s, n) == ToRow(s, Smallest(s.y + n, rowCount - 1))

cursorDown(s, n) == ToRow(s, Smallest(s.y + n, bottomMargin))

cursorUp(s, n) == ToRow(s, Largest(s.y - n, topMargin))

cursorLeft(s, n) == AtColumn(s, Largest(Smallest(s.x, columnCount - 1) - n, 0))

cursorRight(s, n) == AtColumn(s, Smallest(s.x + n, columnCount - 1))

Column(col) == Largest(0, Smallest(col, columnCount - 1))

cursorToRow(s, row, col) ==
  LET y == IF originWithinMargins
           THEN Largest(topMargin, Smallest(row + topMargin, bottomMargin))
           ELSE Largest(0, Smallest(row, rowCount - 1))
  IN [ToRow(s, y) EXCEPT !.x = Column(col)]

\* Variant: the count is not clipped to the rows between the margins.
scrollBackUnclipped(s, n) ==
  LET text == Deleted(s.text, (bottomMargin + 1 - n) * columnCount, n * columnCount)
  IN invalidateLine([s EXCEPT !.text = Inserted(text, topMargin * columnCount,
                                                Blanks(n * columnCount))],
                    {topMargin, bottomMargin})

\* The rows between the margins move down.
scrollBack(s, n) ==
  LET count == Smallest(n, bottomMargin - topMargin + 1)
      text  == Deleted(s.text, (bottomMargin + 1 - count) * columnCount,
                       count * columnCount)
  IN invalidateLine([s EXCEPT !.text = Inserted(text, topMargin * columnCount,
                                                Blanks(count * columnCount))],
                    {topMargin, bottomMargin})

\* With the margins at the edges the upper rows go to the view, and the rows
\* of the screen are other lines of it.
IntoView == topMargin = 0 /\ bottomMargin = rowCount - 1 /\ ~isAlternate

addLine(s, n) ==
  LET count == Smallest(n, rowCount)
      text  == Deleted(s.text, 0, count * columnCount)
  IN invalidateLine([s EXCEPT !.text = Inserted(text, Len(text), Blanks(count * columnCount))],
                    0..(rowCount - 1))

\* The rows between the margins move up.
scrollWithin(s, n) ==
  LET count == Smallest(n, bottomMargin - topMargin + 1)
      text  == Deleted(s.text, topMargin * columnCount, count * columnCount)
  IN invalidateLine(
       [s EXCEPT !.text = Inserted(text, (bottomMargin + 1 - count) * columnCount,
                                   Blanks(count * columnCount))],
       {topMargin, bottomMargin})

scrollFeed(s, n) == IF IntoView THEN addLine(s, n) ELSE scrollWithin(s, n)

\* arg 0: from the cursor to the end; 1: from the start to the cursor; 2: all.
deleteInLine(s, arg) ==
  LET at == s.y * columnCount + (IF arg <= 0 THEN s.x ELSE 0)
      n  == IF arg <= 0 THEN columnCount - s.x
            ELSE IF arg = 1 THEN s.x + 1 ELSE columnCount
  IN invalidateLine([s EXCEPT !.text = Replaced(@, at, n, BlankString(n))], {s.y})

\* Variant: the whole screen is blanked, and the cursor's row is marked.
deleteInScreenAtCursor(s, arg) ==
  invalidateLine([s EXCEPT !.text = Filled(@, 0..(rowCount - 1), Blank)], {s.y})

\* arg 1 blanks the cursor's row from the cursor on, as arg 0 does.
deleteInScreen(s, arg) ==
  LET line == deleteInLine(s, 0)
      over(rows, t) == [t EXCEPT !.text = Filled(@, rows, Blank)]
  IN IF arg <= 0
     THEN invalidateLine(over((s.y + 1)..(rowCount - 1), line), {s.y, rowCount - 1})
     ELSE IF arg = 1
     THEN invalidateLine(over(0..(s.y - 1), line), {0, s.y})
     ELSE invalidateLine(over(0..(rowCount - 1), s), {0, rowCount - 1})

blankRangeInLine(s, n) ==
  LET count == Smallest(n, columnCount - s.x)
  IN IF count <= 0 THEN s
     ELSE invalidateLine([s EXCEPT !.text =
            Replaced(@, s.y * columnCount + s.x, count, BlankString(count))], {s.y})

deleteRangeInLine(s, n) ==
  LET count == Smallest(n, columnCount - s.x)
      at    == s.y * columnCount + s.x
  IN IF count < 1 THEN s
     ELSE invalidateLine([s EXCEPT !.text =
            Inserted(Deleted(@, at, count), (s.y + 1) * columnCount - count,
                     BlankString(count))], {s.y})

\* The count is clipped to the rows below the cursor, and what does not move
\* is replaced by a line.
Insertable(s, n) == Smallest(n, rowCount - s.y - 1)

insertInLine(s, n) ==
  LET count == Insertable(s, n)
      at    == s.y * columnCount + s.x
      end   == (s.y + 1) * columnCount
  IN IF count <= 0 THEN s
     ELSE invalidateLine([s EXCEPT !.text =
            IF s.x + count < columnCount
            THEN Inserted(Deleted(@, end - count, count), at, BlankString(count))
            ELSE Replaced(@, at, count, Blanks(columnCount))], {s.y})

alignTest(s) ==
  invalidateLine([s EXCEPT !.text = Filled(@, 0..(rowCount - 1), Written)],
                 {0, rowCount - 1})

\* A character, or the two of a surrogate pair.
write(s, n) == AtColumn([s EXCEPT !.text = Replaced(@, s.y * columnCount + s.x, n,
                                                  [i \in 1..n |-> Written])],
                        s.x + n)

(***************************************************************************)
(* Commands.  The last argument of Do says whether the command is one of   *)
(* those that damage the screen or its bounds; nothing follows such a one. *)
(***************************************************************************)

Edit(s, isHarmful) ==
  /\ ~harmed
  /\ curX' = s.x /\ curY' = s.y
  /\ intact' = (Len(s.text) = rowCount * columnCount)
  /\ harmed' = isHarmful

Modes == <<originWithinMargins, isAlternate, saved, savedMargins>>
Do(s, isHarmful) == Edit(s, isHarmful) /\ UNCHANGED <<rowCount, margins, Modes>>
Safely(s) == Do(s, FALSE)

Below(s) == IF s.y = bottomMargin THEN scrollFeed(s, 1) ELSE cursorDown(s, 1)

(* Control characters. *)

\* With autoBackWrap, from the first column to the end of the row above; a
\* cursor on the first row, above the top margin, leaves the screen.
Backspace ==
  \/ Safely(cursorLeft(Now, 1))
  \/ /\ curX = 0
     /\ LET s == AtColumn(Now, columnCount - 1) IN
        IF curY = topMargin THEN Safely(scrollBack(s, 1))
        ELSE Do(ToRow(s, curY - 1), curY = 0)

\* To the next tab stop, wherever it is, or to the last column.
Tab == \E col \in (curX + 1)..(columnCount - 1) \cup {columnCount - 1} :
  Safely([Now EXCEPT !.x = col])

Return == Safely(AtColumn(Now, 0))

LineFeed == \E col \in {curX, 0} :
  Safely([(IF curY >= bottomMargin THEN scrollFeed(Now, 1) ELSE cursorDown(Now, 1))
            EXCEPT !.x = col])

(* Escape sequences. *)

SaveCursor ==
  /\ saved' = [x |-> curX, y |-> curY, origin |-> originWithinMargins]
  /\ Edit(Now, FALSE)
  /\ UNCHANGED <<rowCount, margins, originWithinMargins, isAlternate, savedMargins>>

RestoreCursor ==
  /\ Edit([ToRow(Now, saved.y) EXCEPT !.x = saved.x], FALSE)
  /\ originWithinMargins' = saved.origin
  /\ UNCHANGED <<rowCount, margins, isAlternate, saved, savedMargins>>

Index == Safely(Below(Now))

NextLine == Safely(Below([Now EXCEPT !.x = 0]))

ReverseIndex == Safely(IF curY = topMargin THEN scrollBack(Now, 1) ELSE cursorUp(Now, 1))

\* ESC H and CSI 0 g; tabs has a byte for every column, and a cursor past the
\* last one sets or clears the second byte behind them.
TabStop ==
  LET column == IF curX >= columnCount THEN columnCount + 1 ELSE curX IN
  /\ ~harmed
  /\ intact' = (column < columnCount)
  /\ harmed' = (curX >= columnCount)
  /\ UNCHANGED <<rowCount, cursor, margins, Modes>>

AlignTest == Safely(alignTest(Now))

(* Control sequences; the letter is the one that ends the sequence. *)

CursorUp == \E n \in Arg : Safely(cursorUp(Now, AtLeastOne(n)))            \* A
CursorDown == \E n \in Arg : Safely(cursorDown(Now, AtLeastOne(n)))        \* B
CursorRight == \E n \in Arg :                                            \* C
  Safely(cursorRight(Now, Smallest(AtLeastOne(n), columnCount - curX)))
CursorLeft == \E n \in Arg : Safely(cursorLeft(Now, AtLeastOne(n)))        \* D

\* E: what goes past the bottom margin scrolls, by repeat - bottomMargin - curY
\* rows; that may be a negative number, which no range can be made of.
NextLines == \E arg \in Arg :
  LET n      == AtLeastOne(arg)
      beyond == curY <= bottomMargin /\ n > bottomMargin - curY
      s      == IF beyond
                THEN cursorDown(scrollFeed(Now, n - bottomMargin - curY), bottomMargin - curY)
                ELSE cursorDown(Now, n)
  IN Do(AtColumn(s, 0), beyond /\ n < bottomMargin + curY)

\* F: in the same way, with repeat - curY - topMargin.
PrecedingLines == \E arg \in Arg :
  LET n      == AtLeastOne(arg)
      beyond == curY >= topMargin /\ n > curY - topMargin
      s      == IF beyond THEN scrollBack(Now, n - curY - topMargin) ELSE Now
  IN Do(AtColumn(cursorUp(s, n), 0), beyond /\ n < curY + topMargin)

CursorColumn == \E n \in Arg : Safely(AtColumn(Now, Column(FromOne(n))))   \* G
CursorPosition == \E row, col \in Arg :                                  \* H, f
  Safely(cursorToRow(Now, FromOne(row), FromOne(col)))
CursorRow == \E n \in Arg :                                              \* d
  Safely(ToRow(Now, Smallest(FromOne(n), rowCount - 1)))

\* Behind a pair written in the last column the cursor is two columns out, and
\* the rest of its line has a negative length.
EraseInScreen == \E n \in 0..2 :                                         \* J
  Do(deleteInScreen(Now, n), n < 2 /\ curX > columnCount)
EraseInLine == \E n \in 0..2 :                                           \* K
  Do(deleteInLine(Now, n), \/ n = 0 /\ curX > columnCount
                           \/ n = 1 /\ curX >= columnCount)

\* L and M scroll all the rows between the margins, wherever the cursor is.
InsertLines == \E n \in Arg :
  /\ curY >= topMargin /\ curY < bottomMargin /\ n # 0
  /\ Safely(scrollBack(Now, OneIfAbsent(n)))
DeleteLines == \E n \in Arg :
  /\ curY >= topMargin /\ curY < bottomMargin /\ n # 0
  /\ Safely(scrollFeed(Now, OneIfAbsent(n)))

DeleteChars == \E n \in Arg : Safely(deleteRangeInLine(Now, OneIfAbsent(n)))  \* P
EraseChars == \E n \in Arg : Safely(blankRangeInLine(Now, OneIfAbsent(n)))    \* X
ScrollUp == \E n \in Arg : Safely(scrollFeed(Now, Largest(n, 0)))          \* S
ScrollDown == \E n \in Arg : Safely(scrollBack(Now, Largest(n, 0)))        \* T

BackTab ==                                                               \* Z
  \E col \in 0..(curX - 1) \cup (IF curX = 0 THEN {0} ELSE {}) : Safely(AtColumn(Now, col))

\* Where the characters do not fit, a line takes the place of fewer or more
\* characters than it has.
Misfits(s, n) ==
  LET count == Insertable(s, n)
  IN count > 0 /\ s.x + count >= columnCount /\ count # columnCount

InsertChars == \E arg \in Arg :                                          \* @
  LET n == OneIfAbsent(arg) IN Do(insertInLine(Now, n), Misfits(Now, n))

\* r: the bottom margin is not held against the top of the screen, nor the top
\* margin on a screen of one row.
MarginsSet(t, b) ==
  LET top    == IF t < 1 THEN 0 ELSE IF t > rowCount THEN rowCount - 2 ELSE t - 1
      bottom == IF b < 1 \/ b > rowCount THEN rowCount - 1 ELSE b - 1
  IN IF top + 1 <= bottom THEN [top |-> top, bottom |-> bottom]
     ELSE IF top = 0 THEN [top |-> 0, bottom |-> 1]
     ELSE [top |-> bottom - 1, bottom |-> bottom]

SetMargins == \E t, b \in Arg :
  LET m == MarginsSet(t, b) IN
  /\ ~harmed
  /\ topMargin' = m.top /\ bottomMargin' = m.bottom
  /\ curX' = 0
  /\ curY' = IF originWithinMargins THEN m.top ELSE 0
  /\ harmed' = (rowCount = 1 \/ (b = 1 /\ t > 1 /\ m.top # 0))
  /\ UNCHANGED <<rowCount, Modes, intact>>

\* Modes 3 and 6.
ColumnMode == Safely(cursorToRow(deleteInScreen(Now, 2), 0, 0))

OriginMode == \E on \in BOOLEAN :
  /\ ~harmed
  /\ originWithinMargins' = on
  /\ curX' = 0 /\ curY' = IF on THEN topMargin ELSE 0
  /\ UNCHANGED <<rowCount, margins, isAlternate, saved, savedMargins, intact, harmed>>

\* Mode 1049 set: what is on the screen goes to the view first.
EnterAlternate ==
  /\ Edit([ToRow(scrollFeed(scrollFeed(Now, curY), 1), 0) EXCEPT !.x = 0], FALSE)
  /\ isAlternate' = TRUE
  /\ savedMargins' = [top |-> topMargin, bottom |-> bottomMargin]
  /\ UNCHANGED <<rowCount, margins, originWithinMargins, saved>>

\* Mode 1049 reset, and mode 1015 reset, which falls through to it.
LeaveAlternate ==
  /\ Edit(deleteInScreen([ToRow(Now, 0) EXCEPT !.x = 0], 2),
          ~MarginsLegal(savedMargins.top, savedMargins.bottom))
  /\ isAlternate' = FALSE
  /\ topMargin' = savedMargins.top /\ bottomMargin' = savedMargins.bottom
  /\ UNCHANGED <<rowCount, originWithinMargins, saved, savedMargins>>

(* A printable character, of n UTF-16 units. *)

\* A cursor past the last column goes to the next line or back to the last one.
Wrapped(s) ==
  IF s.x < columnCount THEN {s}
  ELSE {AtColumn(Below(s), 0), AtColumn(s, columnCount - 1)}

WriteChar == \E n \in 1..2, s \in Wrapped(Now) :
  LET pastEnd == s.y = rowCount - 1 /\ s.x + n > columnCount IN
  \/ Do(write(s, n), pastEnd)
  \/ Do(write(insertInLine(s, n), n), pastEnd \/ Misfits(s, n))

(***************************************************************************)
(* The main thread, between two buffers of data.                           *)
(***************************************************************************)

\* setContent puts the cursor where it finds its character in the view.
Rebuilt(rows, x, y) ==
  \/ curX' \in 0..(columnCount - 1) /\ curY' \in 0..(rows - 1)
  \/ curX' = x /\ curY' = y

\* Variant: the margins are kept.
setWidthKeepsMargins ==
  /\ ~harmed
  /\ rowCount' \in MinRows..MaxRows
  /\ Rebuilt(rowCount', curX, curY)
  /\ saved' = [saved EXCEPT !.x = 0, !.y = 0]
  /\ harmed' = (curY' >= rowCount')
  /\ UNCHANGED <<margins, originWithinMargins, isAlternate, savedMargins, intact>>

\* The alternate screen's margins are those of the old height.
setWidth ==
  /\ ~harmed
  /\ rowCount' \in MinRows..MaxRows
  /\ Rebuilt(rowCount', curX, curY)
  /\ topMargin' = 0 /\ bottomMargin' = rowCount' - 1
  /\ saved' = [saved EXCEPT !.x = 0, !.y = 0]
  /\ harmed' = (curY' >= rowCount')
  /\ UNCHANGED <<originWithinMargins, isAlternate, savedMargins, intact>>

\* The alternate screen is not left.
resetScreen ==
  /\ ~harmed
  /\ Rebuilt(rowCount, 0, 0)
  /\ topMargin' = 0 /\ bottomMargin' = rowCount - 1
  /\ originWithinMargins' = FALSE
  /\ saved' = [x |-> 0, y |-> 0, origin |-> FALSE]
  /\ UNCHANGED <<rowCount, isAlternate, savedMargins, intact, harmed>>

\* What follows damage is not modelled.
Stopped == harmed /\ UNCHANGED vars

\* The commands that name a row.
Positioning ==
  \/ RestoreCursor \/ CursorPosition \/ CursorRow
  \/ SetMargins \/ ColumnMode \/ OriginMode \/ EnterAlternate \/ LeaveAlternate
  \/ setWidth \/ resetScreen

\* Those that work from where the cursor is.
Relative ==
  \/ Backspace \/ Tab \/ Return \/ LineFeed
  \/ SaveCursor \/ Index \/ NextLine \/ ReverseIndex \/ TabStop \/ AlignTest
  \/ CursorUp \/ CursorDown \/ CursorRight \/ CursorLeft
  \/ NextLines \/ PrecedingLines \/ CursorColumn
  \/ EraseInScreen \/ EraseInLine \/ InsertLines \/ DeleteLines
  \/ DeleteChars \/ EraseChars \/ ScrollUp \/ ScrollDown
  \/ BackTab \/ InsertChars \/ WriteChar

Next == Relative \/ Positioning \/ Stopped

Spec == Init /\ [][Next]_vars

-----------------------------------------------------------------------------

TypeOK ==
  /\ rowCount \in MinRows..MaxRows
  /\ curX \in 0..(columnCount + 1) /\ curY \in -1..(MaxRows - 1)
  /\ topMargin \in -1..(MaxRows - 1) /\ bottomMargin \in 0..MaxRows
  /\ originWithinMargins \in BOOLEAN /\ isAlternate \in BOOLEAN
  /\ saved \in [x : 0..(columnCount + 1), y : 0..(MaxRows - 1), origin : BOOLEAN]
  /\ savedMargins \in [top : 0..(MaxRows - 1), bottom : 0..(MaxRows - 1)]
  /\ intact \in BOOLEAN /\ harmed \in BOOLEAN

\* The screen has all its cells and nothing else, the cursor is on a row of it
\* and "the top and bottom margins must be within the terminal screen" (1873).
Sound ==
  /\ intact
  /\ curY \in 0..(rowCount - 1)
  /\ MarginsLegal(topMargin, bottomMargin)

\* Whatever sequences arrive, in whatever order and with whatever arguments and
\* resizes between them, the screen and its bounds are damaged by exactly the
\* commands that say so (their last argument, executeCommandAt to setWidth).
DamageIsNamed == TypeOK /\ (harmed <=> ~Sound)

Inside == {r \in 0..(rowCount - 1) : topMargin <= r /\ r <= bottomMargin}
Changed(s) ==
  {r \in 0..(rowCount - 1) : \/ Len(s.text) # Len(Cells)
                            \/ Row(s.text, r) # Row(Cells, r)}
Counts == 0..MaxArg

\* A count of exactly a line does not damage the screen, but from within a line
\* it blanks the start of the next one.
Fits(s, n) ==
  LET count == Insertable(s, n)
  IN s.x + count < columnCount \/ (s.x = 0 /\ count = columnCount) \/ count = 0

\* What the commands on one line make of the screen: those that work from the
\* cursor to the right, and all.
RightEdits ==
  {deleteRangeInLine(Now, n) : n \in Counts} \cup
  {blankRangeInLine(Now, n) : n \in Counts} \cup
  {insertInLine(Now, n) : n \in {m \in Counts : Fits(Now, m)}}
LineEdits ==
  RightEdits \cup
  {deleteInLine(Now, n) : n \in {m \in 0..2 : m = 2 \/ curX + m <= columnCount}}

\* A scroll of any count in either direction moves the rows between the margins
\* and no other (scrollBack and the limited mode of scrollFeed, 2308-2384).
\* Deleting, erasing or inserting characters leaves the other lines alone, and
\* what is left of the cursor too unless it is asked for (blankRangeInLine 329,
\* deleteInLine 509, deleteRangeInLine 589, insertInLine 2087).
EditsStayInPlace == ~harmed =>
  /\ \A n \in Counts :
       /\ Changed(scrollBack(Now, n)) \subseteq Inside
       /\ ~IntoView => Changed(scrollFeed(Now, n)) \subseteq Inside
  /\ \A s \in LineEdits : Changed(s) \subseteq {curY}
  /\ LET left == curY * columnCount + Smallest(curX, columnCount) IN
     \A s \in RightEdits : SubSeq(s.text, 1, left) = SubSeq(Cells, 1, left)

\* A row that a command changed is between two rows it marked, so that the next
\* flush copies it (invalidateLine, 2114).
ChangedIsMarked == ~harmed =>
  \A s \in LineEdits
         \cup {scrollBack(Now, n) : n \in Counts} \cup {scrollFeed(Now, n) : n \in Counts}
         \cup {deleteInScreen(Now, n) : n \in {m \in 0..2 : m = 2 \/ curX <= columnCount}}
         \cup {alignTest(Now)} :
    \A r \in Changed(s) : \E low, high \in s.marks : low <= r /\ r <= high

\* A cursor between the margins leaves them by a command that names a row only:
\* the others scroll instead, or stop at the margin (cursorUp, cursorDown,
\* excuteControlChar).
OnlyPositioningLeavesMargins ==
  [][(curY \in Inside /\ curY' \notin Inside /\ ~harmed') => ~Relative]_vars
=============================================================================
