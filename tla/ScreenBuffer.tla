---------------------------- MODULE ScreenBuffer ----------------------------
(***************************************************************************)
(* The screen of the terminal (VT100ScreenBuffer.m): the parser of         *)
(* screenQueue edits the screen under a lock, marks the rows it changed    *)
(* and has the main queue copy them to the text view, which also holds the *)
(* lines that scrolled off.  The main thread resizes and resets the screen *)
(* under the same lock, and rebuilds it from the text view.                *)
(*                                                                         *)
(* A line is one value; the columns, the attributes, the margins and the   *)
(* alternate screen are left out (topMargin = 0, bottomMargin =            *)
(* rowCount - 1, isAlternate = NO).  An access outside the screen raises   *)
(* NSRangeException, which nothing in the module catches: raised.          *)
(***************************************************************************)
EXTENDS Integers, Sequences

CONSTANTS
  Line,          \* the texts a line may have
  blank,         \* the blank line
  MinRows, MaxRows,
  MaxStep,       \* the most rows one resize adds or takes
  ScrollCounts,  \* the arguments of CSI S
  MaxLines,      \* the longest history kept by the bound
  MaxChunk       \* the commands of one buffer that touch the screen

IntMax == 2147483647

ASSUME ScreenAssumption ==
  /\ blank \in Line
  /\ MinRows \in Nat \ {0} /\ MaxRows \in Nat /\ MinRows <= MaxRows
  /\ MaxRows < IntMax   \* rowCount is an int
  /\ ScrollCounts \subseteq Nat
  /\ MaxStep \in Nat /\ MaxLines \in Nat /\ MaxChunk \in Nat \ {0}

VARIABLES
  view,          \* the lines of the text storage
  newline,       \* the text storage ends with a line feed
  screen,        \* the rows of the screen, from the top
  rowCount,
  screenOffset,  \* the line of the view the top row belongs to
  first, last,   \* firstInvalidLine, lastInvalidLine
  curY,
  saved,         \* the line of savedCursorChar in the view, from 1; 0: none
  block,         \* flushScreenBlock is set
  pc,            \* the parser: idle, parse, flush (in dispatch_sync), relock
  pending,       \* the scroll flushScreen was called for, End at the end
  budget,        \* commands left in the buffer being parsed
  ui,            \* the main thread: idle, or waiting in getLock to ...
  newRows,       \* ... give the screen this height
  raised,
  text,          \* history: what was written on each line since the reset
  exposed,       \* history: the main thread changed the screen's height, or
                 \* reset it while the parser had data left, or the server
                 \* asked for a scroll of no lines
  displaced      \* history: a flush found only rows below the screen invalid
                 \* and left the text with a line feed at its end

screenVars == <<screen, rowCount, screenOffset, first, last, curY>>
viewVars == <<view, newline, saved, displaced>>
history == <<text, exposed>>
vars == <<view, newline, screen, rowCount, screenOffset, first, last, curY,
          saved, block, pc, pending, budget, ui, newRows, raised, text, exposed,
          displaced>>

End == -1
Lines == 1..(MaxLines + MaxRows)

Largest(a, b) == IF a > b THEN a ELSE b
Smallest(a, b) == IF a < b THEN a ELSE b
\* Line i of a text, blank past its end.
At(s, i) == IF i \in DOMAIN s THEN s[i] ELSE blank
Padded(s, n) == [i \in 1..n |-> At(s, i)]
Blanks(n) == [i \in 1..n |-> blank]

Init ==
  /\ view = <<>> /\ newline = FALSE /\ saved = 0
  /\ rowCount \in MinRows..MaxRows
  /\ screen = Blanks(rowCount)
  /\ screenOffset = 0 /\ first = IntMax /\ last = -1 /\ curY = 0
  /\ block = FALSE /\ pc = "idle" /\ pending = End /\ budget = 0
  /\ ui = "idle" /\ newRows = rowCount
  /\ raised = FALSE
  /\ text = [i \in Lines |-> blank] /\ exposed = FALSE
  /\ displaced = FALSE

\* NSLock: the parser holds it while it parses; what the main thread does
\* under it is one step.
LockFree == pc # "parse" /\ ~raised

Low(f, line) == Smallest(f, line)
High(l, line) == Largest(l, line)

(***************************************************************************)
(* The flush block: from the first invalid row on, the view is cut and the *)
(* rows of the screen are appended.                                        *)
(***************************************************************************)

\* What the block does, as a record of the variables it assigns.
Flushed ==
  LET update == screenOffset + first
      count  == Largest(Len(view), 1)
      kept   ==
        IF update < count THEN SubSeq(view, 1, update)
        ELSE IF Len(view) = 0 \/ ~newline THEN Padded(view, update)
        ELSE Padded(view, update + 1)
      lines  == IF update < count THEN count ELSE update + 1
      bottom == IF screenOffset = 0 THEN Largest(last, lines - 1) ELSE rowCount - 1
      shown  == kept \o [i \in 1..Largest(0, bottom - first + 1) |->
                           At(screen, first + i)]
      \* Where the block takes the top row to be: the start of the view when
      \* the view did not reach that line before.
      top    == IF screenOffset < Len(view) THEN screenOffset ELSE 0
  IN [raises  |-> first < 0 \/ (first <= bottom /\ bottom >= rowCount),
      view    |-> shown,
      newline |-> bottom < first,
      saved   |-> IF top + curY < Len(shown) THEN top + curY + 1
                  ELSE IF top + curY > Len(shown) THEN 0 ELSE saved,
      first   |-> IntMax,
      last    |-> -1]

\* Variant: getLock drops the block it finds.
UnlockedDropsBlock ==
  [raises |-> FALSE, view |-> view, newline |-> newline, saved |-> saved,
   first |-> first, last |-> last]

\* getLock runs a block it finds; without one everything is as it is.
Unlocked ==
  IF block THEN Flushed
  ELSE [raises |-> FALSE, view |-> view, newline |-> newline, saved |-> saved,
        first |-> first, last |-> last]

\* Run the block if there is one, then continue unless it raised.
AfterBlock(Continue) ==
  /\ block' = FALSE
  /\ IF Unlocked.raises
     THEN raised' = TRUE /\ UNCHANGED <<screenVars, viewVars, history>>
     ELSE /\ view' = Unlocked.view
          /\ newline' = Unlocked.newline
          /\ saved' = Unlocked.saved
          /\ displaced' = (displaced \/ Unlocked.newline)
          /\ UNCHANGED raised
          /\ Continue

(***************************************************************************)
(* The parser.                                                             *)
(***************************************************************************)

newDataAvailableIn(n) ==
  /\ pc = "idle" /\ ~raised
  /\ pc' = "parse" /\ budget' = n
  /\ UNCHANGED <<screenVars, viewVars, block, pending, ui, newRows, raised, history>>

\* One command of the buffer.
Command == pc = "parse" /\ ~raised /\ budget > 0 /\ budget' = budget - 1

\* The calls of a command that leaves the parser parsing.
Parsing == UNCHANGED <<viewVars, block, pc, pending, ui, newRows>>

\* flushScreen with rows to copy: hand the block over and give up the lock.
flushScreen(then) ==
  /\ last >= 0
  /\ block' = TRUE /\ pc' = "flush" /\ pending' = then
  /\ UNCHANGED <<screenVars, viewVars, ui, newRows, raised, history>>

\* addLine, once flushScreen has returned.
addLineNow(n) ==
  IF n > rowCount
  THEN raised' = TRUE /\ UNCHANGED screenVars
  ELSE /\ last' = rowCount - 1
       /\ first' = IF first < rowCount THEN first - n ELSE rowCount - n
       /\ screenOffset' = screenOffset + n
       /\ screen' = SubSeq(screen, n + 1, rowCount) \o Blanks(n)
       /\ UNCHANGED <<rowCount, curY, raised>>

\* Variant: addLine does not look at what it drops.
MustFlushNever(n) == FALSE

\* A row that goes is, or may be, one the view does not have yet.
MustFlush(n) == first - n < 0

scrollFeed(n) ==
  LET repeat == Smallest(n, rowCount) IN
  /\ screenOffset + rowCount + repeat <= MaxLines
  /\ \/ MustFlush(repeat) /\ flushScreen(repeat)
     \/ ~MustFlush(repeat) /\ addLineNow(repeat) /\ Parsing /\ UNCHANGED text
        /\ exposed' = (exposed \/ repeat = 0)

\* A cursor operation marks the row it leaves and the row it comes to.
CursorTo(row) ==
  /\ curY' = row
  /\ first' = Low(Low(first, curY), row)
  /\ last' = High(High(last, curY), row)
  /\ Parsing /\ UNCHANGED <<screen, rowCount, screenOffset, raised, history>>

cursorToRow == Command /\ \E row \in 0..(MaxRows - 1) :
  CursorTo(Smallest(row, rowCount - 1))

\* Variant: the top margin is not looked at.
cursorUpUnclamped == Command /\ CursorTo(curY - 1)

cursorUp == Command /\ CursorTo(Largest(curY - 1, 0))

cursorDown == Command /\ CursorTo(Smallest(curY + 1, rowCount - 1))

\* Line feed: below the bottom margin the screen scrolls.
LineFeed ==
  /\ Command
  /\ \/ curY >= rowCount - 1 /\ scrollFeed(1)
     \/ curY < rowCount - 1 /\ CursorTo(curY + 1)

\* CSI S.
ScrollUp == Command /\ \E n \in ScrollCounts : scrollFeed(n)

\* A printable character.
WriteChar ==
  /\ Command
  /\ Parsing /\ UNCHANGED exposed
  /\ IF curY >= rowCount
     THEN raised' = TRUE /\ UNCHANGED <<screenVars, text>>
     ELSE \E v \in Line \ {blank} :
            /\ screen' = [screen EXCEPT ![curY + 1] = v]
            /\ text' = [i \in Lines |-> IF i = screenOffset + curY + 1
                                        THEN v ELSE text[i]]
            /\ first' = Low(first, curY) /\ last' = High(last, curY)
            /\ UNCHANGED <<rowCount, screenOffset, curY, raised>>

\* Variant: CSI 2 J marks the rows from the cursor down, as CSI 0 J does.
deleteInScreenBelow ==
  /\ Command
  /\ screen' = Blanks(rowCount)
  /\ text' = [i \in Lines |-> IF i \in (screenOffset + 1)..(screenOffset + rowCount)
                              THEN blank ELSE text[i]]
  /\ first' = Low(first, curY) /\ last' = High(last, rowCount - 1)
  /\ Parsing /\ UNCHANGED <<rowCount, screenOffset, curY, raised, exposed>>

\* CSI 2 J: the whole screen is blanked, the cursor stays.
deleteInScreen ==
  /\ Command
  /\ screen' = Blanks(rowCount)
  /\ text' = [i \in Lines |-> IF i \in (screenOffset + 1)..(screenOffset + rowCount)
                              THEN blank ELSE text[i]]
  /\ first' = Low(first, 0) /\ last' = High(last, rowCount - 1)
  /\ Parsing /\ UNCHANGED <<rowCount, screenOffset, curY, raised, exposed>>

\* Variant: nothing to flush, and the lock is kept.
EndOfDataKeepsLock ==
  /\ pc = "parse" /\ ~raised /\ budget = 0
  /\ UNCHANGED budget
  /\ \/ flushScreen(End)
     \/ last < 0 /\ UNCHANGED vars

\* The end of the buffer: a last flush, then the lock is given up.
EndOfData ==
  /\ pc = "parse" /\ ~raised /\ budget = 0
  /\ UNCHANGED budget
  /\ \/ flushScreen(End)
     \/ /\ last < 0
        /\ pc' = "idle"
        /\ UNCHANGED <<screenVars, viewVars, block, pending, ui, newRows, raised, history>>

\* flushScreen returns with the lock, to newDataAvailableIn or to addLine.
Relock ==
  /\ pc = "relock" /\ ~raised
  /\ pending' = End
  /\ \/ pending = End /\ pc' = "idle" /\ UNCHANGED <<screenVars, raised>>
     \/ pending # End /\ pc' = "parse" /\ addLineNow(pending)
  /\ UNCHANGED <<viewVars, block, budget, ui, newRows, history>>

Parse ==
  \/ cursorToRow \/ cursorUp \/ cursorDown
  \/ LineFeed \/ ScrollUp \/ WriteChar \/ deleteInScreen
  \/ EndOfData \/ Relock

(***************************************************************************)
(* The main thread.                                                        *)
(***************************************************************************)

flushScreenOnUI ==
  /\ pc = "flush" /\ ui = "idle" /\ ~raised /\ pc' = "relock"
  /\ AfterBlock(/\ first' = Unlocked.first
                /\ last' = Unlocked.last
                /\ UNCHANGED <<screen, rowCount, screenOffset, curY, history>>)
  /\ UNCHANGED <<pending, budget, ui, newRows>>

\* The screen is taken from the end of the view, and the cursor is put where
\* savedCursorChar is found there.  The view is the one the block left.
setContent(rows, f, l, y) ==
  LET v      == Unlocked.view
      offset == Largest(0, Len(v) - rows)
      found  == Unlocked.saved > offset /\ Unlocked.saved <= Len(v)
      row    == Smallest(Unlocked.saved - offset - 1, rows - 1)
  IN /\ rowCount' = rows
     /\ screenOffset' = offset
     /\ screen' = [i \in 1..rows |-> At(v, offset + i)]
     /\ curY' = IF found THEN row ELSE y
     /\ first' = IF found THEN Low(Low(f, y), row) ELSE f
     /\ last' = IF found THEN High(High(l, y), row) ELSE l

\* setTerminalSize and setWidth: the view changed its height.
ResizeStart ==
  /\ ui = "idle" /\ ~raised
  /\ \E r \in (MinRows..MaxRows) \ {rowCount} :
       /\ r - rowCount \in (-MaxStep)..MaxStep
       /\ newRows' = r
  /\ ui' = "resize"
  /\ UNCHANGED <<screenVars, viewVars, block, pc, pending, budget, raised, history>>

setWidth ==
  /\ ui = "resize" /\ LockFree
  /\ ui' = "idle"
  /\ AfterBlock(/\ setContent(newRows, Unlocked.first, Unlocked.last, curY)
                /\ exposed' = TRUE
                /\ UNCHANGED text)
  /\ UNCHANGED <<pc, pending, budget, newRows>>

\* initScreen deletes the text before resetScreen asks for the lock.
initScreen ==
  /\ ui = "idle" /\ ~raised
  /\ ui' = "reset"
  /\ view' = <<>> /\ newline' = FALSE
  /\ UNCHANGED <<screenVars, saved, displaced, block, pc, pending, budget,
                 newRows, raised, history>>

resetScreen ==
  /\ ui = "reset" /\ LockFree
  /\ ui' = "idle"
  /\ AfterBlock(/\ setContent(rowCount, IntMax, -1, 0)
                /\ text' = [i \in Lines |-> At(Unlocked.view, i)]
                /\ exposed' = (exposed \/ pc # "idle"))
  /\ UNCHANGED <<pc, pending, budget, newRows>>

Main == flushScreenOnUI \/ setWidth \/ resetScreen

-----------------------------------------------------------------------------

\* What follows an exception is not modelled.
Aborted == raised /\ UNCHANGED vars

Next ==
  \/ \E n \in 0..MaxChunk : newDataAvailableIn(n)
  \/ Parse
  \/ Main
  \/ ResizeStart
  \/ initScreen
  \/ Aborted

Spec == Init /\ [][Next]_vars

\* A buffer of data is finite and its thread runs on; the main thread serves
\* its queue between events, however many there are.  The lock is free between
\* two buffers only: strong fairness for the thread that waits for it.
Fairness ==
  /\ WF_vars(Parse)
  /\ SF_vars(flushScreenOnUI)
  /\ SF_vars(setWidth \/ resetScreen)

FairSpec == Spec /\ Fairness

-----------------------------------------------------------------------------

TypeOK ==
  /\ view \in Seq(Line) /\ newline \in BOOLEAN /\ saved \in Nat
  /\ rowCount \in MinRows..MaxRows
  /\ screen \in [1..rowCount -> Line]
  /\ screenOffset \in Nat /\ first \in Int /\ last \in Int /\ curY \in Nat
  /\ block \in BOOLEAN
  /\ pc \in {"idle", "parse", "flush", "relock"}
  /\ pending \in {End} \cup 0..MaxRows
  /\ budget \in 0..MaxChunk
  /\ ui \in {"idle", "resize", "reset"} /\ newRows \in MinRows..MaxRows
  /\ raised \in BOOLEAN /\ exposed \in BOOLEAN
  /\ displaced \in BOOLEAN
  /\ text \in [Lines -> Line]

\* Between deleting the text and resetScreen the view belongs to nobody.
Running == ~raised /\ ui # "reset"

\* The rows of the screen are on their lines of the view.  A flush with no row
\* of the screen invalid, but rows below it (after a shrink, 2490-2531, or
\* addLine with 0), copies nothing behind the line feed the text then ends with
\* (1957-1970), and the one after that puts the rows one line too low.
Placed == Running /\ ~displaced

\* What scrolled off the screen stays in the view, line by line, as it was
\* written: addLine (171-193) never drops a row the view does not have.
ScrollbackKept == Placed =>
  \A i \in Lines : i <= screenOffset => At(view, i) = text[i]

\* The rows of the screen are what was last written on the lines of the view
\* they stand for, also after any resize has rebuilt the screen (2387-2457).
\* As long as the view keeps its height and is not reset under the parser, and
\* the program at the other end does not ask for a scroll of no lines, no
\* command and no flush leaves the screen or displaces it.
ScreenIsWindow ==
  /\ Placed => \A r \in 1..rowCount : screen[r] = At(text, screenOffset + r)
  /\ raised \/ displaced => exposed

\* A row the view shows wrong is in the range the next flush copies
\* (firstInvalidLine to the row the block of 1915-2047 ends with).
StaleIsInvalid == Placed =>
  \A r \in 0..(rowCount - 1) :
    At(view, screenOffset + r + 1) # At(text, screenOffset + r + 1)
      => /\ first <= r
         /\ last >= 0 /\ (screenOffset = 0 => r <= Largest(last, Len(view) - 1))

\* "Transfer lines from the view to the screen, and restore the cursor
\* position" (2423): however the view's height changes, the cursor is on a row
\* the screen has.
CursorOnScreen == Running => curY < rowCount

\* Parser and main thread wait for each other without end in no case: the
\* dispatch_sync (2050) returns to the parser, whatever the main thread does,
\* and the main thread gets the lock however much data the parser is given
\* (2070).
NobodyWaitsForEver ==
  /\ pc = "flush" ~> (pc # "flush" /\ ~block) \/ raised
  /\ ui # "idle" ~> ui = "idle" \/ raised
=============================================================================
