--------------------------- MODULE TelnetTerminal ---------------------------
(***************************************************************************)
(* The telnet controller (SshTerminal/TelnetTerminal.m) and the telnet     *)
(* sample application (TelnetTerminalClient/AppDelegate.m) on the main     *)
(* thread, with one connection object after the other behind them: the     *)
(* n-th call of connect allocates the n-th.  The events of a connection    *)
(* say nothing of their sender, and the view goes on writing to the last   *)
(* connection it was given.                                                *)
(***************************************************************************)
EXTENDS TelnetLine

CONSTANT MaxSessions   \* bound: the calls of connect

ASSUME TerminalAssumption == MaxSessions \in Nat \ {0}

VARIABLES
  state,              \* telnetTerminal...
  connection,         \* the number of the connection object, 0 for nil
  sessions,           \* how many were allocated
  line,               \* what each of them is doing
  mainQueue,          \* events on their way to signalError
  connectEnabled,
  disconnectEnabled,
  asking              \* history: Disconnect was pressed and not answered

controlVars == <<state, connection, sessions>>
buttons == <<connectEnabled, disconnectEnabled>>
vars == <<controlVars, line, mainQueue, buttons, asking>>

nil == 0
Session == 1..MaxSessions

Init ==
  /\ state = "Disconnected" /\ connection = nil /\ sessions = 0
  /\ line = [c \in Session |-> Allocated]
  /\ mainQueue = <<>>
  /\ connectEnabled = TRUE /\ disconnectEnabled = FALSE
  /\ asking = FALSE

\* What a method of the main thread dispatches to a connection; a message to
\* nil does nothing.
Send(object, task) ==
  line' = IF object = nil THEN line
          ELSE [line EXCEPT ![object] = Dispatched(@, task)]

(***************************************************************************)
(* What the application calls.  Each returns at once in the wrong state.   *)
(***************************************************************************)

connect ==
  \/ state # "Disconnected" /\ UNCHANGED <<controlVars, line>>
  \/ /\ state = "Disconnected"
     /\ state' = "Connected"
     /\ sessions' = sessions + 1
     /\ connection' = sessions'
     /\ Send(sessions', "connect")

\* Variant: the connection is let go at once.
disconnectDropsConnection ==
  \/ connection = nil /\ UNCHANGED <<controlVars, line>>
  \/ /\ connection # nil
     /\ state' = "Disconnected" /\ connection' = nil
     /\ Send(connection, "disconnect")
     /\ UNCHANGED sessions

disconnect ==
  \/ /\ connection = nil \/ state = "Disconnected"
     /\ UNCHANGED <<controlVars, line>>
  \/ /\ connection # nil /\ state # "Disconnected"
     /\ state' = "Disconnected"
     /\ Send(connection, "disconnect")
     /\ UNCHANGED <<connection, sessions>>

\* Variant: the delegate is not told of an end it asked for.
signalUnaskedError(code, told) ==
  \/ /\ code = "CONNECTED" /\ told = "connected"
     /\ UNCHANGED controlVars
  \/ /\ code = "DISCONNECTED"
     /\ told = IF state = "Disconnected" THEN "nothing" ELSE "disconnected"
     /\ state' = "Disconnected" /\ connection' = nil
     /\ UNCHANGED sessions

\* An event, whoever it is from; told is the delegate's method it calls.
signalError(code, told) ==
  \/ /\ code = "CONNECTED" /\ told = "connected"
     /\ UNCHANGED controlVars
  \/ /\ code = "DISCONNECTED" /\ told = "disconnected"
     /\ state' = "Disconnected" /\ connection' = nil
     /\ UNCHANGED sessions

(***************************************************************************)
(* The application, the view and the queues.                               *)
(***************************************************************************)

PressConnect ==
  /\ connectEnabled /\ sessions < MaxSessions
  /\ connect
  /\ connectEnabled' = FALSE
  /\ UNCHANGED <<mainQueue, disconnectEnabled, asking>>

PressDisconnect ==
  /\ disconnectEnabled
  /\ disconnect
  /\ connectEnabled' = FALSE
  /\ asking' = TRUE
  /\ UNCHANGED <<mainQueue, disconnectEnabled>>

\* A key: the view's connection is the last one, ended or not.
Type ==
  /\ sessions # 0
  /\ Len(line[sessions].queue) < MaxQueue /\ Len(line[sessions].events) < MaxEvents
  /\ Send(sessions, "write")
  /\ UNCHANGED <<controlVars, mainQueue, buttons, asking>>

Deliver ==
  /\ mainQueue # <<>>
  /\ mainQueue' = Tail(mainQueue)
  /\ \E told \in {"connected", "disconnected", "nothing"} :
       /\ signalError(Head(mainQueue), told)
       /\ connectEnabled' = (connectEnabled \/ told = "disconnected")
       /\ disconnectEnabled' = (told = "connected" \/ (disconnectEnabled /\ told = "nothing"))
       /\ asking' = (asking /\ told # "disconnected")
  /\ UNCHANGED line

\* A step of a connection; what it notifies goes to the main queue.
LineStep(c, next) ==
  /\ line' = [line EXCEPT ![c] = next]
  /\ mainQueue' = mainQueue \o
       SubSeq(next.events, Len(line[c].events) + 1, Len(next.events))
  /\ UNCHANGED <<controlVars, buttons, asking>>

Work(c) == \E next \in Tasks(line[c]) : LineStep(c, next)
SourceFires(c) == \E next \in Fires(line[c]) : LineStep(c, next)

Next ==
  \/ PressConnect \/ PressDisconnect \/ Type \/ Deliver
  \/ \E c \in Session : Work(c) \/ SourceFires(c)

Spec == Init /\ [][Next]_vars

\* The queues are served; the user need not press anything, the server need
\* not send anything.
FairSpec == Spec /\ \A c \in Session : WF_vars(Work(c)) /\ WF_vars(Deliver)

-----------------------------------------------------------------------------

\* Besides the types, a bound: no connection's queue grows with the data that
\* arrives, for a source that waits for its handler does not fire.
TypeOK ==
  /\ state \in {"Disconnected", "Connected"}
  /\ connection \in 0..MaxSessions /\ sessions \in 0..MaxSessions
  /\ line \in [Session -> LineType]
  /\ \A c \in Session : Len(line[c].queue) <= MaxQueue + MaxFailures + 4
  /\ mainQueue \in Seq(Code)
  /\ connectEnabled \in BOOLEAN /\ disconnectEnabled \in BOOLEAN
  /\ asking \in BOOLEAN

Live(c) == c <= sessions /\ ~Has(line[c], "DISCONNECTED")

\* A connection that notified something after its end: a second end, or the
\* CONNECTED of a password that was queued behind the end.
Late(c) == \E i, j \in DOMAIN line[c].events :
  i < j /\ line[c].events[i] = "DISCONNECTED"

\* The controller loses a connection that has not ended, which nobody can end
\* any more, only to an end that an earlier connection reported a second time
\* (signalError takes it for its own, 512-521).
SessionsAreOwned ==
  \A c \in Session : Live(c) /\ c # connection =>
    \E d \in 1..(c - 1) : Late(d)

\* A user who presses Disconnect is told "disconnected", unless a connection
\* notified something after its end: then the buttons may offer to disconnect
\* what the controller has let go of.
DisconnectIsAnswered ==
  asking ~> ~asking \/ \E c \in Session : Late(c)
=============================================================================
