----------------------- MODULE SshTerminalClientProofs -----------------------
(***************************************************************************)
(* The controller's two connections, for any number of sessions, any       *)
(* tunnels and any bounds, and a user who is Patient.  A connection is in  *)
(* one of nine parts of its life, by what its queue may still hold; a      *)
(* session of the controller is in one of seven stages, by the parts its   *)
(* one or two connections are in and by what of them is on its way.        *)
(***************************************************************************)
EXTENDS SshTerminalClient, SshConnectionProofs

----------------------------------------------------------------------------
(* The life of a connection, by what is queued and what is armed.          *)

LoginTask == {"connect", "authenticateServer", "authenticateUser",
              "openTerminalChannel", "openTunnelChannels"}
TunnelTask == {"tunnelSource", "newSshDataAvailable", "listenSource",
               "localSource"}
DataTask == TunnelTask \cup {"terminalSource", "newTerminalDataAvailable"}

(* No source of it fires. *)
Quiet(c) ==
  /\ ~isClosing[c] /\ readSource[c] \notin Armed
  /\ alive[c] = {} /\ listening[c] = {}

(* Not started yet, or its login has failed and is undone. *)
Resting(c) ==
  /\ queue[c] = <<>> /\ Quiet(c)
  /\ session[c] # "connected" /\ ~socketFd[c]

LoggingIn(c) ==
  /\ Quiet(c)
  /\ \E task \in LoginTask :
       queue[c] = <<task>> /\ (task # "connect" => session[c] = "connected")

(* For the user's answer; or, after SERVER_ERROR, for good. *)
Waiting(c) == queue[c] = <<>> /\ Quiet(c) /\ session[c] = "connected"

Failing(c) == queue[c] = <<"disconnect">> /\ Quiet(c)

(* Before it served anything. *)
Stopping(c) ==
  queue[c] # <<>> /\ queue[c] \in Seq({"closeAllChannels"}) /\ Quiet(c)

Serving(c) ==
  /\ session[c] = "connected" /\ ~isClosing[c]
  /\ queue[c] \in Seq(DataTask \cup {"closeAllChannels"})

(* It serves tunnels, and nobody has asked it to end. *)
Carrying(c) ==
  /\ session[c] = "connected" /\ ~isClosing[c]
  /\ readSource[c] = "tunnel" /\ queue[c] \in Seq(TunnelTask)

Closed(c) ==
  /\ isClosing[c] /\ readSource[c] = "null" /\ channel[c] = "null"
  /\ listening[c] = {} /\ reverseTunnels[c] = {}

ClosingTask == DataTask \cup {"closeAllChannels", "purge"}

Closing(c) ==
  /\ Closed(c) /\ queue[c] \in Seq(ClosingTask \cup {"disconnect"})
  /\ \A i, j \in 1..Len(queue[c]) :
       queue[c][i] = "disconnect" /\ queue[c][j] = "disconnect" => i = j

Ended(c) ==
  /\ session[c] # "connected" /\ ~socketFd[c]
  /\ Closed(c) /\ queue[c] \in Seq(ClosingTask)

Over(c) == Ended(c) \/ Resting(c)

----------------------------------------------------------------------------
(* What of it is on its way to the controller.                             *)

Pend(c, code) == \E i \in 1..Len(mainQueue) :
  mainQueue[i].caller = c /\ mainQueue[i].code = code

NoEvent(c) == \A i \in 1..Len(mainQueue) : mainQueue[i].caller # c

Silent(c) ==
  ~Pend(c, "MISMATCH") /\ ~Pend(c, "CONNECTED") /\ ~Pend(c, "DISCONNECTED")

Live(c) ==
  \/ (LoggingIn(c) \/ Failing(c) \/ Stopping(c)) /\ Silent(c)
  \/ Waiting(c) /\ ~Pend(c, "CONNECTED") /\ ~Pend(c, "DISCONNECTED")
  \/ (Serving(c) \/ Closing(c))
       /\ ~Pend(c, "MISMATCH") /\ ~Pend(c, "DISCONNECTED")
  \/ Ended(c) /\ ~Pend(c, "MISMATCH")
  \/ Resting(c) /\ ~Pend(c, "MISMATCH") /\ ~Pend(c, "CONNECTED")

(* It may be asked to close all its channels. *)
Stoppable(c) ==
  \/ Stopping(c) /\ Silent(c)
  \/ (Serving(c) \/ Closing(c))
       /\ ~Pend(c, "MISMATCH") /\ ~Pend(c, "DISCONNECTED")
  \/ Ended(c) /\ ~Pend(c, "MISMATCH")

(* It has been asked. *)
Stopped(c) ==
  \/ (Stopping(c) \/ Closing(c)) /\ Silent(c)
  \/ Ended(c) /\ ~Pend(c, "MISMATCH") /\ ~Pend(c, "CONNECTED")

(* DISCONNECTED is the last event of a connection, and it connects once, and
   asks once at a time. *)
Orderly ==
  \A i, j \in 1..Len(mainQueue) :
    mainQueue[i].caller = mainQueue[j].caller =>
      /\ i < j => mainQueue[i].code # "DISCONNECTED"
      /\ mainQueue[i].code = mainQueue[j].code
           /\ mainQueue[i].code \in {"MISMATCH", "CONNECTED"} => i = j

----------------------------------------------------------------------------
(* The stages of a session of the controller.                              *)

Open == ~isConnectionClosed /\ ~isJumpClosed

Resumes(c) ==
  resumeTitle => /\ state = "Paused" /\ paused = c
                 /\ Waiting(c) /\ Silent(c) /\ ~loggedIn

Between ==
  /\ connection = nil /\ jump = nil /\ Open
  /\ state = "Disconnected" /\ ~loggedIn /\ ~resumeTitle

Alone(c) ==
  /\ connection = c /\ jump = nil /\ socketHost[c] = nil /\ Open
  /\ Live(c) /\ Resumes(c) /\ (loggedIn => Stoppable(c))

Held(c, j) == connection = c /\ jump = j /\ c # j /\ socketHost[j] = nil

Before(c, j) ==
  /\ Held(c, j) /\ socketHost[c] = nil /\ Open
  /\ Resting(c) /\ NoEvent(c) /\ Live(j)
  /\ (Pend(j, "CONNECTED") /\ listening[j] # {} => Carrying(j))
  /\ Resumes(j) /\ ~loggedIn

Through(c, j) ==
  /\ Held(c, j) /\ socketHost[c] = j /\ Open
  /\ Live(c) /\ Carrying(j) /\ Silent(j)
  /\ Resumes(c) /\ (loggedIn => Stoppable(c))

Asked(c, j) ==
  /\ Held(c, j) /\ socketHost[c] = nil /\ Open
  /\ Stopped(c) /\ Stopped(j) /\ ~resumeTitle /\ ~loggedIn

JumpGone(c, j) ==
  /\ Held(c, j) /\ socketHost[c] = nil /\ ~isConnectionClosed /\ isJumpClosed
  /\ Stopped(c) /\ Over(j) /\ NoEvent(j) /\ ~resumeTitle /\ ~loggedIn

ConnectionGone(c, j) ==
  /\ Held(c, j) /\ isConnectionClosed /\ ~isJumpClosed
  /\ Over(c) /\ NoEvent(c) /\ (loggedIn => Ended(c))
  /\ Stoppable(j) /\ ~Pend(j, "CONNECTED") /\ ~resumeTitle

WithJump(c, j) ==
  \/ Before(c, j) \/ Through(c, j) \/ Asked(c, j) \/ JumpGone(c, j)
  \/ ConnectionGone(c, j)

Stage == \/ Between
         \/ \E c \in Conn : Alone(c)
         \/ \E c, j \in Conn : WithJump(c, j)

Others == \A c \in Conn : c \notin {connection, jump} => Over(c) /\ NoEvent(c)

Unused == \A i \in 1..Len(Connection) : i > sessions =>
  /\ Resting(Connection[i]) /\ socketHost[Connection[i]] = nil
  /\ Resting(Jump[i]) /\ socketHost[Jump[i]] = nil

Current ==
  /\ connection # nil => sessions # 0 /\ connection = Connection[sessions]
  /\ jump # nil => sessions # 0 /\ jump = Jump[sessions]

Buttons ==
  /\ paused # nil => resumeTitle
  /\ connectEnabled /\ ~resumeTitle => connection = nil

ClientInv ==
  TypeOK /\ Orderly /\ Stage /\ Others /\ Unused /\ Current /\ Buttons

----------------------------------------------------------------------------
(* The tasks of one connection: from one part of its life to the next, and *)
(* what it tells on the way.                                               *)

Unchanging(c) == UNCHANGED <<readSource, channel, isClosing, tunnelVars>>

LEMMA TaskRuns ==
  ASSUME NEW c \in Conn, NEW task, Running(c, task), Work(c)
  PROVE  /\ task = "connect" => Connect(c)
         /\ task = "authenticateServer" => AuthenticateServer(c)
         /\ task = "authenticateUser" => AuthenticateUser(c)
         /\ task = "openTerminalChannel" => OpenTerminalChannel(c)
         /\ task = "openTunnelChannels" => OpenTunnelChannels(c)
         /\ task = "closeAllChannels" => CloseAllChannels(c)
         /\ task = "purge" => Purge(c)
         /\ task = "disconnect" => Disconnect(c)
         /\ task \in {"terminalSource", "newTerminalDataAvailable"} =>
              NewTerminalDataAvailable(c)
         /\ task \in TunnelTask =>
              \/ NewSshDataAvailable(c) \/ NewTunnelConnection(c)
              \/ NewLocalDataAvailable(c)
<1>1. CASE Connect(c) \/ AuthenticateServer(c) \/ AuthenticateUser(c)
             \/ OpenTerminalChannel(c) \/ OpenTunnelChannels(c)
  BY <1>1 DEF Connect, AuthenticateServer, AuthenticateUser,
    OpenTerminalChannel, OpenTunnelChannels, Running, TunnelTask
<1>2. CASE CloseAllChannels(c) \/ Purge(c) \/ Disconnect(c)
  BY <1>2 DEF CloseAllChannels, Purge, Disconnect, Running, TunnelTask
<1>3. CASE NewTerminalDataAvailable(c)
  <2>1. task \in {"terminalSource", "newTerminalDataAvailable"}
    BY <1>3 DEF NewTerminalDataAvailable, Dropped, Running
  <2> QED
    BY <1>3, <2>1 DEF TunnelTask
<1>4. CASE NewSshDataAvailable(c) \/ NewTunnelConnection(c)
             \/ NewLocalDataAvailable(c)
  <2>1. task \in TunnelTask
    BY <1>4 DEF NewSshDataAvailable, NewTunnelConnection,
      NewLocalDataAvailable, Dropped, Running, TunnelTask
  <2> QED
    BY <1>4, <2>1 DEF TunnelTask
<1> QED
  BY <1>1, <1>2, <1>3, <1>4 DEF Work

LEMMA FinishOne ==
  ASSUME queue \in [Conn -> Seq(Task)], NEW c \in Conn, NEW task \in Task,
         queue[c] = <<task>>, NEW tasks \in Seq(Task), Finish(c, tasks)
  PROVE  queue'[c] = tasks
<1>1. Tail(queue[c]) = <<>>
  OBVIOUS
<1>2. <<>> \o tasks = tasks
  OBVIOUS
<1> QED
  BY <1>1, <1>2 DEF Finish

LEMMA FinishIn ==
  ASSUME queue \in [Conn -> Seq(Task)], NEW c \in Conn, queue[c] # <<>>,
         NEW S, queue[c] \in Seq(S), NEW tasks \in Seq(S), Finish(c, tasks)
  PROVE  queue'[c] \in Seq(S)
<1>1. ASSUME NEW q \in Seq(S), q # <<>>
      PROVE  Tail(q) \o tasks \in Seq(S)
  BY <1>1
<1>2. queue'[c] = Tail(queue[c]) \o tasks
  BY DEF Finish
<1> QED
  BY <1>1, <1>2

LEMMA DispatchIn ==
  ASSUME queue \in [Conn -> Seq(Task)], NEW c \in Conn,
         NEW S, queue[c] \in Seq(S), NEW task \in S, Dispatch(c, task)
  PROVE  queue'[c] \in Seq(S)
<1>1. ASSUME NEW q \in Seq(S)
      PROVE  Append(q, task) \in Seq(S)
  BY <1>1
<1>2. queue'[c] = Append(queue[c], task)
  BY DEF Dispatch
<1> QED
  BY <1>1, <1>2

(* The task at the head is one of those the queue is made of. *)
LEMMA HeadIn ==
  ASSUME NEW S, NEW q \in Seq(S), q # <<>>
  PROVE  Head(q) \in S /\ q[1] = Head(q)
OBVIOUS

LEMMA WorkHasTask ==
  ASSUME NEW c \in Conn, Work(c)
  PROVE  queue[c] # <<>>
BY DEF Work, Connect, AuthenticateServer, AuthenticateUser,
  OpenTerminalChannel, OpenTunnelChannels, CloseAllChannels, Purge, Disconnect,
  NewTerminalDataAvailable, NewSshDataAvailable, NewTunnelConnection,
  NewLocalDataAvailable, Dropped, Running

LEMMA QuietSources ==
  ASSUME NEW c \in Conn, Quiet(c), SourceFires(c)
  PROVE  FALSE
BY DEF Quiet, SourceFires, Readable, SourceTask, Armed

LEMMA RestingSteps ==
  ASSUME NEW c \in Conn, Resting(c) \/ Waiting(c), Work(c) \/ SourceFires(c)
  PROVE  FALSE
BY WorkHasTask, QuietSources DEF Resting, Waiting

LEMMA FailingSteps ==
  ASSUME ConnTypeOK, NEW c \in Conn, Failing(c), Work(c) \/ SourceFires(c)
  PROVE  Resting(c)' /\ eventNotify(c, <<"DISCONNECTED">>)
<1>1. Running(c, "disconnect") /\ Work(c)
  BY QuietSources DEF Failing, Running
<1>2. Disconnect(c)
  BY <1>1, TaskRuns
<1>3. queue'[c] = <<>>
  BY <1>2, FinishOne, TaskLists DEF Disconnect, Failing, ConnTypeOK, Task
<1>4. session'[c] # "connected" /\ ~socketFd'[c]
  BY <1>2 DEF Disconnect, CloseSocket, ConnTypeOK
<1> QED
  BY <1>2, <1>3, <1>4 DEF Disconnect, Failing, Resting, Quiet, tunnelVars,
    connectionVars

LEMMA LoggingInSteps ==
  ASSUME ConnTypeOK, NEW c \in Conn, LoggingIn(c), Work(c) \/ SourceFires(c)
  PROVE  \/ LoggingIn(c)' /\ UNCHANGED mainQueue
         \/ /\ Waiting(c)'
            /\ eventNotify(c, <<"MISMATCH">>) \/ eventNotify(c, <<"SERVER_ERROR">>)
         \/ /\ Failing(c)' \/ Stopping(c)'
            /\ eventNotify(c, <<"ERROR">>) \/ eventNotify(c, <<"ERROR", "ERROR">>)
         \/ /\ Serving(c)' /\ (listening'[c] # {} => Carrying(c)')
            /\ \/ eventNotify(c, <<"CONNECTED">>)
               \/ eventNotify(c, <<"ERROR", "CONNECTED">>)
<1>1. PICK task \in LoginTask :
        queue[c] = <<task>> /\ (task # "connect" => session[c] = "connected")
  BY DEF LoggingIn
<1>2. Running(c, task) /\ Work(c) /\ task \in Task
  BY <1>1, QuietSources DEF LoggingIn, Running, LoginTask, Task
<1>3. ASSUME NEW tasks \in Seq(Task), Finish(c, tasks)
      PROVE  queue'[c] = tasks
  BY <1>1, <1>2, <1>3, FinishOne DEF ConnTypeOK
<1>4. /\ <<>> \in Seq(Task) /\ <<"disconnect">> \in Seq(Task)
      /\ <<"closeAllChannels">> \in Seq(Task)
      /\ \A t \in LoginTask : <<t>> \in Seq(Task)
  BY TaskLists DEF Task, LoginTask
<1>5. /\ <<"closeAllChannels">> # <<>>
      /\ <<"closeAllChannels">> \in Seq({"closeAllChannels"})
      /\ <<>> \in Seq(DataTask \cup {"closeAllChannels"})
      /\ <<>> \in Seq(TunnelTask)
  OBVIOUS
<1>6. CASE task = "connect"
  <2>1. Connect(c)
    BY <1>2, <1>6, TaskRuns
  <2>2. Quiet(c)'
    BY <2>1 DEF Connect, Quiet, LoggingIn, tunnelVars, connectionVars
  <2>3. CASE ConnectRefused(c) \/ HandshakeFailed(c)
    <3>1. queue'[c] = <<"disconnect">> /\ eventNotify(c, <<"ERROR">>)
      BY <1>3, <1>4, <2>3 DEF ConnectRefused, HandshakeFailed
    <3> QED
      BY <2>2, <3>1 DEF Failing
  <2>4. CASE ConnectAccepted(c)
    <3>1. queue'[c] = <<"authenticateServer">> /\ session'[c] = "connected"
      BY <1>3, <1>4, <2>4 DEF ConnectAccepted, LoginTask, ConnTypeOK
    <3> QED
      BY <2>2, <2>4, <3>1 DEF LoggingIn, LoginTask, ConnectAccepted
  <2> QED
    BY <2>1, <2>3, <2>4 DEF Connect
<1>7. CASE task = "authenticateServer"
  <2>1. AuthenticateServer(c)
    BY <1>2, <1>7, TaskRuns
  <2>2. Quiet(c)' /\ session'[c] = "connected"
    BY <1>1, <1>7, <2>1 DEF AuthenticateServer, Quiet, LoggingIn, resources,
      tunnelVars, connectionVars
  <2>3. CASE Finish(c, <<"authenticateUser">>) /\ UNCHANGED mainQueue
    <3>1. queue'[c] = <<"authenticateUser">>
      BY <1>3, <1>4, <2>3 DEF LoginTask
    <3> QED
      BY <2>2, <2>3, <3>1 DEF LoggingIn, LoginTask
  <2>4. CASE /\ Finish(c, <<>>)
             /\ \/ eventNotify(c, <<"MISMATCH">>)
                \/ eventNotify(c, <<"SERVER_ERROR">>)
    <3>1. queue'[c] = <<>>
      BY <1>3, <1>4, <2>4
    <3> QED
      BY <2>2, <2>4, <3>1 DEF Waiting
  <2> QED
    BY <2>1, <2>3, <2>4 DEF AuthenticateServer
<1>8. CASE task = "authenticateUser"
  <2>1. AuthenticateUser(c)
    BY <1>2, <1>8, TaskRuns
  <2>2. Quiet(c)' /\ session'[c] = "connected"
    BY <1>1, <1>8, <2>1 DEF AuthenticateUser, Quiet, LoggingIn, resources,
      tunnelVars, connectionVars
  <2>3. CASE KeyUnusable(c)
    BY <1>3, <1>4, <1>5, <2>2, <2>3 DEF KeyUnusable, Stopping
  <2>4. CASE UserRefused(c)
    BY <1>3, <1>4, <2>2, <2>4 DEF UserRefused, Failing
  <2>5. CASE UserAccepted(c)
    <3>1. PICK t \in {"openTunnelChannels", "openTerminalChannel"} :
            Finish(c, <<t>>)
      BY <2>5 DEF UserAccepted
    <3>2. queue'[c] = <<t>>
      BY <1>3, <1>4, <3>1 DEF LoginTask
    <3> QED
      BY <2>2, <2>5, <3>2 DEF UserAccepted, LoggingIn, LoginTask
  <2> QED
    BY <2>1, <2>3, <2>4, <2>5 DEF AuthenticateUser
<1>9. CASE task = "openTerminalChannel"
  <2>1. OpenTerminalChannel(c)
    BY <1>2, <1>9, TaskRuns
  <2>2. /\ session'[c] = "connected" /\ ~isClosing'[c]
        /\ alive'[c] = {} /\ listening'[c] = {}
    BY <1>1, <1>9, <2>1 DEF OpenTerminalChannel, Quiet, LoggingIn, resources,
      tunnelVars, connectionVars
  <2>3. CASE OpenTerminalOutOfMemory(c)
    <3>1. readSource'[c] \notin Armed
      BY <2>3 DEF OpenTerminalOutOfMemory, Armed, ConnTypeOK
    <3> QED
      BY <1>3, <1>4, <2>2, <2>3, <3>1
        DEF OpenTerminalOutOfMemory, Failing, Quiet
  <2>4. CASE OpenTerminalRefused(c)
    <3>1. readSource'[c] \notin Armed
      BY <2>4 DEF OpenTerminalRefused, Armed, ConnTypeOK
    <3> QED
      BY <1>3, <1>4, <1>5, <2>2, <2>4, <3>1
        DEF OpenTerminalRefused, Stopping, Quiet
  <2>5. CASE OpenTerminalAccepted(c)
    BY <1>3, <1>4, <1>5, <2>2, <2>5 DEF OpenTerminalAccepted, Serving
  <2> QED
    BY <2>1, <2>3, <2>4, <2>5 DEF OpenTerminalChannel
<1>10. CASE task = "openTunnelChannels"
  <2>1. OpenTunnelChannels(c)
    BY <1>2, <1>10, TaskRuns
  <2>2. session'[c] = "connected" /\ ~isClosing'[c] /\ alive'[c] = {}
    BY <1>1, <1>10, <2>1 DEF OpenTunnelChannels, Quiet, LoggingIn, resources,
      connectionVars
  <2>3. CASE /\ readSource' = [readSource EXCEPT ![c] = "null"]
             /\ Finish(c, <<"disconnect">>)
             /\ eventNotify(c, <<"ERROR">>)
             /\ UNCHANGED <<tunnelVars, openedLate>>
    <3>1. readSource'[c] \notin Armed /\ listening'[c] = {}
      BY <2>3 DEF Armed, ConnTypeOK, LoggingIn, Quiet, tunnelVars
    <3> QED
      BY <1>3, <1>4, <2>2, <2>3, <3>1 DEF Failing, Quiet
  <2>4. CASE /\ readSource' = [readSource EXCEPT ![c] = "tunnel"]
             /\ Finish(c, <<>>)
             /\ OpenTunnels(c)
    <3>1. readSource'[c] = "tunnel" /\ queue'[c] = <<>>
      BY <1>3, <1>4, <2>4 DEF ConnTypeOK
    <3>2. \/ eventNotify(c, <<"CONNECTED">>)
          \/ eventNotify(c, <<"ERROR", "CONNECTED">>)
      BY <2>4 DEF OpenTunnels
    <3> QED
      BY <1>5, <2>2, <3>1, <3>2 DEF Serving, Carrying
  <2> QED
    BY <2>1, <2>3, <2>4 DEF OpenTunnelChannels
<1> QED
  BY <1>6, <1>7, <1>8, <1>9, <1>10 DEF LoginTask

(* The first close: the disconnect behind the purge is the only one.       *)
LEMMA CloseFirst ==
  ASSUME ConnTypeOK, NEW c \in Conn, queue[c] # <<>>,
         queue[c] \in Seq(ClosingTask), FirstClose(c, <<"purge", "disconnect">>)
  PROVE  Closing(c)'
<1>1. <<"purge", "disconnect">> \in Seq(ClosingTask \cup {"disconnect"})
  BY DEF ClosingTask
<1>2. queue[c] \in Seq(ClosingTask \cup {"disconnect"})
  OBVIOUS
<1>3. queue'[c] \in Seq(ClosingTask \cup {"disconnect"})
  BY <1>1, <1>2, FinishIn DEF FirstClose, ConnTypeOK
<1>4. Closed(c)'
  BY DEF FirstClose, ReleaseChannels, EndTunnels, ConnTypeOK, Closed
<1> DEFINE n == Len(queue[c])
<1>5. <<"purge", "disconnect">> \in Seq(Task)
  BY DEF Task
<1>6. /\ n \in Nat \ {0} /\ Len(queue'[c]) = n - 1 + Len(<<"purge", "disconnect">>)
      /\ \A i \in 1..(n - 1) : queue'[c][i] = queue[c][i + 1]
      /\ \A i \in n..Len(queue'[c]) :
           queue'[c][i] = <<"purge", "disconnect">>[i - (n - 1)]
  BY <1>5, FinishAt DEF FirstClose, ConnTypeOK
<1>7. Len(<<"purge", "disconnect">>) = 2
  OBVIOUS
<1>8. \A i \in 1..n : queue[c][i] \in ClosingTask
  OBVIOUS
<1> HIDE DEF n
<1>9. Len(queue'[c]) = n + 1
  BY <1>6, <1>7
<1>10. ASSUME NEW i \in 1..Len(queue'[c]), queue'[c][i] = "disconnect"
       PROVE  i = n + 1
  <2>1. CASE i \in 1..(n - 1)
    <3>1. i + 1 \in 1..n
      BY <1>6, <2>1
    <3> QED
      BY <1>6, <1>8, <1>10, <2>1, <3>1 DEF ClosingTask, DataTask, TunnelTask
  <2>2. CASE i = n
    <3>1. n \in n..Len(queue'[c]) /\ n - (n - 1) = 1
      BY <1>6, <1>9
    <3>2. queue'[c][n] = "purge"
      BY <1>6, <3>1
    <3> QED
      BY <1>10, <2>2, <3>2
  <2> QED
    BY <1>6, <1>9, <2>1, <2>2
<1> QED
  BY <1>3, <1>4, <1>10 DEF Closing

LEMMA CloseAllOnce ==
  ASSUME ConnTypeOK, NEW c \in Conn, queue[c] # <<>>, ~isClosing[c],
         queue[c] \in Seq(ClosingTask), CloseAll(c)
  PROVE  Closing(c)'
BY CloseFirst DEF CloseAll, CloseAgain

LEMMA StoppingSteps ==
  ASSUME ConnTypeOK, NEW c \in Conn, Stopping(c), Work(c) \/ SourceFires(c)
  PROVE  Closing(c)' /\ UNCHANGED mainQueue
<1>1. Head(queue[c]) = "closeAllChannels" /\ queue[c] # <<>>
  BY HeadIn DEF Stopping
<1>2. Work(c) /\ ~isClosing[c]
  BY QuietSources DEF Stopping, Quiet
<1>3. CloseAllChannels(c)
  BY <1>1, <1>2, TaskRuns DEF Running
<1>4. queue[c] \in Seq(ClosingTask)
  BY DEF Stopping, ClosingTask
<1> QED
  BY <1>1, <1>2, <1>3, <1>4, CloseAllOnce DEF CloseAllChannels

(* What the handlers of data dispatch and tell. *)
Handed == {<<>>, <<"closeAllChannels">>, <<"newTerminalDataAvailable">>,
           <<"newSshDataAvailable">>}
Told(c) == \/ UNCHANGED mainQueue
           \/ eventNotify(c, <<"ERROR">>) \/ eventNotify(c, <<"ERROR", "ERROR">>)

LEMMA TerminalData ==
  ASSUME NEW c \in Conn, NewTerminalDataAvailable(c)
  PROVE  /\ queue[c] # <<>> /\ UNCHANGED resources
         /\ \/ CloseAll(c) /\ UNCHANGED mainQueue
            \/ /\ Unchanging(c) /\ Told(c)
               /\ channel[c] # "open" => UNCHANGED mainQueue
               /\ \E tasks \in Handed : Finish(c, tasks)
<1>1. queue[c] # <<>> /\ UNCHANGED resources
  BY DEF NewTerminalDataAvailable, Dropped, Running
<1>2. CASE TerminalLost(c)
  BY <1>1, <1>2 DEF TerminalLost
<1>3. CASE TerminalServed(c)
  <2>1. UNCHANGED mainQueue \/ eventNotify(c, <<"ERROR">>)
    BY <1>3 DEF TerminalServed, Serve
  <2> QED
    BY <1>1, <1>3, <2>1 DEF TerminalServed, Unchanging, Handed, Told
<1>4. CASE TerminalFailed(c)
  <2>1. eventNotify(c, <<"ERROR">>) \/ eventNotify(c, <<"ERROR", "ERROR">>)
    BY <1>4 DEF TerminalFailed
  <2> QED
    BY <1>1, <1>4, <2>1 DEF TerminalFailed, Unchanging, Handed, Told
<1>5. CASE Dropped(c, "terminalSource", readSource[c] # "terminal")
  BY <1>1, <1>5 DEF Dropped, Unchanging, Handed, Told
<1> QED
  BY <1>2, <1>3, <1>4, <1>5 DEF NewTerminalDataAvailable

LEMMA TunnelData ==
  ASSUME NEW c \in Conn,
         \/ NewSshDataAvailable(c) \/ NewTunnelConnection(c)
         \/ NewLocalDataAvailable(c)
  PROVE  /\ queue[c] # <<>> /\ UNCHANGED resources /\ Unchanging(c)
         /\ UNCHANGED mainQueue \/ eventNotify(c, <<"ERROR">>)
         /\ Closed(c) => UNCHANGED mainQueue
         /\ Finish(c, <<>>) \/ Finish(c, <<"newSshDataAvailable">>)
<1>1. CASE NewSshDataAvailable(c)
  <2>1. CASE Dropped(c, "tunnelSource", readSource[c] # "tunnel")
    BY <2>1 DEF Dropped, Running, Unchanging
  <2>2. CASE Serve(c, reverseTunnels[c] # {} /\ session[c] = "connected")
    <3>1. /\ UNCHANGED mainQueue \/ eventNotify(c, <<"ERROR">>)
          /\ Closed(c) => UNCHANGED mainQueue
      BY <2>2 DEF Serve, Closed
    <3> QED
      BY <1>1, <3>1 DEF NewSshDataAvailable, Dropped, Running, Unchanging
  <2> QED
    BY <1>1, <2>1, <2>2 DEF NewSshDataAvailable
<1>2. CASE NewTunnelConnection(c)
  BY <1>2 DEF NewTunnelConnection, Dropped, Running, Unchanging, Closed
<1>3. CASE NewLocalDataAvailable(c)
  BY <1>3 DEF NewLocalDataAvailable, Dropped, Running, Unchanging
<1> QED
  BY <1>1, <1>2, <1>3

LEMMA HandedLists ==
  ASSUME NEW tasks \in Handed
  PROVE  tasks \in Seq(DataTask \cup {"closeAllChannels"})
<1>1. ASSUME NEW S PROVE <<>> \in Seq(S) /\ \A t \in S : <<t>> \in Seq(S)
  OBVIOUS
<1> DEFINE S == DataTask \cup {"closeAllChannels"}
<1>2. {"closeAllChannels", "newTerminalDataAvailable", "newSshDataAvailable"}
        \subseteq S
  BY DEF DataTask, TunnelTask
<1> HIDE DEF S
<1>3. tasks \in Seq(S)
  BY <1>1, <1>2 DEF Handed
<1> QED
  BY <1>3 DEF S

(* All four handlers. *)
LEMMA DataSteps ==
  ASSUME NEW c \in Conn, NEW task \in DataTask, Running(c, task), Work(c)
  PROVE  /\ queue[c] # <<>> /\ UNCHANGED resources
         /\ \/ CloseAll(c) /\ UNCHANGED mainQueue
            \/ /\ Unchanging(c) /\ Told(c)
               /\ Closed(c) => UNCHANGED mainQueue
               /\ \E tasks \in Handed : Finish(c, tasks)
<1>1. CASE NewTerminalDataAvailable(c)
  BY <1>1, TerminalData DEF Closed
<1>2. CASE \/ NewSshDataAvailable(c) \/ NewTunnelConnection(c)
           \/ NewLocalDataAvailable(c)
  BY <1>2, TunnelData DEF Told, Handed
<1> QED
  BY <1>1, <1>2, TaskRuns DEF DataTask

LEMMA SourceStep ==
  ASSUME NEW c \in Conn, SourceFires(c)
  PROVE  /\ \E task \in SourceTask : Readable(c, task) /\ Dispatch(c, task)
         /\ UNCHANGED resources /\ Unchanging(c) /\ UNCHANGED mainQueue
BY DEF SourceFires, Unchanging

LEMMA ServingSteps ==
  ASSUME ConnTypeOK, NEW c \in Conn, Serving(c), Work(c) \/ SourceFires(c)
  PROVE  \/ Serving(c)' /\ Told(c) /\ (listening'[c] # {} => listening[c] # {})
         \/ Closing(c)' /\ UNCHANGED mainQueue
<1> DEFINE S == DataTask \cup {"closeAllChannels"}
<1>1. queue[c] \in Seq(S) /\ queue[c] \in Seq(ClosingTask)
  BY DEF Serving, ClosingTask
<1>2. CASE Work(c)
  <2>1. Head(queue[c]) \in S /\ queue[c] # <<>>
    BY <1>1, <1>2, HeadIn, WorkHasTask
  <2>2. CASE Head(queue[c]) = "closeAllChannels"
    <3>1. CloseAllChannels(c)
      BY <1>2, <2>1, <2>2, TaskRuns DEF Running
    <3> QED
      BY <1>1, <2>1, <3>1, CloseAllOnce DEF CloseAllChannels, Serving
  <2>3. CASE Head(queue[c]) \in DataTask
    <3>1. Running(c, Head(queue[c]))
      BY <2>1 DEF Running
    <3>2. /\ UNCHANGED resources
          /\ \/ CloseAll(c) /\ UNCHANGED mainQueue
             \/ /\ Unchanging(c) /\ Told(c)
                /\ \E tasks \in Handed : Finish(c, tasks)
      BY <1>2, <2>3, <3>1, DataSteps
    <3>3. CASE CloseAll(c) /\ UNCHANGED mainQueue
      BY <1>1, <2>1, <3>3, CloseAllOnce DEF Serving
    <3>4. ASSUME NEW tasks \in Handed, Finish(c, tasks), Unchanging(c), Told(c)
          PROVE  Serving(c)' /\ (listening'[c] # {} => listening[c] # {})
      <4>1. queue'[c] \in Seq(S)
        BY <1>1, <2>1, <3>4, HandedLists, FinishIn DEF ConnTypeOK
      <4> QED
        BY <3>2, <3>4, <4>1 DEF Serving, Unchanging, resources, tunnelVars
    <3> QED
      BY <3>2, <3>3, <3>4
  <2> QED
    BY <2>1, <2>2, <2>3
<1>3. CASE SourceFires(c)
  <2>1. PICK task \in SourceTask : Dispatch(c, task)
    BY <1>3, SourceStep
  <2>2. task \in S
    BY <2>1 DEF SourceTask, DataTask, TunnelTask
  <2>3. queue'[c] \in Seq(S)
    BY <1>1, <2>1, <2>2, DispatchIn DEF ConnTypeOK
  <2> QED
    BY <1>3, <2>3, SourceStep DEF Serving, Told, Unchanging, resources,
      tunnelVars
<1> QED
  BY <1>2, <1>3

LEMMA CarryingSteps ==
  ASSUME ConnTypeOK, NEW c \in Conn, Carrying(c), Work(c) \/ SourceFires(c)
  PROVE  Carrying(c)' /\ (UNCHANGED mainQueue \/ eventNotify(c, <<"ERROR">>))
<1>1. CASE Work(c)
  <2>1. Head(queue[c]) \in TunnelTask /\ queue[c] # <<>>
    BY <1>1, HeadIn, WorkHasTask DEF Carrying
  <2>2. \/ NewSshDataAvailable(c) \/ NewTunnelConnection(c)
        \/ NewLocalDataAvailable(c)
    BY <1>1, <2>1, TaskRuns DEF Running
  <2>3. <<>> \in Seq(TunnelTask) /\ <<"newSshDataAvailable">> \in Seq(TunnelTask)
    BY DEF TunnelTask
  <2>4. queue'[c] \in Seq(TunnelTask)
    BY <2>1, <2>2, <2>3, TunnelData, FinishIn DEF Carrying, ConnTypeOK
  <2> QED
    BY <2>2, <2>4, TunnelData DEF Carrying, Unchanging, resources
<1>2. CASE SourceFires(c)
  <2>1. PICK task \in SourceTask : Readable(c, task) /\ Dispatch(c, task)
    BY <1>2, SourceStep
  <2>2. task \in TunnelTask
    BY <2>1 DEF SourceTask, TunnelTask, Readable, Carrying
  <2>3. queue'[c] \in Seq(TunnelTask)
    BY <2>1, <2>2, DispatchIn DEF ConnTypeOK, Carrying
  <2> QED
    BY <1>2, <2>3, SourceStep DEF Carrying, Unchanging, resources
<1> QED
  BY <1>1, <1>2

OneDisconnect(c) ==
  \A i, j \in 1..Len(queue[c]) :
    queue[c][i] = "disconnect" /\ queue[c][j] = "disconnect" => i = j

LEMMA FinishKeepsOne ==
  ASSUME queue \in [Conn -> Seq(Task)], NEW c \in Conn, queue[c] # <<>>,
         NEW tasks \in Seq(ClosingTask), Finish(c, tasks), OneDisconnect(c)
  PROVE  OneDisconnect(c)'
<1> DEFINE n == Len(queue[c])
<1>1. tasks \in Seq(Task)
  BY DEF ClosingTask, DataTask, TunnelTask, Task
<1>2. /\ n \in Nat \ {0} /\ Len(tasks) \in Nat
      /\ Len(queue'[c]) = n - 1 + Len(tasks)
      /\ \A i \in 1..(n - 1) : queue'[c][i] = queue[c][i + 1]
      /\ \A i \in n..Len(queue'[c]) : queue'[c][i] = tasks[i - (n - 1)]
  BY <1>1, FinishAt
<1>3. \A i \in 1..Len(tasks) : tasks[i] # "disconnect"
  <2>1. \A i \in 1..Len(tasks) : tasks[i] \in ClosingTask
    OBVIOUS
  <2> QED
    BY <2>1 DEF ClosingTask, DataTask, TunnelTask
<1> HIDE DEF n
<1>4. ASSUME NEW i \in 1..Len(queue'[c]), queue'[c][i] = "disconnect"
      PROVE  i + 1 \in 1..n /\ queue[c][i + 1] = "disconnect"
  <2>1. CASE i \in n..Len(queue'[c])
    <3>1. i - (n - 1) \in 1..Len(tasks)
      BY <1>2, <2>1
    <3> QED
      BY <1>2, <1>3, <1>4, <2>1, <3>1
  <2>2. CASE i \in 1..(n - 1)
    BY <1>2, <1>4, <2>2
  <2> QED
    BY <1>2, <2>1, <2>2
<1> SUFFICES ASSUME NEW i \in 1..Len(queue'[c]), NEW j \in 1..Len(queue'[c]),
                    queue'[c][i] = "disconnect", queue'[c][j] = "disconnect"
             PROVE  i = j
  BY DEF OneDisconnect
<1>5. i + 1 = j + 1
  BY <1>4 DEF OneDisconnect, n
<1> QED
  BY <1>5

LEMMA DispatchKeepsOne ==
  ASSUME queue \in [Conn -> Seq(Task)], NEW c \in Conn,
         NEW task \in ClosingTask, Dispatch(c, task), OneDisconnect(c)
  PROVE  OneDisconnect(c)'
<1>1. task \in Task /\ task # "disconnect"
  BY DEF ClosingTask, DataTask, TunnelTask, Task
<1>2. /\ Len(queue[c]) \in Nat /\ Len(queue'[c]) = Len(queue[c]) + 1
      /\ \A i \in 1..Len(queue[c]) : queue'[c][i] = queue[c][i]
      /\ queue'[c][Len(queue[c]) + 1] = task
  BY <1>1, DispatchAt
<1>3. ASSUME NEW i \in 1..Len(queue'[c]), queue'[c][i] = "disconnect"
      PROVE  i \in 1..Len(queue[c]) /\ queue[c][i] = "disconnect"
  BY <1>1, <1>2, <1>3
<1> QED
  BY <1>3 DEF OneDisconnect

LEMMA ClosedStays ==
  ASSUME NEW c \in Conn, Closed(c), Unchanging(c)
  PROVE  Closed(c)'
BY DEF Closed, Unchanging, tunnelVars

(* On a closed connection closeAllChannels does nothing. *)
LEMMA ClosedAgain ==
  ASSUME NEW c \in Conn, Closed(c), CloseAll(c)
  PROVE  Finish(c, <<>>) /\ Unchanging(c)
BY DEF Closed, CloseAll, CloseAgain, Unchanging

(* Whatever is queued but a disconnect. *)
LEMMA ClosedSteps ==
  ASSUME ConnTypeOK, NEW c \in Conn, Closed(c), queue[c] # <<>>,
         Head(queue[c]) \in ClosingTask, Work(c)
  PROVE  /\ Closed(c)' /\ UNCHANGED mainQueue /\ UNCHANGED resources
         /\ \E tasks \in Seq(ClosingTask) : Finish(c, tasks)
<1>1. Running(c, Head(queue[c])) /\ <<>> \in Seq(ClosingTask)
  BY DEF Running
<1>2. CASE Head(queue[c]) = "closeAllChannels"
  <2>1. CloseAllChannels(c)
    BY <1>1, <1>2, TaskRuns
  <2> QED
    BY <1>1, <2>1, ClosedAgain, ClosedStays DEF CloseAllChannels
<1>3. CASE Head(queue[c]) = "purge"
  <2>1. Purge(c)
    BY <1>1, <1>3, TaskRuns
  <2> QED
    BY <1>1, <2>1, ClosedStays DEF Purge, Unchanging
<1>4. CASE Head(queue[c]) \in DataTask
  <2>1. /\ UNCHANGED resources
        /\ \/ CloseAll(c) /\ UNCHANGED mainQueue
           \/ /\ Unchanging(c)
              /\ UNCHANGED mainQueue
              /\ \E tasks \in Handed : Finish(c, tasks)
    BY <1>1, <1>4, DataSteps
  <2>2. \A tasks \in Handed : tasks \in Seq(ClosingTask)
    BY HandedLists DEF ClosingTask
  <2> QED
    BY <1>1, <2>1, <2>2, ClosedAgain, ClosedStays
<1> QED
  BY <1>2, <1>3, <1>4 DEF ClosingTask

LEMMA ClosedSource ==
  ASSUME ConnTypeOK, NEW c \in Conn, Closed(c), SourceFires(c)
  PROVE  /\ Closed(c)' /\ UNCHANGED mainQueue /\ UNCHANGED resources
         /\ \E task \in ClosingTask : Dispatch(c, task)
<1>1. \A task \in SourceTask : task \in ClosingTask
  BY DEF SourceTask, ClosingTask, DataTask, TunnelTask
<1> QED
  BY <1>1, SourceStep, ClosedStays

LEMMA TailIn ==
  ASSUME NEW S, NEW T, NEW q \in Seq(S), q # <<>>,
         \A i \in 2..Len(q) : q[i] \in T
  PROVE  Tail(q) \in Seq(T)
<1>1. /\ Tail(q) \in Seq(S) /\ Len(Tail(q)) = Len(q) - 1
      /\ Len(q) \in Nat \ {0}
      /\ \A i \in 1..(Len(q) - 1) : Tail(q)[i] = q[i + 1]
  OBVIOUS
<1>2. \A i \in 1..(Len(q) - 1) : i + 1 \in 2..Len(q)
  BY <1>1
<1>3. \A i \in 1..Len(Tail(q)) : Tail(q)[i] \in T
  BY <1>1, <1>2
<1>4. ASSUME NEW r \in Seq(S), \A i \in 1..Len(r) : r[i] \in T
      PROVE  r \in Seq(T)
  <2>1. Len(r) \in Nat /\ r = [i \in 1..Len(r) |-> r[i]]
    BY <1>4
  <2>2. [i \in 1..Len(r) |-> r[i]] \in [1..Len(r) -> T]
    BY <1>4
  <2> QED
    BY <2>1, <2>2
<1> QED
  BY <1>1, <1>3, <1>4

LEMMA ClosingSteps ==
  ASSUME ConnTypeOK, NEW c \in Conn, Closing(c), Work(c) \/ SourceFires(c)
  PROVE  \/ Closing(c)' /\ UNCHANGED mainQueue
         \/ Ended(c)' /\ eventNotify(c, <<"DISCONNECTED">>)
<1> DEFINE S == ClosingTask \cup {"disconnect"}
<1>1. Closed(c) /\ queue[c] \in Seq(S) /\ OneDisconnect(c)
  BY DEF Closing, OneDisconnect
<1>2. CASE SourceFires(c)
  <2>1. PICK task \in ClosingTask : Dispatch(c, task)
    BY <1>1, <1>2, ClosedSource
  <2>2. queue'[c] \in Seq(S) /\ OneDisconnect(c)'
    BY <1>1, <2>1, DispatchIn, DispatchKeepsOne DEF ConnTypeOK
  <2> QED
    BY <1>1, <1>2, <2>2, ClosedSource DEF Closing, OneDisconnect
<1>3. CASE Work(c)
  <2>1. queue[c] # <<>> /\ Head(queue[c]) \in S
    BY <1>1, <1>3, HeadIn, WorkHasTask
  <2>2. CASE Head(queue[c]) \in ClosingTask
    <3>1. PICK tasks \in Seq(ClosingTask) : Finish(c, tasks)
      BY <1>1, <1>3, <2>1, <2>2, ClosedSteps
    <3>2. tasks \in Seq(S)
      BY <3>1
    <3>3. queue'[c] \in Seq(S) /\ OneDisconnect(c)'
      BY <1>1, <2>1, <3>1, <3>2, FinishIn, FinishKeepsOne DEF ConnTypeOK
    <3> QED
      BY <1>1, <1>3, <2>1, <2>2, <3>3, ClosedSteps DEF Closing, OneDisconnect
  <2>3. CASE Head(queue[c]) = "disconnect"
    <3>1. Disconnect(c)
      BY <1>3, <2>1, <2>3, TaskRuns DEF Running
    <3>2. /\ session'[c] # "connected" /\ ~socketFd'[c]
          /\ eventNotify(c, <<"DISCONNECTED">>)
      BY <3>1 DEF Disconnect, CloseSocket, ConnTypeOK
    <3>3. Closed(c)'
      BY <1>1, <3>1 DEF Disconnect, Closed, tunnelVars, ConnTypeOK
    <3>4. queue'[c] \in Seq(ClosingTask)
      <4>1. \A i \in 2..Len(queue[c]) : queue[c][i] \in ClosingTask
        <5>1. queue[c][1] = "disconnect" /\ Len(queue[c]) \in Nat
          BY <1>1, <2>1, <2>3, HeadIn
        <5>2. \A i \in 1..Len(queue[c]) : queue[c][i] \in S
          BY <1>1
        <5> QED
          BY <1>1, <5>1, <5>2 DEF OneDisconnect
      <4>2. Tail(queue[c]) \in Seq(ClosingTask)
        BY <1>1, <2>1, <4>1, TailIn
      <4>3. queue'[c] = Tail(queue[c])
        <5>1. queue'[c] = Tail(queue[c]) \o <<>>
          BY <3>1 DEF Disconnect, Finish, ConnTypeOK
        <5>2. Tail(queue[c]) \in Seq(S)
          BY <1>1, <2>1
        <5> QED
          BY <5>1, <5>2
      <4> QED
        BY <4>2, <4>3
    <3> QED
      BY <3>2, <3>3, <3>4 DEF Ended
  <2> QED
    BY <2>1, <2>2, <2>3
<1> QED
  BY <1>2, <1>3

LEMMA EndedSteps ==
  ASSUME ConnTypeOK, NEW c \in Conn, Ended(c), Work(c) \/ SourceFires(c)
  PROVE  Ended(c)' /\ UNCHANGED mainQueue
<1>1. Closed(c) /\ queue[c] \in Seq(ClosingTask)
  BY DEF Ended
<1>2. CASE SourceFires(c)
  <2>1. PICK task \in ClosingTask : Dispatch(c, task)
    BY <1>1, <1>2, ClosedSource
  <2>2. queue'[c] \in Seq(ClosingTask)
    BY <1>1, <2>1, DispatchIn DEF ConnTypeOK
  <2> QED
    BY <1>1, <1>2, <2>2, ClosedSource DEF Ended, resources
<1>3. CASE Work(c)
  <2>1. queue[c] # <<>> /\ Head(queue[c]) \in ClosingTask
    BY <1>1, <1>3, HeadIn, WorkHasTask
  <2>2. PICK tasks \in Seq(ClosingTask) : Finish(c, tasks)
    BY <1>1, <1>3, <2>1, ClosedSteps
  <2>3. queue'[c] \in Seq(ClosingTask)
    BY <1>1, <2>1, <2>2, FinishIn DEF ConnTypeOK
  <2> QED
    BY <1>1, <1>3, <2>1, <2>3, ClosedSteps DEF Ended, resources
<1> QED
  BY <1>2, <1>3


----------------------------------------------------------------------------
(* The events on their way.                                                *)

LEMMA Appended ==
  ASSUME mainQueue \in Seq(Event), NEW d \in Conn, NEW codes \in Seq(Code),
         eventNotify(d, codes)
  PROVE  /\ Len(mainQueue) \in Nat /\ Len(codes) \in Nat
         /\ Len(mainQueue') = Len(mainQueue) + Len(codes)
         /\ \A i \in 1..Len(mainQueue) : mainQueue'[i] = mainQueue[i]
         /\ \A i \in (Len(mainQueue) + 1)..Len(mainQueue') :
              /\ mainQueue'[i].caller = d
              /\ mainQueue'[i].code = codes[i - Len(mainQueue)]
<1>1. ASSUME NEW S, NEW q \in Seq(S), NEW r \in Seq(S)
      PROVE  /\ Len(q) \in Nat /\ Len(r) \in Nat
             /\ Len(q \o r) = Len(q) + Len(r)
             /\ \A i \in 1..Len(q) : (q \o r)[i] = q[i]
             /\ \A i \in (Len(q) + 1)..(Len(q) + Len(r)) :
                  (q \o r)[i] = r[i - Len(q)]
  OBVIOUS
<1> DEFINE added == Events(d, codes)
<1>2. /\ added \in Seq(Event) /\ Len(added) = Len(codes) /\ Len(codes) \in Nat
      /\ \A k \in 1..Len(codes) :
           added[k].caller = d /\ added[k].code = codes[k]
  BY DEF Events, Event
<1>3. mainQueue' = mainQueue \o added
  BY DEF eventNotify
<1> HIDE DEF added
<1>4. /\ Len(mainQueue) \in Nat
      /\ Len(mainQueue') = Len(mainQueue) + Len(codes)
      /\ \A i \in 1..Len(mainQueue) : mainQueue'[i] = mainQueue[i]
      /\ \A i \in (Len(mainQueue) + 1)..Len(mainQueue') :
           mainQueue'[i] = added[i - Len(mainQueue)]
  <2>1. /\ Len(mainQueue \o added) = Len(mainQueue) + Len(added)
        /\ Len(mainQueue) \in Nat
        /\ \A i \in 1..Len(mainQueue) : (mainQueue \o added)[i] = mainQueue[i]
        /\ \A i \in (Len(mainQueue) + 1)..(Len(mainQueue) + Len(added)) :
             (mainQueue \o added)[i] = added[i - Len(mainQueue)]
    BY <1>1, <1>2
  <2> QED
    BY <1>2, <1>3, <2>1
<1>5. \A i \in (Len(mainQueue) + 1)..Len(mainQueue') :
        i - Len(mainQueue) \in 1..Len(codes)
  BY <1>2, <1>4
<1> QED
  BY <1>2, <1>4, <1>5

LEMMA PendAfter ==
  ASSUME mainQueue \in Seq(Event), NEW d \in Conn, NEW codes \in Seq(Code),
         eventNotify(d, codes)
  PROVE  /\ \A c \in Conn, x \in Code : Pend(c, x)' <=>
              Pend(c, x) \/ (c = d /\ \E k \in 1..Len(codes) : codes[k] = x)
         /\ \A c \in Conn \ {d} : NoEvent(c) => NoEvent(c)'
<1> DEFINE n == Len(mainQueue)
           m == Len(codes)
<1>1. /\ n \in Nat /\ m \in Nat /\ Len(mainQueue') = n + m
      /\ \A i \in 1..n : mainQueue'[i] = mainQueue[i]
      /\ \A i \in (n + 1)..(n + m) :
           mainQueue'[i].caller = d /\ mainQueue'[i].code = codes[i - n]
  BY Appended
<1> HIDE DEF n, m
<1>2. \A i \in 1..(n + m) : i \in 1..n \/ (i \in (n + 1)..(n + m) /\ i - n \in 1..m)
  BY <1>1
<1>3. \A k \in 1..m : n + k \in (n + 1)..(n + m) /\ (n + k) - n = k
  BY <1>1
<1>4. 1..n \subseteq 1..(n + m) /\ (n + 1)..(n + m) \subseteq 1..(n + m)
  BY <1>1
<1>5. ASSUME NEW c \in Conn, NEW x \in Code, Pend(c, x)'
      PROVE  Pend(c, x) \/ (c = d /\ \E k \in 1..m : codes[k] = x)
  <2>1. PICK i \in 1..(n + m) : mainQueue'[i].caller = c /\ mainQueue'[i].code = x
    BY <1>1, <1>5 DEF Pend
  <2> QED
    BY <1>1, <1>2, <2>1 DEF Pend, n
<1>6. ASSUME NEW c \in Conn, NEW x \in Code, Pend(c, x)
      PROVE  Pend(c, x)'
  BY <1>1, <1>4, <1>6 DEF Pend, n
<1>7. ASSUME NEW k \in 1..m
      PROVE  Pend(d, codes[k])'
  <2>1. /\ n + k \in 1..Len(mainQueue')
        /\ mainQueue'[n + k].caller = d /\ mainQueue'[n + k].code = codes[k]
    BY <1>1, <1>3, <1>4
  <2> QED
    BY <2>1 DEF Pend
<1>8. ASSUME NEW c \in Conn \ {d}, NoEvent(c)
      PROVE  NoEvent(c)'
  BY <1>1, <1>2, <1>8 DEF NoEvent, n
<1> QED
  BY <1>5, <1>6, <1>7, <1>8 DEF m

LEMMA OrderlyAfter ==
  ASSUME mainQueue \in Seq(Event), NEW d \in Conn, NEW codes \in Seq(Code),
         eventNotify(d, codes), Orderly, ~Pend(d, "DISCONNECTED"),
         \A k \in 1..Len(codes) :
           codes[k] \in {"MISMATCH", "CONNECTED"} => ~Pend(d, codes[k]),
         \A k, l \in 1..Len(codes) :
           /\ k < l => codes[k] # "DISCONNECTED"
           /\ codes[k] = codes[l] /\ codes[k] \in {"MISMATCH", "CONNECTED"} =>
                k = l
  PROVE  Orderly'
<1> DEFINE n == Len(mainQueue)
           m == Len(codes)
<1>1. /\ n \in Nat /\ m \in Nat /\ Len(mainQueue') = n + m
      /\ \A i \in 1..n : mainQueue'[i] = mainQueue[i]
      /\ \A i \in (n + 1)..(n + m) :
           mainQueue'[i].caller = d /\ mainQueue'[i].code = codes[i - n]
  BY Appended
<1>2. \A i \in 1..n : mainQueue[i].caller = d =>
        /\ mainQueue[i].code # "DISCONNECTED"
        /\ \A k \in 1..m : codes[k] \in {"MISMATCH", "CONNECTED"} =>
             codes[k] # mainQueue[i].code
  BY DEF Pend
<1>3. \A i, j \in 1..n : mainQueue[i].caller = mainQueue[j].caller =>
        /\ i < j => mainQueue[i].code # "DISCONNECTED"
        /\ mainQueue[i].code = mainQueue[j].code
             /\ mainQueue[i].code \in {"MISMATCH", "CONNECTED"} => i = j
  BY DEF Orderly
<1>4. \A k, l \in 1..m :
        /\ k < l => codes[k] # "DISCONNECTED"
        /\ codes[k] = codes[l] /\ codes[k] \in {"MISMATCH", "CONNECTED"} =>
             k = l
  OBVIOUS
<1> HIDE DEF n, m
<1>5. \A i \in 1..(n + m) : i \in 1..n \/ (i \in (n + 1)..(n + m) /\ i - n \in 1..m)
  BY <1>1
<1> SUFFICES ASSUME NEW i \in 1..(n + m), NEW j \in 1..(n + m),
                    mainQueue'[i].caller = mainQueue'[j].caller
             PROVE  /\ i < j => mainQueue'[i].code # "DISCONNECTED"
                    /\ mainQueue'[i].code = mainQueue'[j].code
                         /\ mainQueue'[i].code \in {"MISMATCH", "CONNECTED"} =>
                           i = j
  BY <1>1 DEF Orderly
<1>6. CASE i \in 1..n /\ j \in 1..n
  BY <1>1, <1>3, <1>6
<1>7. CASE i \in 1..n /\ j \in (n + 1)..(n + m) /\ j - n \in 1..m
  BY <1>1, <1>2, <1>7
<1>8. CASE i \in (n + 1)..(n + m) /\ i - n \in 1..m /\ j \in 1..n
  BY <1>1, <1>2, <1>8
<1>9. CASE /\ i \in (n + 1)..(n + m) /\ i - n \in 1..m
           /\ j \in (n + 1)..(n + m) /\ j - n \in 1..m
  <2>1. /\ i - n < j - n => codes[i - n] # "DISCONNECTED"
        /\ codes[i - n] = codes[j - n]
             /\ codes[i - n] \in {"MISMATCH", "CONNECTED"} => i - n = j - n
    BY <1>4, <1>9
  <2>2. (i < j => i - n < j - n) /\ (i - n = j - n => i = j)
    BY <1>1, <1>9
  <2> QED
    BY <1>1, <1>9, <2>1, <2>2
<1> QED
  BY <1>5, <1>6, <1>7, <1>8, <1>9

LEMMA HeadRemoved ==
  ASSUME mainQueue \in Seq(Event), mainQueue # <<>>,
         mainQueue' = Tail(mainQueue)
  PROVE  /\ \A c \in Conn, x \in Code : Pend(c, x)' => Pend(c, x)
         /\ \A c \in Conn : NoEvent(c) => NoEvent(c)'
         /\ Head(mainQueue) \in Event
         /\ Pend(Head(mainQueue).caller, Head(mainQueue).code)
<1> DEFINE n == Len(mainQueue)
<1>1. /\ n \in Nat \ {0} /\ Len(mainQueue') = n - 1
      /\ \A i \in 1..(n - 1) : mainQueue'[i] = mainQueue[i + 1]
      /\ Head(mainQueue) = mainQueue[1] /\ mainQueue[1] \in Event
  OBVIOUS
<1> HIDE DEF n
<1>2. 1 \in 1..n /\ \A i \in 1..(n - 1) : i + 1 \in 1..n
  BY <1>1
<1> QED
  BY <1>1, <1>2 DEF Pend, NoEvent, n

LEMMA OrderlyRemoved ==
  ASSUME mainQueue \in Seq(Event), mainQueue # <<>>,
         mainQueue' = Tail(mainQueue), Orderly
  PROVE  /\ Orderly'
         /\ Head(mainQueue).code \in {"MISMATCH", "CONNECTED"} =>
              \A c \in Conn, x \in Code :
                c = Head(mainQueue).caller /\ x = Head(mainQueue).code =>
                  ~Pend(c, x)'
         /\ Head(mainQueue).code = "DISCONNECTED" =>
              \A c \in Conn : c = Head(mainQueue).caller => NoEvent(c)'
<1> DEFINE n == Len(mainQueue)
<1>1. /\ n \in Nat \ {0} /\ Len(mainQueue') = n - 1
      /\ \A i \in 1..(n - 1) : mainQueue'[i] = mainQueue[i + 1]
      /\ Head(mainQueue) = mainQueue[1] /\ mainQueue[1] \in Event
  OBVIOUS
<1>2. \A i, j \in 1..n : mainQueue[i].caller = mainQueue[j].caller =>
        /\ i < j => mainQueue[i].code # "DISCONNECTED"
        /\ mainQueue[i].code = mainQueue[j].code
             /\ mainQueue[i].code \in {"MISMATCH", "CONNECTED"} => i = j
  BY DEF Orderly
<1> HIDE DEF n
<1>3. 1 \in 1..n /\ \A i \in 1..(n - 1) : i + 1 \in 1..n /\ 1 < i + 1 /\ 1 # i + 1
  BY <1>1
<1>4. \A i, j \in 1..(n - 1) : (i < j => i + 1 < j + 1) /\ (i + 1 = j + 1 => i = j)
  BY <1>1
<1>5. Orderly'
  <2> SUFFICES ASSUME NEW i \in 1..(n - 1), NEW j \in 1..(n - 1),
                      mainQueue'[i].caller = mainQueue'[j].caller
               PROVE  /\ i < j => mainQueue'[i].code # "DISCONNECTED"
                      /\ mainQueue'[i].code = mainQueue'[j].code
                           /\ mainQueue'[i].code \in {"MISMATCH", "CONNECTED"} =>
                             i = j
    BY <1>1 DEF Orderly
  <2>1. /\ mainQueue'[i] = mainQueue[i + 1] /\ mainQueue'[j] = mainQueue[j + 1]
        /\ i + 1 \in 1..n /\ j + 1 \in 1..n
    BY <1>1, <1>3
  <2> QED
    BY <1>2, <1>4, <2>1
<1>6. ASSUME NEW c \in Conn, NEW x \in Code, c = mainQueue[1].caller,
             x = mainQueue[1].code, x \in {"MISMATCH", "CONNECTED"}
      PROVE  ~Pend(c, x)'
  BY <1>1, <1>2, <1>3, <1>6 DEF Pend
<1>7. ASSUME NEW c \in Conn, c = mainQueue[1].caller,
             mainQueue[1].code = "DISCONNECTED"
      PROVE  NoEvent(c)'
  BY <1>1, <1>2, <1>3, <1>7 DEF NoEvent
<1> QED
  BY <1>1, <1>5, <1>6, <1>7

(* One event, or an error before it. *)
LEMMA EventStep ==
  ASSUME mainQueue \in Seq(Event), Orderly, NEW d \in Conn, NEW x \in Code,
         ~Pend(d, "DISCONNECTED"),
         x \in {"MISMATCH", "CONNECTED"} => ~Pend(d, x),
         eventNotify(d, <<x>>) \/ eventNotify(d, <<"ERROR", x>>)
  PROVE  /\ Orderly'
         /\ \A c \in Conn, y \in Code \ {"ERROR"} :
              Pend(c, y)' <=> Pend(c, y) \/ (c = d /\ y = x)
<1>1. ASSUME NEW codes \in Seq(Code), eventNotify(d, codes),
             codes = <<x>> \/ codes = <<"ERROR", x>>
      PROVE  /\ Orderly'
             /\ \A c \in Conn, y \in Code \ {"ERROR"} :
                  Pend(c, y)' <=> Pend(c, y) \/ (c = d /\ y = x)
  <2>1. \/ Len(codes) = 1 /\ codes[1] = x
        \/ Len(codes) = 2 /\ codes[1] = "ERROR" /\ codes[2] = x
    BY <1>1
  <2>2. \A k \in 1..Len(codes) : codes[k] = x \/ codes[k] = "ERROR"
    BY <2>1
  <2>3. \E k \in 1..Len(codes) : codes[k] = x
    <3>1. 1 \in 1..1 /\ 2 \in 1..2
      OBVIOUS
    <3> QED
      BY <2>1, <3>1
  <2>4. \A k, l \in 1..Len(codes) :
          /\ k < l => codes[k] # "DISCONNECTED"
          /\ codes[k] = codes[l] /\ codes[k] \in {"MISMATCH", "CONNECTED"} =>
               k = l
    <3>1. \A k, l \in 1..1 : k = l /\ ~(k < l)
      OBVIOUS
    <3>2. \A k, l \in 1..2 : (k < l => k = 1 /\ l = 2) /\ (k = 1 \/ k = 2)
      OBVIOUS
    <3> QED
      BY <2>1, <3>1, <3>2
  <2>5. \A k \in 1..Len(codes) :
          codes[k] \in {"MISMATCH", "CONNECTED"} => ~Pend(d, codes[k])
    BY <2>2
  <2>6. Orderly'
    BY <1>1, <2>4, <2>5, OrderlyAfter
  <2>7. \A c \in Conn, y \in Code : Pend(c, y)' <=>
          Pend(c, y) \/ (c = d /\ \E k \in 1..Len(codes) : codes[k] = y)
    BY <1>1, PendAfter
  <2> QED
    BY <2>2, <2>3, <2>6, <2>7
<1>2. <<x>> \in Seq(Code) /\ <<"ERROR", x>> \in Seq(Code)
  BY CodeLists DEF Code
<1> QED
  BY <1>1, <1>2

(* A connection speaks for itself alone. *)
LEMMA Speaks ==
  ASSUME ConnTypeOK, NEW d \in Conn, Work(d) \/ SourceFires(d)
  PROVE  UNCHANGED mainQueue \/ \E codes \in Seq(Code) : eventNotify(d, codes)
<1>1. /\ <<"ERROR">> \in Seq(Code) /\ <<"MISMATCH">> \in Seq(Code)
      /\ <<"SERVER_ERROR">> \in Seq(Code) /\ <<"CONNECTED">> \in Seq(Code)
      /\ <<"DISCONNECTED">> \in Seq(Code) /\ <<"ERROR", "ERROR">> \in Seq(Code)
      /\ <<"ERROR", "CONNECTED">> \in Seq(Code)
  BY CodeLists DEF Code
<1>2. CASE Connect(d) \/ AuthenticateServer(d) \/ AuthenticateUser(d)
  BY <1>1, <1>2 DEF Connect, ConnectRefused, HandshakeFailed, ConnectAccepted,
    AuthenticateServer, AuthenticateUser, KeyUnusable, UserRefused, UserAccepted
<1>3. CASE OpenTerminalChannel(d) \/ OpenTunnelChannels(d)
  BY <1>1, <1>3 DEF OpenTerminalChannel, OpenTerminalOutOfMemory,
    OpenTerminalRefused, OpenTerminalAccepted, OpenTunnelChannels, OpenTunnels
<1>4. CASE CloseAllChannels(d) \/ Purge(d) \/ Disconnect(d)
  BY <1>1, <1>4 DEF CloseAllChannels, Purge, Disconnect
<1>5. CASE NewTerminalDataAvailable(d)
  BY <1>1, <1>5, TerminalData DEF Told
<1>6. CASE \/ NewSshDataAvailable(d) \/ NewTunnelConnection(d)
           \/ NewLocalDataAvailable(d)
  BY <1>1, <1>6, TunnelData
<1>7. CASE SourceFires(d)
  BY <1>7 DEF SourceFires
<1> QED
  BY <1>2, <1>3, <1>4, <1>5, <1>6, <1>7 DEF Work

LEMMA SilentStep ==
  ASSUME UNCHANGED mainQueue
  PROVE  /\ Orderly => Orderly'
         /\ \A c \in Conn, x \in Code : Pend(c, x)' <=> Pend(c, x)
         /\ \A c \in Conn : NoEvent(c)' <=> NoEvent(c)
BY DEF Orderly, Pend, NoEvent

LEMMA Unheard ==
  ASSUME ConnTypeOK, NEW d \in Conn, Work(d) \/ SourceFires(d),
         NEW c \in Conn \ {d}
  PROVE  /\ \A x \in Code : Pend(c, x)' <=> Pend(c, x)
         /\ NoEvent(c) => NoEvent(c)'
<1>1. mainQueue \in Seq(Event)
  BY DEF ConnTypeOK, Event
<1>2. CASE UNCHANGED mainQueue
  BY <1>2, SilentStep
<1>3. CASE \E codes \in Seq(Code) : eventNotify(d, codes)
  BY <1>1, <1>3, PendAfter
<1> QED
  BY <1>2, <1>3, Speaks

LEMMA NothingPends ==
  ASSUME NEW c \in Conn, NoEvent(c)
  PROVE  Silent(c) /\ \A x \in Code : ~Pend(c, x)
BY DEF NoEvent, Silent, Pend

----------------------------------------------------------------------------
(* A connection that nothing is done to.                                   *)

LEMMA SameLife ==
  ASSUME NEW c \in Conn, Undisturbed(c)
  PROVE  /\ Resting(c)' <=> Resting(c)
         /\ LoggingIn(c)' <=> LoggingIn(c)
         /\ Waiting(c)' <=> Waiting(c)
         /\ Failing(c)' <=> Failing(c)
         /\ Stopping(c)' <=> Stopping(c)
         /\ Serving(c)' <=> Serving(c)
         /\ Carrying(c)' <=> Carrying(c)
         /\ Closing(c)' <=> Closing(c)
         /\ Ended(c)' <=> Ended(c)
<1>1. Quiet(c)' <=> Quiet(c)
  BY DEF Undisturbed, Quiet
<1>2. Closed(c)' <=> Closed(c)
  BY DEF Undisturbed, Closed
<1> QED
  BY <1>1, <1>2 DEF Undisturbed, Resting, LoggingIn, Waiting, Failing, Stopping,
    Serving, Carrying, Closing, Ended

(* Events of it may have been delivered. *)
LEMMA SameObject ==
  ASSUME NEW c \in Conn, Undisturbed(c),
         \A x \in Code : Pend(c, x)' => Pend(c, x)
  PROVE  /\ Live(c) => Live(c)'
         /\ Stoppable(c) => Stoppable(c)'
         /\ Stopped(c) => Stopped(c)'
         /\ Carrying(c) /\ Silent(c) => Carrying(c)' /\ Silent(c)'
         /\ Waiting(c) /\ Silent(c) => Waiting(c)' /\ Silent(c)'
         /\ Over(c) => Over(c)'
         /\ Resting(c) => Resting(c)'
         /\ Ended(c) => Ended(c)'
<1>1. /\ Pend(c, "MISMATCH")' => Pend(c, "MISMATCH")
      /\ Pend(c, "CONNECTED")' => Pend(c, "CONNECTED")
      /\ Pend(c, "DISCONNECTED")' => Pend(c, "DISCONNECTED")
  BY DEF Code
<1>2. Silent(c) => Silent(c)'
  BY <1>1 DEF Silent
<1> QED
  BY <1>1, <1>2, SameLife DEF Live, Stoppable, Stopped, Over

----------------------------------------------------------------------------
(* A connection that works.                                                *)

LEMMA PartsApart ==
  ASSUME NEW c \in Conn
  PROVE  /\ Carrying(c) => Serving(c) /\ ~Resting(c) /\ ~Ended(c)
         /\ Closed(c) => listening[c] = {}
<1>1. TunnelTask \subseteq DataTask \cup {"closeAllChannels"}
  BY DEF DataTask
<1>2. ASSUME NEW S, NEW T, S \subseteq T, NEW q \in Seq(S)
      PROVE  q \in Seq(T)
  BY <1>2
<1> QED
  BY <1>1, <1>2 DEF Carrying, Serving, Resting, Ended, Closed

LEMMA LiveStep ==
  ASSUME ConnTypeOK, Orderly, NEW c \in Conn, Live(c),
         Work(c) \/ SourceFires(c)
  PROVE  Live(c)' /\ Orderly'
<1>0. mainQueue \in Seq(Event)
  BY DEF ConnTypeOK, Event
<1>c. /\ "MISMATCH" \in Code \ {"ERROR"} /\ "CONNECTED" \in Code \ {"ERROR"}
      /\ "DISCONNECTED" \in Code \ {"ERROR"} /\ "SERVER_ERROR" \in Code
      /\ "ERROR" \in Code
  BY DEF Code
<1>1. CASE LoggingIn(c) /\ Silent(c)
  <2>1. CASE LoggingIn(c)' /\ UNCHANGED mainQueue
    BY <1>1, <2>1, <1>c, SilentStep DEF Live, Silent
  <2>2. CASE /\ Waiting(c)'
             /\ \/ eventNotify(c, <<"MISMATCH">>)
                \/ eventNotify(c, <<"SERVER_ERROR">>)
    <3>1. PICK x \in {"MISMATCH", "SERVER_ERROR"} : eventNotify(c, <<x>>)
      BY <2>2
    <3> QED
      BY <1>0, <1>1, <2>2, <3>1, <1>c, EventStep DEF Live, Silent
  <2>3. CASE /\ Failing(c)' \/ Stopping(c)'
             /\ eventNotify(c, <<"ERROR">>) \/ eventNotify(c, <<"ERROR", "ERROR">>)
    BY <1>0, <1>1, <2>3, <1>c, EventStep DEF Live, Silent
  <2>4. CASE /\ Serving(c)'
             /\ \/ eventNotify(c, <<"CONNECTED">>)
                \/ eventNotify(c, <<"ERROR", "CONNECTED">>)
    BY <1>0, <1>1, <2>4, <1>c, EventStep DEF Live, Silent
  <2> QED
    BY <1>1, <2>1, <2>2, <2>3, <2>4, LoggingInSteps
<1>2. CASE Failing(c) /\ Silent(c)
  BY <1>0, <1>2, <1>c, FailingSteps, EventStep DEF Live, Silent
<1>3. CASE Stopping(c) /\ Silent(c)
  BY <1>3, <1>c, StoppingSteps, SilentStep DEF Live, Silent
<1>4. CASE Waiting(c) \/ Resting(c)
  BY <1>4, RestingSteps
<1>5. CASE /\ Serving(c)
           /\ ~Pend(c, "MISMATCH") /\ ~Pend(c, "DISCONNECTED")
  <2>1. CASE Closing(c)' /\ UNCHANGED mainQueue
    BY <1>5, <2>1, <1>c, SilentStep DEF Live
  <2>2. CASE Serving(c)' /\ UNCHANGED mainQueue
    BY <1>5, <2>2, <1>c, SilentStep DEF Live
  <2>3. CASE /\ Serving(c)'
             /\ eventNotify(c, <<"ERROR">>) \/ eventNotify(c, <<"ERROR", "ERROR">>)
    BY <1>0, <1>5, <2>3, <1>c, EventStep DEF Live
  <2> QED
    BY <1>5, <2>1, <2>2, <2>3, ServingSteps DEF Told
<1>6. CASE /\ Closing(c)
           /\ ~Pend(c, "MISMATCH") /\ ~Pend(c, "DISCONNECTED")
  <2>1. CASE Closing(c)' /\ UNCHANGED mainQueue
    BY <1>6, <2>1, <1>c, SilentStep DEF Live
  <2>2. CASE Ended(c)' /\ eventNotify(c, <<"DISCONNECTED">>)
    BY <1>0, <1>6, <2>2, <1>c, EventStep DEF Live
  <2> QED
    BY <1>6, <2>1, <2>2, ClosingSteps
<1>7. CASE Ended(c) /\ ~Pend(c, "MISMATCH")
  BY <1>7, <1>c, EndedSteps, SilentStep DEF Live
<1> QED
  BY <1>1, <1>2, <1>3, <1>4, <1>5, <1>6, <1>7 DEF Live

LEMMA StoppableStep ==
  ASSUME ConnTypeOK, Orderly, NEW c \in Conn, Stoppable(c),
         Work(c) \/ SourceFires(c)
  PROVE  Stoppable(c)' /\ (Pend(c, "CONNECTED")' => Pend(c, "CONNECTED"))
<1>0. mainQueue \in Seq(Event)
  BY DEF ConnTypeOK, Event
<1>c. /\ "MISMATCH" \in Code \ {"ERROR"} /\ "CONNECTED" \in Code \ {"ERROR"}
      /\ "DISCONNECTED" \in Code \ {"ERROR"} /\ "ERROR" \in Code
  BY DEF Code
<1>1. CASE Stopping(c) /\ Silent(c)
  BY <1>1, <1>c, StoppingSteps, SilentStep DEF Stoppable, Silent
<1>2. CASE /\ Serving(c)
           /\ ~Pend(c, "MISMATCH") /\ ~Pend(c, "DISCONNECTED")
  <2>1. CASE Closing(c)' /\ UNCHANGED mainQueue
    BY <1>2, <2>1, <1>c, SilentStep DEF Stoppable
  <2>2. CASE Serving(c)' /\ UNCHANGED mainQueue
    BY <1>2, <2>2, <1>c, SilentStep DEF Stoppable
  <2>3. CASE /\ Serving(c)'
             /\ eventNotify(c, <<"ERROR">>) \/ eventNotify(c, <<"ERROR", "ERROR">>)
    BY <1>0, <1>2, <2>3, <1>c, EventStep DEF Stoppable
  <2> QED
    BY <1>2, <2>1, <2>2, <2>3, ServingSteps DEF Told
<1>3. CASE /\ Closing(c)
           /\ ~Pend(c, "MISMATCH") /\ ~Pend(c, "DISCONNECTED")
  <2>1. CASE Closing(c)' /\ UNCHANGED mainQueue
    BY <1>3, <2>1, <1>c, SilentStep DEF Stoppable
  <2>2. CASE Ended(c)' /\ eventNotify(c, <<"DISCONNECTED">>)
    BY <1>0, <1>3, <2>2, <1>c, EventStep DEF Stoppable
  <2> QED
    BY <1>3, <2>1, <2>2, ClosingSteps
<1>4. CASE Ended(c) /\ ~Pend(c, "MISMATCH")
  BY <1>4, <1>c, EndedSteps, SilentStep DEF Stoppable
<1> QED
  BY <1>1, <1>2, <1>3, <1>4 DEF Stoppable

LEMMA StoppedStep ==
  ASSUME ConnTypeOK, Orderly, NEW c \in Conn, Stopped(c),
         Work(c) \/ SourceFires(c)
  PROVE  Stopped(c)'
<1>0. mainQueue \in Seq(Event)
  BY DEF ConnTypeOK, Event
<1>c. /\ "MISMATCH" \in Code \ {"ERROR"} /\ "CONNECTED" \in Code \ {"ERROR"}
      /\ "DISCONNECTED" \in Code \ {"ERROR"}
  BY DEF Code
<1>1. CASE Stopping(c) /\ Silent(c)
  BY <1>1, <1>c, StoppingSteps, SilentStep DEF Stopped, Silent
<1>2. CASE Closing(c) /\ Silent(c)
  <2>1. CASE Closing(c)' /\ UNCHANGED mainQueue
    BY <1>2, <2>1, <1>c, SilentStep DEF Stopped, Silent
  <2>2. CASE Ended(c)' /\ eventNotify(c, <<"DISCONNECTED">>)
    BY <1>0, <1>2, <2>2, <1>c, EventStep DEF Stopped, Silent
  <2> QED
    BY <1>2, <2>1, <2>2, ClosingSteps
<1>3. CASE Ended(c) /\ ~Pend(c, "MISMATCH") /\ ~Pend(c, "CONNECTED")
  BY <1>3, <1>c, EndedSteps, SilentStep DEF Stopped
<1> QED
  BY <1>1, <1>2, <1>3 DEF Stopped

LEMMA CarryingStep ==
  ASSUME ConnTypeOK, Orderly, NEW c \in Conn, Carrying(c), Silent(c),
         Work(c) \/ SourceFires(c)
  PROVE  Carrying(c)' /\ Silent(c)'
<1>0. mainQueue \in Seq(Event)
  BY DEF ConnTypeOK, Event
<1>c. /\ "MISMATCH" \in Code \ {"ERROR"} /\ "CONNECTED" \in Code \ {"ERROR"}
      /\ "DISCONNECTED" \in Code \ {"ERROR"} /\ "ERROR" \in Code
  BY DEF Code
<1>1. CASE UNCHANGED mainQueue
  BY <1>1, <1>c, CarryingSteps, SilentStep DEF Silent
<1>2. CASE eventNotify(c, <<"ERROR">>)
  BY <1>0, <1>2, <1>c, CarryingSteps, EventStep DEF Silent
<1> QED
  BY <1>1, <1>2, CarryingSteps

(* What an announced tunnel connection listens on is served. *)
LEMMA ListenerStep ==
  ASSUME ConnTypeOK, Orderly, NEW c \in Conn, Live(c),
         Pend(c, "CONNECTED") /\ listening[c] # {} => Carrying(c),
         Work(c) \/ SourceFires(c)
  PROVE  Pend(c, "CONNECTED")' /\ listening'[c] # {} => Carrying(c)'
<1>0. mainQueue \in Seq(Event)
  BY DEF ConnTypeOK, Event
<1>c. /\ "CONNECTED" \in Code \ {"ERROR"} /\ "DISCONNECTED" \in Code
      /\ "SERVER_ERROR" \in Code /\ "MISMATCH" \in Code /\ "ERROR" \in Code
  BY DEF Code
<1>1. CASE LoggingIn(c) /\ Silent(c)
  <2>1. CASE LoggingIn(c)' /\ UNCHANGED mainQueue
    BY <1>1, <2>1, <1>c, SilentStep DEF Silent
  <2>2. CASE \/ eventNotify(c, <<"MISMATCH">>)
             \/ eventNotify(c, <<"SERVER_ERROR">>)
             \/ eventNotify(c, <<"ERROR">>) \/ eventNotify(c, <<"ERROR", "ERROR">>)
    <3>1. PICK x \in {"MISMATCH", "SERVER_ERROR", "ERROR"} :
            eventNotify(c, <<x>>) \/ eventNotify(c, <<"ERROR", x>>)
      BY <2>2
    <3> QED
      BY <1>0, <1>1, <3>1, <1>c, EventStep DEF Silent
  <2> QED
    BY <1>1, <2>1, <2>2, LoggingInSteps
<1>2. CASE Failing(c) /\ Silent(c)
  BY <1>0, <1>2, <1>c, FailingSteps, EventStep DEF Silent
<1>3. CASE Waiting(c) \/ Resting(c)
  BY <1>3, RestingSteps
<1>4. CASE Stopping(c) \/ Closing(c) \/ Ended(c)
  <2>1. Closing(c)' \/ Ended(c)'
    BY <1>4, StoppingSteps, ClosingSteps, EndedSteps
  <2> QED
    BY <2>1 DEF Closing, Ended, Closed
<1>5. CASE /\ Serving(c)
           /\ ~Pend(c, "MISMATCH") /\ ~Pend(c, "DISCONNECTED")
  <2>1. CASE Carrying(c)
    BY <2>1, CarryingSteps
  <2>2. CASE Closing(c)'
    BY <2>2 DEF Closing, Closed
  <2>3. CASE /\ ~Carrying(c) /\ Told(c)
             /\ listening'[c] # {} => listening[c] # {}
    <3>1. CASE ~Pend(c, "CONNECTED")
      <4>1. CASE UNCHANGED mainQueue
        BY <3>1, <4>1, <1>c, SilentStep
      <4>2. CASE eventNotify(c, <<"ERROR">>) \/ eventNotify(c, <<"ERROR", "ERROR">>)
        BY <1>0, <1>5, <3>1, <4>2, <1>c, EventStep
      <4> QED
        BY <2>3, <4>1, <4>2 DEF Told
    <3> QED
      BY <2>3, <3>1
  <2> QED
    BY <1>5, <2>1, <2>2, <2>3, ServingSteps
<1> QED
  BY <1>1, <1>2, <1>3, <1>4, <1>5 DEF Live

LEMMA OverStep ==
  ASSUME ConnTypeOK, Orderly, NEW c \in Conn, Over(c), NoEvent(c),
         Work(c) \/ SourceFires(c)
  PROVE  Ended(c) /\ Ended(c)' /\ NoEvent(c)' /\ Orderly'
BY EndedSteps, RestingSteps, SilentStep DEF Over

(* The weaker parts. *)
LEMMA Weaker ==
  ASSUME NEW c \in Conn
  PROVE  /\ Stoppable(c) => Live(c)
         /\ Stopped(c) => Stoppable(c) /\ ~Pend(c, "CONNECTED")
         /\ Carrying(c) /\ Silent(c) => Stoppable(c)
         /\ Waiting(c) /\ Silent(c) => Live(c)
BY PartsApart DEF Stoppable, Stopped, Live, Silent

----------------------------------------------------------------------------
(* A step of the connections: the stage remains.                           *)

LEMMA ObjectStep ==
  ASSUME ConnTypeOK, Orderly, NEW d \in Conn, Work(d) \/ SourceFires(d),
         NEW c \in Conn
  PROVE  /\ Live(c) => Live(c)'
         /\ Stoppable(c) => Stoppable(c)'
         /\ Stoppable(c) /\ ~Pend(c, "CONNECTED") => ~Pend(c, "CONNECTED")'
         /\ Stopped(c) => Stopped(c)'
         /\ Carrying(c) /\ Silent(c) => Carrying(c)' /\ Silent(c)'
         /\ Waiting(c) /\ Silent(c) => Waiting(c)' /\ Silent(c)'
         /\ Over(c) /\ NoEvent(c) => Over(c)' /\ NoEvent(c)'
         /\ Ended(c) => Ended(c)'
         /\ Resting(c) => Resting(c)' /\ d # c
         /\ Live(c) => \/ Pend(c, "CONNECTED") /\ listening[c] # {} /\ ~Carrying(c)
                       \/ Pend(c, "CONNECTED")' /\ listening'[c] # {} =>
                            Carrying(c)'
<1>1. CASE d = c
  BY <1>1, LiveStep, StoppableStep, StoppedStep, CarryingStep, RestingSteps,
    OverStep, EndedSteps, ListenerStep DEF Over
<1>2. CASE d # c
  <2>1. Undisturbed(c)
    BY <1>2, OthersUndisturbed
  <2>2. /\ \A x \in Code : Pend(c, x)' <=> Pend(c, x)
        /\ NoEvent(c) => NoEvent(c)'
    BY <1>2, Unheard
  <2>3. Pend(c, "CONNECTED")' <=> Pend(c, "CONNECTED")
    BY <2>2 DEF Code
  <2>4. Carrying(c)' <=> Carrying(c)
    BY <2>1, SameLife
  <2>5. listening'[c] = listening[c]
    BY <2>1 DEF Undisturbed
  <2> QED
    BY <1>2, <2>1, <2>2, <2>3, <2>4, <2>5, SameObject
<1> QED
  BY <1>1, <1>2

LEMMA InOrder ==
  ASSUME Stage, Others, NEW d \in Conn
  PROVE  Live(d) \/ (Over(d) /\ NoEvent(d))
<1>1. CASE d \notin {connection, jump}
  BY <1>1 DEF Others
<1>2. CASE Between
  BY <1>1, <1>2, TerminalAssumption DEF Between
<1>3. ASSUME NEW c \in Conn, Alone(c)
      PROVE  Live(d) \/ (Over(d) /\ NoEvent(d))
  BY <1>1, <1>3, TerminalAssumption DEF Alone
<1>4. ASSUME NEW c \in Conn, NEW j \in Conn, WithJump(c, j)
      PROVE  Live(d) \/ (Over(d) /\ NoEvent(d))
  <2>1. connection = c /\ jump = j
    BY <1>4 DEF WithJump, Before, Through, Asked, JumpGone, ConnectionGone, Held
  <2>2. /\ Live(c) \/ (Over(c) /\ NoEvent(c))
        /\ Live(j) \/ (Over(j) /\ NoEvent(j))
    BY <1>4, Weaker DEF WithJump, Before, Through, Asked, JumpGone,
      ConnectionGone, Over
  <2> QED
    BY <1>1, <2>1, <2>2
<1> QED
  BY <1>2, <1>3, <1>4 DEF Stage

LEMMA WorkInOrder ==
  ASSUME ConnTypeOK, Orderly, Stage, Others, NEW d \in Conn,
         Work(d) \/ SourceFires(d)
  PROVE  Orderly'
BY InOrder, LiveStep, OverStep

(* The controller and the application do nothing. *)
Idle == UNCHANGED <<controlVars, buttons, userVars>>

LEMMA ResumesKept ==
  ASSUME Idle, NEW c \in Conn, Resumes(c),
         Waiting(c) /\ Silent(c) => Waiting(c)' /\ Silent(c)'
  PROVE  Resumes(c)'
BY DEF Resumes, Idle, controlVars, buttons, userVars

LEMMA StageWorks ==
  ASSUME ConnTypeOK, Orderly, Stage, NEW d \in Conn, Work(d) \/ SourceFires(d),
         Idle
  PROVE  Stage'
<1> USE DEF Idle, controlVars, objects, closedFlags, buttons, userVars
<1>1. CASE Between
  <2>1. Between'
    BY <1>1 DEF Between, Open
  <2> QED
    BY <2>1 DEF Stage
<1>2. ASSUME NEW c \in Conn, Alone(c)
      PROVE  Alone(c)'
  BY <1>2, ObjectStep, ResumesKept DEF Alone, Open
<1>3. ASSUME NEW c \in Conn, NEW j \in Conn, WithJump(c, j)
      PROVE  WithJump(c, j)'
  <2>1. Held(c, j) => Held(c, j)'
    BY DEF Held
  <2>2. CASE Before(c, j)
    <3>1. Resting(c)' /\ NoEvent(c)' /\ Live(j)' /\ Resumes(j)'
      BY <2>2, ObjectStep, ResumesKept DEF Before, Over
    <3>2. Pend(j, "CONNECTED")' /\ listening'[j] # {} => Carrying(j)'
      BY <2>2, ObjectStep DEF Before
    <3> QED
      BY <2>1, <2>2, <3>1, <3>2 DEF Before, Open, WithJump
  <2>3. CASE Through(c, j)
    <3>1. Live(c)' /\ Carrying(j)' /\ Silent(j)' /\ Resumes(c)'
      BY <2>3, ObjectStep, ResumesKept DEF Through
    <3>2. Stoppable(c) => Stoppable(c)'
      BY ObjectStep
    <3> QED
      BY <2>1, <2>3, <3>1, <3>2 DEF Through, Open, WithJump
  <2>4. CASE Asked(c, j)
    BY <2>1, <2>4, ObjectStep DEF Asked, Open, WithJump
  <2>5. CASE JumpGone(c, j)
    BY <2>1, <2>5, ObjectStep DEF JumpGone, WithJump
  <2>6. CASE ConnectionGone(c, j)
    <3>1. /\ Over(c)' /\ NoEvent(c)' /\ Stoppable(j)' /\ ~Pend(j, "CONNECTED")'
          /\ Ended(c) => Ended(c)'
      BY <2>6, ObjectStep DEF ConnectionGone
    <3> QED
      BY <2>1, <2>6, <3>1 DEF ConnectionGone, WithJump
  <2> QED
    BY <1>3, <2>2, <2>3, <2>4, <2>5, <2>6 DEF WithJump
<1> QED
  BY <1>1, <1>2, <1>3 DEF Stage

LEMMA RestWorks ==
  ASSUME ConnTypeOK, Orderly, NEW d \in Conn, Work(d) \/ SourceFires(d),
         Idle, Others, Unused, Current, Buttons
  PROVE  Others' /\ Unused' /\ Current' /\ Buttons'
<1> USE DEF Idle, controlVars, objects, closedFlags, buttons, userVars
<1>1. Others'
  BY ObjectStep DEF Others
<1>2. Unused'
  <2> SUFFICES ASSUME NEW i \in 1..Len(Connection), i > sessions
               PROVE  Resting(Connection[i])' /\ Resting(Jump[i])'
    BY DEF Unused
  <2>1. Connection[i] \in Conn /\ Jump[i] \in Conn
    BY TerminalAssumption
  <2>2. Resting(Connection[i]) /\ Resting(Jump[i])
    BY DEF Unused
  <2>3. ASSUME NEW c \in Conn, Resting(c)
        PROVE  Resting(c)'
    BY <2>3, ObjectStep
  <2> QED
    BY <2>1, <2>2, <2>3
<1>3. Current' /\ Buttons'
  BY DEF Current, Buttons
<1> QED
  BY <1>1, <1>2, <1>3

----------------------------------------------------------------------------
(* What the user interface thread dispatches.                              *)

LEMMA LeftAlone ==
  ASSUME NEW c \in Conn, UNCHANGED connState, queue'[c] = queue[c]
  PROVE  Undisturbed(c)
BY DEF connState, resources, tunnelVars, connectionVars, history, Undisturbed

LEMMA SameFields ==
  ASSUME NEW c \in Conn, UNCHANGED connState
  PROVE  /\ Quiet(c)' <=> Quiet(c)
         /\ Closed(c)' <=> Closed(c)
         /\ session'[c] = session[c] /\ socketFd'[c] = socketFd[c]
         /\ isClosing'[c] = isClosing[c] /\ readSource'[c] = readSource[c]
         /\ listening'[c] = listening[c]
BY DEF connState, resources, tunnelVars, Quiet, Closed, connectionVars

LEMMA Dispatched ==
  ASSUME queue \in [Conn -> Seq(Task)], NEW d \in Conn, NEW task,
         Dispatch(d, task)
  PROVE  /\ queue'[d] = Append(queue[d], task)
         /\ \A c \in Conn \ {d} : queue'[c] = queue[c]
BY DEF Dispatch

LEMMA LoginStarts ==
  ASSUME NEW c \in Conn, UNCHANGED connState
  PROVE  /\ Resting(c) /\ queue'[c] = Append(queue[c], "connect") =>
              LoggingIn(c)'
         /\ Waiting(c) /\ queue'[c] = Append(queue[c], "authenticateUser") =>
              LoggingIn(c)'
<1>1. Append(<<>>, "connect") = <<"connect">>
      /\ Append(<<>>, "authenticateUser") = <<"authenticateUser">>
  OBVIOUS
<1> QED
  BY <1>1, SameFields DEF Resting, Waiting, LoggingIn, LoginTask

LEMMA StopDispatched ==
  ASSUME ConnTypeOK, NEW c \in Conn, UNCHANGED connState,
         queue'[c] = Append(queue[c], "closeAllChannels")
  PROVE  /\ Resting(c) \/ Waiting(c) \/ Stopping(c) => Stopping(c)'
         /\ Serving(c) => Serving(c)'
         /\ Closing(c) => Closing(c)'
         /\ Ended(c) => Ended(c)'
<1>1. ASSUME NEW S, NEW q \in Seq(S), NEW task \in S
      PROVE  Append(q, task) \in Seq(S) /\ Append(q, task) # <<>>
  BY <1>1
<1>2. Resting(c) \/ Waiting(c) \/ Stopping(c) => Stopping(c)'
  <2> DEFINE S == {"closeAllChannels"}
  <2>0. <<>> \in Seq(S)
    OBVIOUS
  <2>1. Resting(c) \/ Waiting(c) \/ Stopping(c) =>
          queue[c] \in Seq(S) /\ Quiet(c)
    BY <2>0 DEF Resting, Waiting, Stopping
  <2>2. "closeAllChannels" \in S
    OBVIOUS
  <2>3. queue[c] \in Seq(S) => queue'[c] \in Seq(S) /\ queue'[c] # <<>>
    BY <1>1, <2>2
  <2> QED
    BY <2>1, <2>3, SameFields DEF Stopping
<1>3. Serving(c) => Serving(c)'
  <2> DEFINE S == DataTask \cup {"closeAllChannels"}
  <2>1. Serving(c) => queue'[c] \in Seq(S)
    BY <1>1 DEF Serving
  <2> QED
    BY <2>1, SameFields DEF Serving
<1>4. Ended(c) => Ended(c)'
  <2>1. "closeAllChannels" \in ClosingTask
    BY DEF ClosingTask
  <2>2. Ended(c) => queue'[c] \in Seq(ClosingTask)
    BY <1>1, <2>1 DEF Ended
  <2> QED
    BY <2>2, SameFields DEF Ended
<1>5. Closing(c) => Closing(c)'
  <2> DEFINE S == ClosingTask \cup {"disconnect"}
  <2>1. "closeAllChannels" \in S
    BY DEF ClosingTask
  <2>2. Closing(c) => queue'[c] \in Seq(S)
    BY <1>1, <2>1 DEF Closing
  <2>3. /\ Len(queue[c]) \in Nat /\ Len(queue'[c]) = Len(queue[c]) + 1
        /\ \A i \in 1..Len(queue[c]) : queue'[c][i] = queue[c][i]
        /\ queue'[c][Len(queue[c]) + 1] = "closeAllChannels"
    <3>1. queue[c] \in Seq(Task)
      BY DEF ConnTypeOK
    <3> QED
      BY <3>1
  <2>4. ASSUME NEW i \in 1..Len(queue'[c]), queue'[c][i] = "disconnect"
        PROVE  i \in 1..Len(queue[c]) /\ queue[c][i] = "disconnect"
    BY <2>3, <2>4
  <2> QED
    BY <2>2, <2>4, SameFields DEF Closing
<1> QED
  BY <1>2, <1>3, <1>4, <1>5

(* A connection that is asked to close all its channels. *)
LEMMA AskedToStop ==
  ASSUME ConnTypeOK, NEW c \in Conn, UNCHANGED connState,
         queue'[c] = Append(queue[c], "closeAllChannels"),
         \A x \in Code : Pend(c, x)' => Pend(c, x)
  PROVE  /\ Stoppable(c) => Stoppable(c)'
         /\ Stopped(c) => Stopped(c)'
         /\ (Resting(c) \/ Waiting(c)) /\ Silent(c) => Stopped(c)'
         /\ Ended(c) => Ended(c)'
<1>1. /\ Pend(c, "MISMATCH")' => Pend(c, "MISMATCH")
      /\ Pend(c, "CONNECTED")' => Pend(c, "CONNECTED")
      /\ Pend(c, "DISCONNECTED")' => Pend(c, "DISCONNECTED")
  BY DEF Code
<1>2. Silent(c) => Silent(c)'
  BY <1>1 DEF Silent
<1> QED
  BY <1>1, <1>2, StopDispatched DEF Stoppable, Stopped

(* Or nothing is asked of it. *)
LEMMA NothingAsked ==
  ASSUME NEW c \in Conn, UNCHANGED connState, queue'[c] = queue[c],
         \A x \in Code : Pend(c, x)' => Pend(c, x)
  PROVE  /\ Live(c) => Live(c)'
         /\ Stoppable(c) => Stoppable(c)'
         /\ Stopped(c) => Stopped(c)'
         /\ Carrying(c) /\ Silent(c) => Carrying(c)' /\ Silent(c)'
         /\ Waiting(c) /\ Silent(c) => Waiting(c)' /\ Silent(c)'
         /\ Over(c) => Over(c)'
         /\ Resting(c) => Resting(c)'
         /\ Ended(c) => Ended(c)'
         /\ Carrying(c)' <=> Carrying(c)
         /\ listening'[c] = listening[c]
BY LeftAlone, SameObject, SameLife, SameFields

(* The objects that no session of the controller has used yet. *)
LEMMA UnusedKept ==
  ASSUME UNCHANGED connState, Unused, sessions \in Nat,
         sessions' \in Nat, sessions' >= sessions,
         \A i \in 1..Len(Connection) : i > sessions' =>
           /\ queue'[Connection[i]] = queue[Connection[i]]
           /\ socketHost'[Connection[i]] = socketHost[Connection[i]]
           /\ queue'[Jump[i]] = queue[Jump[i]]
           /\ socketHost'[Jump[i]] = socketHost[Jump[i]]
  PROVE  Unused'
<1> SUFFICES ASSUME NEW i \in 1..Len(Connection), i > sessions'
             PROVE  /\ Resting(Connection[i])' /\ socketHost'[Connection[i]] = nil
                    /\ Resting(Jump[i])' /\ socketHost'[Jump[i]] = nil
  BY DEF Unused
<1>1. i > sessions
  BY TerminalAssumption
<1>2. Connection[i] \in Conn /\ Jump[i] \in Conn
  BY TerminalAssumption
<1>3. ASSUME NEW c \in Conn, queue'[c] = queue[c], Resting(c)
      PROVE  Resting(c)'
  BY <1>3, LeftAlone, SameLife
<1> QED
  BY <1>1, <1>2, <1>3 DEF Unused

----------------------------------------------------------------------------
(* The user.                                                               *)

LEMMA QueuesTyped ==
  ASSUME ConnTypeOK, UNCHANGED connState, queue' \in [Conn -> Seq(Task)],
         mainQueue' \in Seq(Event)
  PROVE  ConnTypeOK'
BY DEF ConnTypeOK, connState, resources, tunnelVars, connectionVars, history,
  Event

LEMMA SeveralTyped ==
  ASSUME ConnTypeOK, NEW S,
         queue' = [c \in Conn |-> IF c \in S
                     THEN Append(queue[c], "closeAllChannels") ELSE queue[c]]
  PROVE  /\ queue' \in [Conn -> Seq(Task)]
         /\ \A c \in S \cap Conn :
              queue'[c] = Append(queue[c], "closeAllChannels")
         /\ \A c \in Conn \ S : queue'[c] = queue[c]
<1>1. ASSUME NEW q \in Seq(Task)
      PROVE  Append(q, "closeAllChannels") \in Seq(Task)
  BY <1>1 DEF Task
<1> QED
  BY <1>1 DEF ConnTypeOK

LEMMA Empty ==
  ASSUME Stage, connection = nil
  PROVE  Between
BY TerminalAssumption DEF Stage, Alone, WithJump, Held, Before, Through, Asked,
  JumpGone, ConnectionGone

LEMMA PressConnectKeeps ==
  ASSUME ClientInv, PressConnect
  PROVE  ClientInv'
<1>1. connection = nil /\ Between
  BY Empty DEF ClientInv, PressConnect, Buttons
<1>2. PICK useJump \in BOOLEAN : connect(useJump)
  BY DEF PressConnect
<1>3. sessions \in Nat /\ sessions + 1 \in 1..Len(Connection)
  BY TerminalAssumption DEF ClientInv, TypeOK, ControlTypeOK, PressConnect
<1>4. PICK c \in Conn, j \in Conn :
        c = Connection[sessions + 1] /\ j = Jump[sessions + 1]
  BY <1>3, TerminalAssumption
<1>5. PICK k \in Conn : k = IF useJump THEN j ELSE c
  OBVIOUS
<1>6. /\ state' = "Connected" /\ sessions' = sessions + 1
      /\ connection' = c /\ jump' = (IF useJump THEN j ELSE nil)
      /\ Dispatch(k, "connect")
      /\ UNCHANGED <<paused, closedFlags, socketHost>>
      /\ UNCHANGED connState /\ UNCHANGED mainQueue
      /\ ~connectEnabled' /\ ~loggedIn' /\ ~resumeTitle'
  BY <1>1, <1>2, <1>4, <1>5 DEF connect, PressConnect, Between
<1>7. /\ queue'[k] = Append(queue[k], "connect")
      /\ \A x \in Conn \ {k} : queue'[x] = queue[x]
      /\ queue' \in [Conn -> Seq(Task)]
  BY <1>6, Dispatched, DispatchType DEF ClientInv, TypeOK, ControlTypeOK,
    ConnTypeOK, Task
<1>8. \A x \in Conn : Over(x) /\ NoEvent(x)
  BY <1>1, TerminalAssumption DEF ClientInv, Others, Between
<1>9. /\ \A x \in Conn, y \in Code : Pend(x, y)' => Pend(x, y)
      /\ \A x \in Conn : NoEvent(x)'
      /\ Orderly'
  BY <1>6, <1>8, SilentStep DEF ClientInv
<1>10. \A x \in Conn : Silent(x)'
  BY <1>9 DEF NoEvent, Silent, Pend
<1>11. /\ Resting(c) /\ socketHost[c] = nil
       /\ Resting(j) /\ socketHost[j] = nil
  BY <1>3, <1>4 DEF ClientInv, Unused
<1>12. c # j
  BY <1>3, <1>4, AllocationAssumption
<1>13. TypeOK'
  <2>1. ConnTypeOK'
    BY <1>6, <1>7, QueuesTyped DEF ClientInv, TypeOK, ControlTypeOK, ConnTypeOK,
      Event
  <2>2. /\ connectEnabled' \in BOOLEAN /\ disconnectEnabled' \in BOOLEAN
        /\ resumeTitle' \in BOOLEAN /\ loggedIn' \in BOOLEAN
        /\ asking' \in BOOLEAN /\ fatal' \in BOOLEAN
    BY DEF ClientInv, TypeOK, PressConnect
  <2>3. sessions' \in 0..Len(Connection)
    BY <1>3, <1>6, TerminalAssumption
  <2>4. /\ connection' \in Conn \cup {nil} /\ jump' \in Conn \cup {nil}
        /\ state' \in {"Disconnected", "Connected", "Paused"}
    BY <1>6
  <2> QED
    BY <1>6, <2>1, <2>2, <2>3, <2>4 DEF ClientInv, TypeOK, ControlTypeOK,
      closedFlags
<1>14. Live(k)'
  <2>1. LoggingIn(k)'
    BY <1>5, <1>6, <1>7, <1>11, LoginStarts
  <2> QED
    BY <1>10, <2>1 DEF Live
<1>15. Stage'
  <2>1. CASE useJump
    <3>1. Resting(c)'
      BY <1>5, <1>6, <1>7, <1>9, <1>11, <1>12, <2>1, NothingAsked
    <3>2. ~Pend(j, "CONNECTED")'
      BY <1>10 DEF Silent
    <3>3. Before(c, j)'
      BY <1>1, <1>5, <1>6, <1>9, <1>11, <1>12, <1>14, <2>1, <3>1, <3>2
        DEF Before, Held, Open, Between, Resumes, closedFlags
    <3> QED
      BY <3>3 DEF Stage, WithJump
  <2>2. CASE ~useJump
    <3>1. Alone(c)'
      BY <1>1, <1>5, <1>6, <1>11, <1>14, <2>2
        DEF Alone, Open, Between, Resumes, closedFlags
    <3> QED
      BY <3>1 DEF Stage
  <2> QED
    BY <2>1, <2>2
<1>16. Others'
  <2> SUFFICES ASSUME NEW x \in Conn, x \notin {connection', jump'}
               PROVE  Over(x)' /\ NoEvent(x)'
    BY DEF Others
  <2>1. queue'[x] = queue[x]
    BY <1>5, <1>6, <1>7
  <2> QED
    BY <1>6, <1>8, <1>9, <2>1, NothingAsked
<1>17. Unused'
  <2>1. \A i \in 1..Len(Connection) : i > sessions' =>
          /\ queue'[Connection[i]] = queue[Connection[i]]
          /\ socketHost'[Connection[i]] = socketHost[Connection[i]]
          /\ queue'[Jump[i]] = queue[Jump[i]]
          /\ socketHost'[Jump[i]] = socketHost[Jump[i]]
    <3> SUFFICES ASSUME NEW i \in 1..Len(Connection), i > sessions'
                 PROVE  /\ queue'[Connection[i]] = queue[Connection[i]]
                        /\ queue'[Jump[i]] = queue[Jump[i]]
      BY <1>6
    <3>1. i # sessions + 1
      BY <1>3, <1>6
    <3>2. Connection[i] \in Conn \ {k} /\ Jump[i] \in Conn \ {k}
      BY <1>3, <1>4, <1>5, <3>1, TerminalAssumption, AllocationAssumption
    <3> QED
      BY <1>7, <3>2
  <2> QED
    BY <1>3, <1>6, <2>1, UnusedKept DEF ClientInv
<1>18. Current' /\ Buttons'
  BY <1>1, <1>3, <1>4, <1>6 DEF ClientInv, Current, Buttons, PressConnect
<1> QED
  BY <1>9, <1>13, <1>15, <1>16, <1>17, <1>18 DEF ClientInv

LEMMA StoppedLive ==
  ASSUME NEW c \in Conn
  PROVE  /\ Stopped(c)' => Stoppable(c)' /\ Live(c)'
         /\ Stoppable(c)' => Live(c)'
BY DEF Stopped, Stoppable, Live, Silent

(* While the button says Resume, one connection waits for the answer. *)
LEMMA WhoWaits ==
  ASSUME ClientInv, resumeTitle
  PROVE  /\ state = "Paused" /\ ~loggedIn
         /\ \/ \E c \in Conn : Alone(c) /\ paused = c /\ Waiting(c) /\ Silent(c)
            \/ \E c, j \in Conn : /\ Before(c, j) /\ paused = j
                                  /\ Waiting(j) /\ Silent(j)
            \/ \E c, j \in Conn : /\ Through(c, j) /\ paused = c
                                  /\ Waiting(c) /\ Silent(c)
<1>1. ASSUME NEW c \in Conn, Resumes(c)
      PROVE  /\ state = "Paused" /\ paused = c /\ Waiting(c) /\ Silent(c)
             /\ ~loggedIn
  BY <1>1 DEF Resumes
<1>2. ASSUME NEW c \in Conn, Alone(c)
      PROVE  Resumes(c)
  BY <1>2 DEF Alone
<1>3. ASSUME NEW c \in Conn, NEW j \in Conn, WithJump(c, j)
      PROVE  \/ Before(c, j) /\ Resumes(j)
             \/ Through(c, j) /\ Resumes(c)
  <2>1. Before(c, j) \/ Through(c, j)
    BY <1>3 DEF WithJump, Asked, JumpGone, ConnectionGone
  <2> QED
    BY <2>1 DEF Before, Through
<1>4. ~Between
  BY DEF Between
<1>5. \/ \E c \in Conn : Alone(c)
      \/ \E c, j \in Conn : WithJump(c, j)
  BY <1>4 DEF ClientInv, Stage
<1> QED
  BY <1>1, <1>2, <1>3, <1>5

(* What a press leaves of the invariant, once the stage is known: only the *)
(* objects of this session may be given a task.                            *)
LEMMA PressRest ==
  ASSUME ClientInv, UNCHANGED connState, UNCHANGED mainQueue,
         UNCHANGED <<objects, socketHost, sessions>>,
         \A x \in Conn \ {connection, jump} : queue'[x] = queue[x]
  PROVE  /\ Orderly' /\ Others' /\ Unused' /\ Current'
         /\ \A x \in Conn, y \in Code : Pend(x, y)' => Pend(x, y)
         /\ \A x \in Conn : NoEvent(x)' <=> NoEvent(x)
<1>1. /\ Orderly'
      /\ \A x \in Conn, y \in Code : Pend(x, y)' => Pend(x, y)
      /\ \A x \in Conn : NoEvent(x)' <=> NoEvent(x)
  BY SilentStep DEF ClientInv
<1>2. Others'
  <2> SUFFICES ASSUME NEW x \in Conn, x \notin {connection', jump'}
               PROVE  Over(x)' /\ NoEvent(x)'
    BY DEF Others
  <2>1. queue'[x] = queue[x] /\ Over(x) /\ NoEvent(x)
    BY DEF objects, ClientInv, Others
  <2> QED
    BY <1>1, <2>1, NothingAsked
<1>3. sessions \in 0..Len(Connection)
  BY DEF ClientInv, TypeOK, ControlTypeOK
<1>4. Unused'
  <2>1. \A i \in 1..Len(Connection) : i > sessions' =>
          /\ queue'[Connection[i]] = queue[Connection[i]]
          /\ socketHost'[Connection[i]] = socketHost[Connection[i]]
          /\ queue'[Jump[i]] = queue[Jump[i]]
          /\ socketHost'[Jump[i]] = socketHost[Jump[i]]
    <3> SUFFICES ASSUME NEW i \in 1..Len(Connection), i > sessions
                 PROVE  /\ queue'[Connection[i]] = queue[Connection[i]]
                        /\ queue'[Jump[i]] = queue[Jump[i]]
      OBVIOUS
    <3>1. sessions # 0 => sessions \in 1..Len(Connection) /\ i # sessions
      BY <1>3, TerminalAssumption
    <3>2. Connection[i] \in Conn /\ Jump[i] \in Conn
      BY TerminalAssumption
    <3>3. /\ connection # nil => /\ Connection[i] # connection
                                 /\ Jump[i] # connection
          /\ jump # nil => Connection[i] # jump /\ Jump[i] # jump
      BY <3>1, AllocationAssumption DEF ClientInv, Current
    <3>4. /\ Connection[i] \notin {connection, jump}
          /\ Jump[i] \notin {connection, jump}
      BY <3>2, <3>3, TerminalAssumption
    <3> QED
      BY <3>2, <3>4
  <2> QED
    BY <1>3, <2>1, TerminalAssumption, UnusedKept DEF ClientInv
<1>5. Current'
  BY DEF ClientInv, Current, objects
<1> QED
  BY <1>1, <1>2, <1>4, <1>5

LEMMA PressResumeKeeps ==
  ASSUME ClientInv, PressResume
  PROVE  ClientInv'
<1>1. /\ resumeTitle /\ state = "Paused" /\ ~loggedIn
      /\ UNCHANGED connState /\ UNCHANGED mainQueue
      /\ UNCHANGED <<objects, socketHost, sessions, closedFlags>>
      /\ paused' = nil /\ resumeTitle' = FALSE /\ connectEnabled' = FALSE
      /\ UNCHANGED loggedIn
      /\ state' \in {"Connected", "Paused"}
      /\ IF paused \in {jump, connection} THEN Send(paused, "authenticateUser")
                                          ELSE UNCHANGED queue
  BY WhoWaits DEF PressResume, resumePaused, userVars
<1>2. ConnTypeOK /\ queue \in [Conn -> Seq(Task)] /\ mainQueue \in Seq(Event)
  BY DEF ClientInv, TypeOK, ControlTypeOK, ConnTypeOK, Event
<1>3. ASSUME NEW x \in Conn, paused = x, x \in {connection, jump},
             Waiting(x), Silent(x)
      PROVE  /\ queue' \in [Conn -> Seq(Task)]
             /\ \A y \in Conn \ {x} : queue'[y] = queue[y]
             /\ LoggingIn(x)' /\ Live(x)'
             /\ ~Pend(x, "CONNECTED")'
  <2>1. Dispatch(x, "authenticateUser")
    BY <1>1, <1>3, TerminalAssumption DEF Send
  <2>2. LoggingIn(x)'
    BY <1>1, <1>2, <1>3, <2>1, Dispatched, LoginStarts
  <2>3. Silent(x)'
    BY <1>1, <1>3, SilentStep DEF Silent, Code
  <2> QED
    BY <1>2, <2>1, <2>2, <2>3, Dispatched, DispatchType DEF Live, Task, Silent
<1>4. /\ queue' \in [Conn -> Seq(Task)]
      /\ \A y \in Conn \ {connection, jump} : queue'[y] = queue[y]
      /\ Stage'
  <2>0. \A x \in Conn : /\ \A y \in Code : Pend(x, y)' => Pend(x, y)
                        /\ NoEvent(x)' <=> NoEvent(x)
    BY <1>1, SilentStep
  <2>1. ASSUME NEW c \in Conn, Alone(c), paused = c, Waiting(c), Silent(c)
        PROVE  /\ queue' \in [Conn -> Seq(Task)]
               /\ \A y \in Conn \ {connection, jump} : queue'[y] = queue[y]
               /\ Alone(c)'
    <3>1. connection = c
      BY <2>1 DEF Alone
    <3> QED
      BY <1>1, <1>3, <2>1, <3>1 DEF Alone, Open, objects, closedFlags, Resumes
  <2>2. ASSUME NEW c \in Conn, NEW j \in Conn, Before(c, j), paused = j,
               Waiting(j), Silent(j)
        PROVE  /\ queue' \in [Conn -> Seq(Task)]
               /\ \A y \in Conn \ {connection, jump} : queue'[y] = queue[y]
               /\ Before(c, j)'
    <3>1. connection = c /\ jump = j /\ c # j
      BY <2>2 DEF Before, Held
    <3>2. Resting(c)' /\ NoEvent(c)'
      BY <1>1, <1>3, <2>0, <2>2, <3>1, NothingAsked DEF Before
    <3> QED
      BY <1>1, <1>3, <2>2, <3>1, <3>2
        DEF Before, Held, Open, objects, closedFlags, Resumes
  <2>3. ASSUME NEW c \in Conn, NEW j \in Conn, Through(c, j), paused = c,
               Waiting(c), Silent(c)
        PROVE  /\ queue' \in [Conn -> Seq(Task)]
               /\ \A y \in Conn \ {connection, jump} : queue'[y] = queue[y]
               /\ Through(c, j)'
    <3>1. connection = c /\ jump = j /\ c # j
      BY <2>3 DEF Through, Held
    <3>2. Carrying(j)' /\ Silent(j)'
      BY <1>1, <1>3, <2>0, <2>3, <3>1, NothingAsked DEF Through
    <3> QED
      BY <1>1, <1>3, <2>3, <3>1, <3>2
        DEF Through, Held, Open, objects, closedFlags, Resumes
  <2> QED
    BY <1>1, <2>1, <2>2, <2>3, WhoWaits DEF Stage, WithJump
<1>5. /\ Orderly' /\ Others' /\ Unused' /\ Current'
  BY <1>1, <1>4, PressRest
<1>6. Buttons'
  BY <1>1 DEF Buttons
<1>7. TypeOK'
  <2>1. ConnTypeOK'
    BY <1>1, <1>2, <1>4, QueuesTyped
  <2>2. /\ connectEnabled' \in BOOLEAN /\ disconnectEnabled' \in BOOLEAN
        /\ resumeTitle' \in BOOLEAN /\ loggedIn' \in BOOLEAN
        /\ asking' \in BOOLEAN /\ fatal' \in BOOLEAN
    BY DEF ClientInv, TypeOK, PressResume, userVars
  <2>3. paused' \in Conn \cup {nil} /\ state' \in {"Disconnected", "Connected", "Paused"}
    BY <1>1
  <2> QED
    BY <1>1, <2>1, <2>2, <2>3 DEF ClientInv, TypeOK, ControlTypeOK, closedFlags,
      objects
<1> QED
  BY <1>4, <1>5, <1>6, <1>7 DEF ClientInv

LEMMA PressDisconnectKeeps ==
  ASSUME ClientInv, PressDisconnect, Patient
  PROVE  ClientInv'
<1>1. /\ loggedIn \/ resumeTitle
      /\ connectEnabled' = FALSE /\ resumeTitle' = FALSE /\ loggedIn' = FALSE
      /\ UNCHANGED connState /\ UNCHANGED mainQueue /\ disconnect
  BY DEF PressDisconnect
<1>2. ConnTypeOK /\ queue \in [Conn -> Seq(Task)] /\ mainQueue \in Seq(Event)
  BY DEF ClientInv, TypeOK, ControlTypeOK, ConnTypeOK, Event
<1>3. \A x \in Conn : /\ \A y \in Code : Pend(x, y)' => Pend(x, y)
                      /\ NoEvent(x)' <=> NoEvent(x)
  BY <1>1, SilentStep
<1>4. /\ paused # nil => state = "Paused" /\ resumeTitle
      /\ resumeTitle => state = "Paused"
  BY WhoWaits DEF ClientInv, Buttons
<1>5. /\ UNCHANGED <<objects, socketHost, sessions, closedFlags>>
      /\ paused' = nil /\ state' = "Disconnected"
  BY <1>1, <1>4 DEF disconnect, Ignored, controlVars
<1>6. PICK S : /\ queue' = [x \in Conn |-> IF x \in S
                         THEN Append(queue[x], "closeAllChannels") ELSE queue[x]]
               /\ S = IF state = "Disconnected" THEN {}
                      ELSE {IF state = "Paused" /\ paused = jump THEN jump ELSE nil,
                            connection} \ {nil}
  <2>1. CASE state = "Disconnected"
    <3>1. queue' = queue
      BY <1>1, <2>1 DEF disconnect, Ignored
    <3>2. queue' = [x \in Conn |-> IF x \in {}
                      THEN Append(queue[x], "closeAllChannels") ELSE queue[x]]
      BY <1>2, <3>1
    <3> SUFFICES /\ queue' = [x \in Conn |-> IF x \in {}
                       THEN Append(queue[x], "closeAllChannels") ELSE queue[x]]
                 /\ {} = IF state = "Disconnected" THEN {}
                         ELSE {IF state = "Paused" /\ paused = jump
                                 THEN jump ELSE nil, connection} \ {nil}
      OBVIOUS
    <3> QED
      BY <2>1, <3>2
  <2>2. CASE state # "Disconnected"
    <3> DEFINE ended ==
          {IF state = "Paused" /\ paused = jump THEN jump ELSE nil,
           connection} \ {nil}
    <3>1. queue' = [x \in Conn |-> IF x \in ended
                      THEN Append(queue[x], "closeAllChannels") ELSE queue[x]]
      BY <1>1, <2>2 DEF disconnect, Ignored
    <3> QED
      BY <2>2, <3>1
  <2> QED
    BY <2>1, <2>2
<1>7. /\ queue' \in [Conn -> Seq(Task)]
      /\ \A x \in S \cap Conn : queue'[x] = Append(queue[x], "closeAllChannels")
      /\ \A x \in Conn \ S : queue'[x] = queue[x]
  BY <1>2, <1>6, SeveralTyped
<1>8. S \subseteq {connection, jump}
  BY <1>6
<1>9. /\ Orderly' /\ Others' /\ Unused' /\ Current'
  BY <1>1, <1>5, <1>7, <1>8, PressRest
(* Each object of the session either is asked to stop, or is left alone. *)
<1>10. ASSUME NEW x \in Conn
       PROVE  /\ Stoppable(x) => Stoppable(x)'
              /\ Ended(x) => Ended(x)'
              /\ (Resting(x) \/ Waiting(x)) /\ Silent(x) /\ x \in S => Stopped(x)'
              /\ Over(x) /\ x \notin S => Over(x)'
              /\ Carrying(x) /\ Silent(x) /\ x \notin S =>
                   Carrying(x)' /\ Silent(x)'
              /\ ~Pend(x, "CONNECTED") => ~Pend(x, "CONNECTED")'
  <2>1. ~Pend(x, "CONNECTED") => ~Pend(x, "CONNECTED")'
    BY <1>3 DEF Code
  <2> QED
    BY <1>1, <1>2, <1>3, <1>7, <2>1, AskedToStop, NothingAsked
<1>11. Stage'
  <2> USE <1>5 DEF objects, closedFlags
  <2>1. CASE resumeTitle
    <3>1. ASSUME NEW c \in Conn, Alone(c), paused = c, Waiting(c), Silent(c)
          PROVE  Alone(c)'
      <4>1. c \in S
        BY <1>4, <1>6, <2>1, <3>1, TerminalAssumption DEF Alone
      <4> QED
        BY <1>1, <1>10, <3>1, <4>1, StoppedLive DEF Alone, Open, Resumes
    <3>2. ASSUME NEW c \in Conn, NEW j \in Conn, Before(c, j), paused = j,
                 Waiting(j), Silent(j)
          PROVE  Asked(c, j)'
      <4>1. c \in S /\ j \in S
        BY <1>4, <1>6, <2>1, <3>2, TerminalAssumption DEF Before, Held
      <4>2. Silent(c)
        BY <3>2, NothingPends DEF Before
      <4> QED
        BY <1>1, <1>10, <3>2, <4>1, <4>2 DEF Before, Asked, Held, Open
    <3>3. ASSUME NEW c \in Conn, NEW j \in Conn, Through(c, j), paused = c,
                 Waiting(c), Silent(c)
          PROVE  Through(c, j)'
      <4>1. c \in S /\ j \notin S
        BY <1>4, <1>6, <2>1, <3>3, TerminalAssumption DEF Through, Held
      <4> QED
        BY <1>1, <1>10, <3>3, <4>1, StoppedLive DEF Through, Held, Open, Resumes
    <3> QED
      BY <2>1, <3>1, <3>2, <3>3, WhoWaits DEF Stage, WithJump
  <2>2. CASE ~resumeTitle
    <3>1. loggedIn /\ paused = nil
      BY <1>1, <1>4, <2>2
    <3>2. jump # nil => jump \notin S \/ jump = connection
      BY <1>6, <3>1
    <3>3. ASSUME NEW c \in Conn, Alone(c)
          PROVE  Alone(c)'
      BY <1>1, <1>10, <3>1, <3>3, StoppedLive DEF Alone, Open, Resumes
    <3>4. ASSUME NEW c \in Conn, NEW j \in Conn, WithJump(c, j)
          PROVE  Through(c, j)' \/ ConnectionGone(c, j)'
      <4>1. Through(c, j) \/ ConnectionGone(c, j)
        BY <3>1, <3>4 DEF WithJump, Before, Asked, JumpGone
      <4>2. jump = j /\ j # c /\ connection = c
        BY <4>1 DEF Through, ConnectionGone, Held
      <4>3. j \notin S
        BY <3>2, <4>2, TerminalAssumption
      <4>4. CASE Through(c, j)
        BY <1>1, <1>10, <3>1, <4>3, <4>4, StoppedLive
          DEF Through, Held, Open, Resumes
      <4>5. CASE ConnectionGone(c, j)
        <5>1. Ended(c)' /\ NoEvent(c)' /\ Over(c)'
          BY <1>3, <1>10, <3>1, <4>5 DEF ConnectionGone, Over
        <5> QED
          BY <1>1, <1>10, <4>5, <5>1 DEF ConnectionGone, Held
      <4> QED
        BY <4>1, <4>4, <4>5
    <3>5. ~Between
      BY <3>1 DEF Between
    <3> QED
      BY <3>3, <3>4, <3>5 DEF Stage, WithJump, ClientInv
  <2> QED
    BY <2>1, <2>2
<1>12. Buttons'
  BY <1>1, <1>5 DEF Buttons
<1>13. TypeOK'
  <2>1. ConnTypeOK'
    BY <1>1, <1>2, <1>7, QueuesTyped
  <2>2. /\ connectEnabled' \in BOOLEAN /\ disconnectEnabled' \in BOOLEAN
        /\ resumeTitle' \in BOOLEAN /\ loggedIn' \in BOOLEAN
        /\ asking' \in BOOLEAN /\ fatal' \in BOOLEAN
    BY DEF ClientInv, TypeOK, PressDisconnect
  <2>3. paused' \in Conn \cup {nil} /\ state' \in {"Disconnected", "Connected", "Paused"}
    BY <1>5
  <2> QED
    BY <1>5, <2>1, <2>2, <2>3 DEF ClientInv, TypeOK, ControlTypeOK, closedFlags,
      objects
<1> QED
  BY <1>9, <1>11, <1>12, <1>13 DEF ClientInv

(* Nothing is done at all. *)
LEMMA StageStutters ==
  ASSUME Stage, UNCHANGED connState, UNCHANGED queue, UNCHANGED mainQueue, Idle
  PROVE  Stage'
<1> USE DEF Idle, controlVars, objects, closedFlags, buttons, userVars
<1>1. ASSUME NEW x \in Conn
      PROVE  /\ Undisturbed(x)
             /\ \A y \in Code : Pend(x, y)' <=> Pend(x, y)
             /\ NoEvent(x)' <=> NoEvent(x)
             /\ Pend(x, "CONNECTED")' <=> Pend(x, "CONNECTED")
             /\ Resumes(x) => Resumes(x)'
             /\ listening'[x] = listening[x]
  <2>1. Undisturbed(x)
    BY LeftAlone
  <2>2. /\ \A y \in Code : Pend(x, y)' <=> Pend(x, y)
        /\ NoEvent(x)' <=> NoEvent(x)
    BY SilentStep
  <2>3. Waiting(x) /\ Silent(x) => Waiting(x)' /\ Silent(x)'
    BY <2>1, <2>2, SameObject
  <2> QED
    BY <2>1, <2>2, <2>3, ResumesKept DEF Code, Undisturbed
<1>2. Between => Between'
  BY DEF Between, Open
<1>3. ASSUME NEW c \in Conn, Alone(c)
      PROVE  Alone(c)'
  BY <1>1, <1>3, SameObject DEF Alone, Open
<1>4. ASSUME NEW c \in Conn, NEW j \in Conn, WithJump(c, j)
      PROVE  WithJump(c, j)'
  <2>1. Held(c, j)' <=> Held(c, j)
    BY DEF Held
  <2>2. CASE Before(c, j)
    <3>1. Pend(j, "CONNECTED")' /\ listening'[j] # {} => Carrying(j)'
      BY <1>1, <2>2, SameLife DEF Before
    <3>2. Resting(c)' /\ NoEvent(c)' /\ Live(j)' /\ Resumes(j)'
      BY <1>1, <2>2, SameObject DEF Before
    <3> QED
      BY <2>1, <2>2, <3>1, <3>2 DEF WithJump, Before, Open
  <2>3. CASE Through(c, j)
    BY <1>1, <2>1, <2>3, SameObject DEF WithJump, Through, Open
  <2>4. CASE Asked(c, j)
    BY <1>1, <2>1, <2>4, SameObject DEF WithJump, Asked, Open
  <2>5. CASE JumpGone(c, j)
    BY <1>1, <2>1, <2>5, SameObject DEF WithJump, JumpGone
  <2>6. CASE ConnectionGone(c, j)
    BY <1>1, <2>1, <2>6, SameObject DEF WithJump, ConnectionGone
  <2> QED
    BY <1>4, <2>2, <2>3, <2>4, <2>5, <2>6 DEF WithJump
<1> QED
  BY <1>2, <1>3, <1>4 DEF Stage

----------------------------------------------------------------------------
(* An event is delivered.                                                  *)

Answer == {"connected", "disconnected", "serverMismatch", "error", "nothing"}

(* What the handlers know of the event at the head, and what taking it off *)
(* the queue does to the others.                                           *)
Delivered(caller, code, told) ==
  /\ \/ code = "CONNECTED" /\ OnConnected(caller, told)
     \/ code = "DISCONNECTED" /\ OnDisconnected(caller, told)
     \/ code = "MISMATCH" /\ OnMismatch(caller, told)
     \/ code \in {"SERVER_ERROR", "ERROR"} /\ OnError(told)
  /\ UNCHANGED connState
  /\ connectEnabled' =
       (connectEnabled \/ told \in {"disconnected", "serverMismatch"})
  /\ resumeTitle' = (resumeTitle \/ told = "serverMismatch")
  /\ loggedIn' = (told # "disconnected" /\ (loggedIn \/ told = "connected"))
  /\ Pend(caller, code)
  /\ \A c \in Conn, x \in Code : Pend(c, x)' => Pend(c, x)
  /\ \A c \in Conn : NoEvent(c) => NoEvent(c)'
  /\ code \in {"MISMATCH", "CONNECTED"} => ~Pend(caller, code)'
  /\ code = "DISCONNECTED" => NoEvent(caller)'

LEMMA SomethingDelivered ==
  ASSUME ClientInv, Deliver
  PROVE  /\ \E caller \in Conn, code \in Code, told \in Answer :
              Delivered(caller, code, told)
         /\ Orderly' /\ mainQueue' \in Seq(Event)
         /\ connectEnabled' \in BOOLEAN /\ disconnectEnabled' \in BOOLEAN
         /\ resumeTitle' \in BOOLEAN /\ loggedIn' \in BOOLEAN
         /\ asking' \in BOOLEAN /\ fatal' \in BOOLEAN
<1>1. PICK told \in Answer :
        /\ callbackFromConnection(told)
        /\ connectEnabled' =
             (connectEnabled \/ told \in {"disconnected", "serverMismatch"})
        /\ disconnectEnabled' =
             (IF told = "disconnected" THEN FALSE
              ELSE disconnectEnabled \/ told \in {"connected", "serverMismatch"})
        /\ resumeTitle' = (resumeTitle \/ told = "serverMismatch")
        /\ loggedIn' = (told # "disconnected" /\ (loggedIn \/ told = "connected"))
        /\ asking' = (asking /\ told # "disconnected")
        /\ fatal' = (fatal \/ Head(mainQueue).code = "SERVER_ERROR")
  BY DEF Deliver, Answer
<1>2. /\ mainQueue \in Seq(Event) /\ mainQueue # <<>>
      /\ mainQueue' = Tail(mainQueue) /\ UNCHANGED connState /\ Orderly
  BY <1>1 DEF callbackFromConnection, ClientInv, TypeOK, ControlTypeOK,
    ConnTypeOK, Event
<1>3. /\ Head(mainQueue) \in Event
      /\ \A c \in Conn, x \in Code : Pend(c, x)' => Pend(c, x)
      /\ \A c \in Conn : NoEvent(c) => NoEvent(c)'
      /\ Pend(Head(mainQueue).caller, Head(mainQueue).code)
  BY <1>2, HeadRemoved
<1>4. PICK caller \in Conn, code \in Code :
        caller = Head(mainQueue).caller /\ code = Head(mainQueue).code
  BY <1>3 DEF Event
<1>5. /\ code \in {"MISMATCH", "CONNECTED"} => ~Pend(caller, code)'
      /\ code = "DISCONNECTED" => NoEvent(caller)'
      /\ Orderly'
  BY <1>2, <1>4, OrderlyRemoved
<1>6. Pend(caller, code)
  BY <1>3, <1>4
<1>7. \/ code = "CONNECTED" /\ OnConnected(caller, told)
      \/ code = "DISCONNECTED" /\ OnDisconnected(caller, told)
      \/ code = "MISMATCH" /\ OnMismatch(caller, told)
      \/ code \in {"SERVER_ERROR", "ERROR"} /\ OnError(told)
  BY <1>1, <1>4 DEF callbackFromConnection
<1>8. Delivered(caller, code, told)
  BY <1>1, <1>2, <1>3, <1>5, <1>6, <1>7 DEF Delivered
<1>9. mainQueue' \in Seq(Event)
  BY <1>2
<1>10. /\ connectEnabled' \in BOOLEAN /\ disconnectEnabled' \in BOOLEAN
       /\ resumeTitle' \in BOOLEAN /\ loggedIn' \in BOOLEAN
       /\ asking' \in BOOLEAN /\ fatal' \in BOOLEAN
  BY <1>1 DEF ClientInv, TypeOK
<1> QED
  BY <1>5, <1>8, <1>9, <1>10

(* What a pending event says of its sender. *)
LEMMA PendingSays ==
  ASSUME NEW c \in Conn, Live(c)
  PROVE  /\ Pend(c, "CONNECTED") => Stoppable(c) /\ ~Pend(c, "MISMATCH")
         /\ Pend(c, "DISCONNECTED") => Over(c) /\ ~Pend(c, "MISMATCH")
         /\ Pend(c, "MISMATCH") => /\ Waiting(c) /\ ~Pend(c, "CONNECTED")
                                   /\ ~Pend(c, "DISCONNECTED") /\ ~Stoppable(c)
BY DEF Live, Stoppable, Over, Silent

LEMMA StoppablePends ==
  ASSUME NEW c \in Conn, Stoppable(c)
  PROVE  /\ Pend(c, "DISCONNECTED") => Ended(c)
         /\ ~Pend(c, "MISMATCH")
BY DEF Stoppable, Silent

LEMMA NoEventAfter ==
  ASSUME NEW caller \in Conn, NEW code \in Code, NEW told,
         Delivered(caller, code, told), NEW c \in Conn
  PROVE  /\ \A x \in Code : Pend(c, x)' => Pend(c, x)
         /\ NoEvent(c) => NoEvent(c)' /\ caller # c
         /\ Silent(c) => code \in {"ERROR", "SERVER_ERROR"} \/ caller # c
BY DEF Delivered, NoEvent, Silent, Pend, Code

(* The events that nobody acts on. *)
LEMMA ErrorDelivered ==
  ASSUME ClientInv, NEW caller \in Conn, NEW code \in {"ERROR", "SERVER_ERROR"},
         NEW told, Delivered(caller, code, told)
  PROVE  /\ UNCHANGED <<queue, controlVars>>
         /\ resumeTitle' = resumeTitle /\ loggedIn' = loggedIn
         /\ connectEnabled' = connectEnabled
BY DEF Delivered, OnError, ClientInv, TypeOK

(* Whatever the event, only the objects of this session are given a task,  *)
(* and both are let go of or neither.                                      *)
LEMMA DeliveredTo ==
  ASSUME ClientInv, NEW caller \in Conn, NEW code \in Code, NEW told,
         Delivered(caller, code, told)
  PROVE  /\ queue' \in [Conn -> Seq(Task)]
         /\ \A x \in Conn \ {connection, jump} :
              queue'[x] = queue[x] /\ socketHost'[x] = socketHost[x]
         /\ socketHost' \in [Conn -> Conn \cup {nil}]
         /\ sessions' = sessions
         /\ \/ connection' = connection /\ jump' = jump
            \/ connection' = nil /\ jump' = nil
         /\ state' \in {"Disconnected", "Connected", "Paused"}
         /\ paused' \in Conn \cup {nil}
         /\ isConnectionClosed' \in BOOLEAN /\ isJumpClosed' \in BOOLEAN
<1> USE DEF objects, closedFlags
<1>1. /\ ConnTypeOK /\ queue \in [Conn -> Seq(Task)]
      /\ connection \in Conn \cup {nil} /\ jump \in Conn \cup {nil}
      /\ socketHost \in [Conn -> Conn \cup {nil}]
      /\ state \in {"Disconnected", "Connected", "Paused"}
      /\ paused \in Conn \cup {nil}
      /\ isConnectionClosed \in BOOLEAN /\ isJumpClosed \in BOOLEAN
  BY DEF ClientInv, TypeOK, ControlTypeOK, ConnTypeOK
<1>2. ASSUME NEW object \in {connection, jump},
             NEW task \in {"connect", "closeAllChannels"}, Send(object, task)
      PROVE  /\ queue' \in [Conn -> Seq(Task)]
             /\ \A x \in Conn \ {connection, jump} : queue'[x] = queue[x]
  <2>1. CASE object = nil
    BY <1>1, <1>2, <2>1 DEF Send
  <2>2. CASE object # nil
    <3>1. Dispatch(object, task) /\ object \in Conn /\ task \in Task
      BY <1>1, <1>2, <2>2 DEF Send, Task
    <3> QED
      BY <1>1, <3>1, Dispatched, DispatchType
  <2> QED
    BY <2>1, <2>2
<1>3. CASE code = "CONNECTED" /\ OnConnected(caller, told)
  <2>1. UNCHANGED <<state, objects, paused, closedFlags, sessions>>
    BY <1>3 DEF OnConnected
  <2>2. /\ queue' \in [Conn -> Seq(Task)]
        /\ \A x \in Conn \ {connection, jump} : queue'[x] = queue[x]
    BY <1>1, <1>2, <1>3 DEF OnConnected
  <2>3. /\ \A x \in Conn \ {connection, jump} : socketHost'[x] = socketHost[x]
        /\ socketHost' \in [Conn -> Conn \cup {nil}]
    BY <1>1, <1>3 DEF OnConnected
  <2> QED
    BY <1>1, <2>1, <2>2, <2>3
<1>4. CASE code = "DISCONNECTED" /\ OnDisconnected(caller, told)
  <2>1. UNCHANGED <<paused, socketHost, sessions>>
    BY <1>4 DEF OnDisconnected
  <2>2. /\ queue' \in [Conn -> Seq(Task)]
        /\ \A x \in Conn \ {connection, jump} : queue'[x] = queue[x]
    BY <1>1, <1>2, <1>4 DEF OnDisconnected, signalDisconnected
  <2>3. /\ \/ connection' = connection /\ jump' = jump
           \/ connection' = nil /\ jump' = nil
        /\ state' \in {"Disconnected", "Connected", "Paused"}
        /\ isConnectionClosed' \in BOOLEAN /\ isJumpClosed' \in BOOLEAN
    BY <1>1, <1>4 DEF OnDisconnected, signalDisconnected
  <2> QED
    BY <1>1, <2>1, <2>2, <2>3
<1>5. CASE code = "MISMATCH" /\ OnMismatch(caller, told)
  BY <1>1, <1>5 DEF OnMismatch
<1>6. CASE code \in {"SERVER_ERROR", "ERROR"} /\ OnError(told)
  BY <1>1, <1>6 DEF OnError, controlVars
<1> QED
  BY <1>3, <1>4, <1>5, <1>6 DEF Delivered

LEMMA ErrorStage ==
  ASSUME ClientInv, NEW caller \in Conn, NEW code \in {"ERROR", "SERVER_ERROR"},
         NEW told, Delivered(caller, code, told)
  PROVE  Stage'
<1> USE DEF controlVars, objects, closedFlags
<1>1. /\ UNCHANGED connState /\ UNCHANGED <<queue, controlVars>>
      /\ resumeTitle' = resumeTitle /\ loggedIn' = loggedIn
  BY ErrorDelivered DEF Delivered
<1>2. ASSUME NEW x \in Conn
      PROVE  /\ \A y \in Code : Pend(x, y)' => Pend(x, y)
             /\ NoEvent(x) => NoEvent(x)'
             /\ Pend(x, "CONNECTED")' => Pend(x, "CONNECTED")
             /\ queue'[x] = queue[x]
  BY <1>1 DEF Delivered, Code
<1>3. ASSUME NEW x \in Conn, Resumes(x)
      PROVE  Resumes(x)'
  BY <1>1, <1>2, <1>3, NothingAsked DEF Resumes
<1>4. CASE Between
  BY <1>1, <1>4 DEF Stage, Between, Open
<1>5. ASSUME NEW c \in Conn, Alone(c)
      PROVE  Alone(c)'
  BY <1>1, <1>2, <1>3, <1>5, NothingAsked DEF Alone, Open
<1>6. ASSUME NEW c \in Conn, NEW j \in Conn, WithJump(c, j)
      PROVE  WithJump(c, j)'
  <2>1. CASE Before(c, j)
    <3>1. Resting(c)' /\ NoEvent(c)' /\ Live(j)' /\ Resumes(j)'
      BY <1>1, <1>2, <1>3, <2>1, NothingAsked DEF Before
    <3>2. Pend(j, "CONNECTED")' /\ listening'[j] # {} => Carrying(j)'
      BY <1>1, <1>2, <2>1, NothingAsked DEF Before
    <3> QED
      BY <1>1, <2>1, <3>1, <3>2 DEF WithJump, Before, Held, Open
  <2>2. CASE Through(c, j)
    BY <1>1, <1>2, <1>3, <2>2, NothingAsked DEF WithJump, Through, Held, Open
  <2>3. CASE Asked(c, j)
    BY <1>1, <1>2, <2>3, NothingAsked DEF WithJump, Asked, Held, Open
  <2>4. CASE JumpGone(c, j)
    BY <1>1, <1>2, <2>4, NothingAsked DEF WithJump, JumpGone, Held
  <2>5. CASE ConnectionGone(c, j)
    BY <1>1, <1>2, <2>5, NothingAsked DEF WithJump, ConnectionGone, Held
  <2> QED
    BY <1>6, <2>1, <2>2, <2>3, <2>4, <2>5 DEF WithJump
<1> QED
  BY <1>4, <1>5, <1>6 DEF ClientInv, Stage

(* Nobody else sends events. *)
LEMMA Senders ==
  ASSUME ClientInv, NEW caller \in Conn, NEW code \in Code, NEW told,
         Delivered(caller, code, told)
  PROVE  /\ caller \in {connection, jump}
         /\ ~Between
         /\ \A c \in Conn : Alone(c) => caller = c
         /\ \A c, j \in Conn : WithJump(c, j) => caller \in {c, j}
<1>1. caller \in {connection, jump}
  BY NoEventAfter DEF ClientInv, Others
<1> QED
  BY <1>1, TerminalAssumption DEF Between, Alone, WithJump, Before, Through,
    Asked, JumpGone, ConnectionGone, Held

LEMMA MismatchStage ==
  ASSUME ClientInv, NEW caller \in Conn, NEW told,
         Delivered(caller, "MISMATCH", told)
  PROVE  Stage' /\ resumeTitle' /\ connection' = connection /\ jump' = jump
<1> USE DEF objects, closedFlags
<1>1. /\ UNCHANGED connState /\ Pend(caller, "MISMATCH")
      /\ ~Pend(caller, "MISMATCH")'
      /\ told = "serverMismatch" /\ state' = "Paused" /\ paused' = caller
      /\ UNCHANGED <<queue, objects, closedFlags, socketHost, sessions>>
      /\ resumeTitle' /\ (loggedIn' <=> loggedIn)
  BY DEF Delivered, OnMismatch
<1>2. ASSUME NEW x \in Conn
      PROVE  /\ \A y \in Code : Pend(x, y)' => Pend(x, y)
             /\ NoEvent(x) => NoEvent(x)' /\ caller # x
             /\ Silent(x) => caller # x
             /\ queue'[x] = queue[x]
  BY <1>1, NoEventAfter DEF Code
<1>3. ASSUME NEW x \in Conn, Live(x), caller = x, loggedIn => Stoppable(x)
      PROVE  Live(x)' /\ Resumes(x)' /\ ~Pend(x, "CONNECTED")' /\ ~loggedIn'
  <2>1. /\ Waiting(x) /\ ~Pend(x, "CONNECTED") /\ ~Pend(x, "DISCONNECTED")
        /\ ~loggedIn
    BY <1>1, <1>3, PendingSays
  <2>2. /\ ~Pend(x, "CONNECTED")' /\ ~Pend(x, "DISCONNECTED")'
        /\ ~Pend(x, "MISMATCH")'
    BY <1>1, <1>2, <1>3, <2>1 DEF Code
  <2>3. Waiting(x)'
    BY <1>1, <2>1, LeftAlone, SameLife
  <2> QED
    BY <1>1, <1>3, <2>1, <2>2, <2>3 DEF Resumes, Live, Silent
<1>4. ASSUME NEW c \in Conn, Alone(c)
      PROVE  Alone(c)'
  <2>1. caller = c
    BY <1>4, Senders DEF Code
  <2> QED
    BY <1>1, <1>3, <1>4, <2>1 DEF Alone, Open
<1>5. ASSUME NEW c \in Conn, NEW j \in Conn, WithJump(c, j)
      PROVE  WithJump(c, j)'
  <2>1. caller \in {c, j}
    BY <1>5, Senders DEF Code
  <2>2. CASE Before(c, j)
    <3>1. caller = j
      BY <1>2, <2>1, <2>2 DEF Before
    <3>2. Resting(c)' /\ NoEvent(c)'
      BY <1>1, <1>2, <2>2, NothingAsked DEF Before
    <3> QED
      BY <1>1, <1>3, <2>2, <3>1, <3>2 DEF WithJump, Before, Held, Open
  <2>3. CASE Through(c, j)
    <3>1. caller = c
      BY <1>2, <2>1, <2>3 DEF Through
    <3>2. Carrying(j)' /\ Silent(j)'
      BY <1>1, <1>2, <2>3, NothingAsked DEF Through
    <3> QED
      BY <1>1, <1>3, <2>3, <3>1, <3>2 DEF WithJump, Through, Held, Open
  <2>4. CASE Asked(c, j) \/ JumpGone(c, j) \/ ConnectionGone(c, j)
    BY <1>1, <1>2, <2>1, <2>4, StoppablePends, Weaker
      DEF Asked, JumpGone, ConnectionGone
  <2> QED
    BY <1>5, <2>2, <2>3, <2>4 DEF WithJump
<1>6. ~Between
  BY Senders DEF Code
<1> QED
  BY <1>1, <1>4, <1>5, <1>6 DEF ClientInv, Stage

LEMMA ConnectedStage ==
  ASSUME ClientInv, NEW caller \in Conn, NEW told,
         Delivered(caller, "CONNECTED", told)
  PROVE  Stage' /\ ~resumeTitle' /\ connection' = connection /\ jump' = jump
<1> USE DEF objects, closedFlags
<1>1. /\ UNCHANGED connState /\ Pend(caller, "CONNECTED")
      /\ ~Pend(caller, "CONNECTED")'
      /\ OnConnected(caller, told)
      /\ UNCHANGED <<state, objects, paused, closedFlags, sessions>>
      /\ told \in {"connected", "nothing"}
      /\ resumeTitle' <=> resumeTitle
      /\ told = "nothing" => (loggedIn' <=> loggedIn)
  BY DEF Delivered, OnConnected
<1>2. ASSUME NEW x \in Conn
      PROVE  /\ \A y \in Code : Pend(x, y)' => Pend(x, y)
             /\ NoEvent(x) => NoEvent(x)' /\ caller # x
             /\ Silent(x) => caller # x
  BY NoEventAfter DEF Code
<1>3. ConnTypeOK /\ queue \in [Conn -> Seq(Task)]
      /\ socketHost \in [Conn -> Conn \cup {nil}]
  BY DEF ClientInv, TypeOK, ControlTypeOK, ConnTypeOK
<1>4. ASSUME NEW x \in Conn, Resumes(x), caller = x
      PROVE  ~resumeTitle
  BY <1>2, <1>4 DEF Resumes
<1>5. ASSUME NEW c \in Conn, caller = c, connection = c, Live(c)
      PROVE  Live(c)' /\ Stoppable(c)' /\ UNCHANGED <<queue, socketHost>>
  <2>1. UNCHANGED <<queue, socketHost>>
    BY <1>1, <1>5 DEF OnConnected
  <2>2. Stoppable(c)
    BY <1>1, <1>5, PendingSays
  <2> QED
    BY <1>1, <1>2, <1>5, <2>1, <2>2, NothingAsked
<1>6. ASSUME NEW c \in Conn, Alone(c)
      PROVE  Alone(c)' /\ ~resumeTitle'
  <2>1. caller = c
    BY <1>6, Senders DEF Code
  <2>2. ~resumeTitle
    BY <1>4, <1>6, <2>1 DEF Alone
  <2> QED
    BY <1>1, <1>5, <1>6, <2>1, <2>2 DEF Alone, Open, Resumes
<1>7. ASSUME NEW c \in Conn, NEW j \in Conn, WithJump(c, j)
      PROVE  WithJump(c, j)' /\ ~resumeTitle'
  <2>1. caller \in {c, j} /\ connection = c /\ jump = j /\ c # j
        /\ c # nil /\ j # nil
    BY <1>7, Senders, TerminalAssumption DEF WithJump, Before, Through, Asked,
      JumpGone, ConnectionGone, Held, Code
  <2>2. CASE Before(c, j)
    <3>1. caller = j /\ told = "nothing"
      BY <1>1, <1>2, <2>1, <2>2 DEF Before, OnConnected
    <3>2. ~resumeTitle /\ ~loggedIn
      BY <1>4, <2>2, <3>1 DEF Before
    <3>3. Stoppable(j) /\ ~Pend(j, "CONNECTED")'
      BY <1>1, <2>2, <3>1, PendingSays DEF Before
    <3>4. CASE ~jumpPortKnown
      <4>1. Dispatch(j, "closeAllChannels") /\ UNCHANGED socketHost
        BY <1>1, <2>1, <3>1, <3>4 DEF OnConnected, Send
      <4>2. Stoppable(j)'
        BY <1>1, <1>2, <1>3, <3>3, <4>1, Dispatched, AskedToStop
      <4>3. Resting(c)' /\ NoEvent(c)'
        BY <1>1, <1>2, <1>3, <2>1, <2>2, <4>1, Dispatched, NothingAsked
          DEF Before
      <4> QED
        BY <1>1, <2>2, <3>1, <3>2, <3>3, <4>1, <4>2, <4>3, StoppedLive
          DEF WithJump, Before, Held, Open, Resumes
    <3>5. CASE jumpPortKnown
      <4>1. /\ Dispatch(c, "connect")
            /\ socketHost' = [socketHost EXCEPT ![connection] = jump]
        BY <1>1, <2>1, <3>1, <3>5 DEF OnConnected, Send
      <4>2. socketHost'[c] = j /\ socketHost'[j] = nil
        BY <1>3, <2>1, <2>2, <4>1 DEF Before, Held
      <4>3. Carrying(j)
        BY <1>1, <2>1, <2>2, <3>1, <3>5 DEF Before, jumpPortKnown
      <4>4. Carrying(j)'
        BY <1>1, <1>2, <1>3, <2>1, <4>1, <4>3, Dispatched, NothingAsked
      <4>5. ~Pend(j, "MISMATCH") /\ ~Pend(j, "DISCONNECTED")
        BY <3>3, <4>3, StoppablePends, PartsApart
      <4>6. Silent(j)'
        BY <1>2, <3>3, <4>5 DEF Silent, Code
      <4>7. LoggingIn(c)'
        BY <1>1, <1>3, <2>2, <4>1, Dispatched, LoginStarts DEF Before
      <4>8. Silent(c)'
        BY <1>2, <2>2 DEF Before, NoEvent, Silent, Pend
      <4> QED
        BY <1>1, <2>2, <3>1, <3>2, <4>2, <4>4, <4>6, <4>7, <4>8
          DEF WithJump, Before, Through, Held, Open, Resumes, Live
    <3> QED
      BY <1>1, <3>2, <3>4, <3>5
  <2>3. CASE Through(c, j)
    <3>1. caller = c
      BY <1>2, <2>1, <2>3 DEF Through
    <3>2. ~resumeTitle
      BY <1>4, <2>3, <3>1 DEF Through
    <3>3. Live(c)' /\ Stoppable(c)' /\ UNCHANGED <<queue, socketHost>>
      BY <1>5, <2>1, <2>3, <3>1 DEF Through
    <3>4. Carrying(j)' /\ Silent(j)'
      BY <1>1, <1>2, <2>3, <3>3, NothingAsked DEF Through
    <3> QED
      BY <1>1, <2>3, <3>2, <3>3, <3>4 DEF WithJump, Through, Held, Open, Resumes
  <2>4. CASE Asked(c, j) \/ JumpGone(c, j) \/ ConnectionGone(c, j)
    BY <1>1, <1>2, <2>1, <2>4, Weaker DEF Asked, JumpGone, ConnectionGone
  <2> QED
    BY <1>7, <2>2, <2>3, <2>4 DEF WithJump
<1>8. ~Between
  BY Senders DEF Code
<1> QED
  BY <1>1, <1>6, <1>7, <1>8 DEF ClientInv, Stage

LEMMA DisconnectedStage ==
  ASSUME ClientInv, NEW caller \in Conn, NEW told,
         Delivered(caller, "DISCONNECTED", told)
  PROVE  /\ Stage' /\ ~resumeTitle'
         /\ \/ connection' = connection /\ jump' = jump
            \/ \A x \in {connection, jump} \ {nil} : Over(x)' /\ NoEvent(x)'
<1> USE DEF objects, closedFlags
<1>1. /\ UNCHANGED connState /\ Pend(caller, "DISCONNECTED")
      /\ NoEvent(caller)'
      /\ OnDisconnected(caller, told)
      /\ UNCHANGED <<paused, socketHost, sessions>>
      /\ told \in {"disconnected", "nothing"}
      /\ resumeTitle' <=> resumeTitle
      /\ told = "nothing" => (loggedIn' <=> loggedIn)
      /\ told = "disconnected" => ~loggedIn'
  BY DEF Delivered, OnDisconnected
<1>2. ASSUME NEW x \in Conn
      PROVE  /\ \A y \in Code : Pend(x, y)' => Pend(x, y)
             /\ NoEvent(x) => NoEvent(x)' /\ caller # x
             /\ Silent(x) => caller # x
  BY NoEventAfter DEF Code
<1>3. ConnTypeOK /\ queue \in [Conn -> Seq(Task)]
  BY DEF ClientInv, TypeOK, ControlTypeOK, ConnTypeOK
<1>4. ASSUME NEW x \in Conn, Resumes(x), caller = x
      PROVE  ~resumeTitle
  BY <1>2, <1>4 DEF Resumes
<1>5. ASSUME signalDisconnected, ~resumeTitle, ~loggedIn'
      PROVE  Between' /\ Stage' /\ UNCHANGED queue
  BY <1>1, <1>5 DEF signalDisconnected, Between, Open, Stage
<1>6. ASSUME NEW x \in Conn, queue'[x] = queue[x], Over(x)
      PROVE  Over(x)'
  BY <1>1, <1>2, <1>6, NothingAsked
<1>7. ASSUME NEW c \in Conn, Alone(c)
      PROVE  Stage' /\ ~resumeTitle' /\ Over(c)' /\ NoEvent(c)' /\ jump = nil
             /\ connection = c
  <2>1. caller = c /\ connection = c /\ jump = nil
    BY <1>7, Senders DEF Code, Alone
  <2>2. ~resumeTitle /\ Over(c)
    BY <1>1, <1>4, <1>7, <2>1, PendingSays DEF Alone
  <2>3. signalDisconnected /\ told = "disconnected"
    BY <1>1, <2>1 DEF OnDisconnected
  <2> QED
    BY <1>1, <1>5, <1>6, <2>1, <2>2, <2>3
<1>8. ASSUME NEW c \in Conn, NEW j \in Conn, WithJump(c, j)
      PROVE  /\ ~resumeTitle' /\ connection = c /\ jump = j
             /\ \/ WithJump(c, j)' /\ connection' = connection /\ jump' = jump
                \/ /\ Stage' /\ Over(c)' /\ NoEvent(c)'
                   /\ Over(j)' /\ NoEvent(j)'
  <2>1. caller \in {c, j} /\ connection = c /\ jump = j /\ c # j
        /\ c # nil /\ j # nil
    BY <1>8, Senders, TerminalAssumption DEF WithJump, Before, Through, Asked,
      JumpGone, ConnectionGone, Held, Code
(* The connection has gone first, and the jump host is asked to go. *)
  <2>2. ASSUME caller = c, ~isJumpClosed, ~isConnectionClosed, ~resumeTitle,
               Over(c), Stoppable(j), ~Pend(j, "CONNECTED"), Held(c, j),
               loggedIn => Ended(c)
        PROVE  ConnectionGone(c, j)'
    <3>1. /\ Dispatch(j, "closeAllChannels") /\ isConnectionClosed'
          /\ UNCHANGED <<state, objects, isJumpClosed>> /\ told = "nothing"
      BY <1>1, <2>1, <2>2 DEF OnDisconnected, Send
    <3>2. Stoppable(j)'
      BY <1>1, <1>2, <1>3, <2>2, <3>1, Dispatched, AskedToStop
    <3>3. queue'[c] = queue[c]
      BY <1>3, <2>1, <3>1, Dispatched
    <3>4. Over(c)' /\ (Ended(c) => Ended(c)')
      BY <1>1, <1>2, <2>2, <3>3, NothingAsked
    <3>5. ~Pend(j, "CONNECTED")'
      BY <1>2, <2>2 DEF Code
    <3> QED
      BY <1>1, <2>2, <3>1, <3>2, <3>4, <3>5 DEF ConnectionGone, Held
(* The jump host has gone first, and the connection is asked to go. *)
  <2>3. ASSUME caller = j, ~isJumpClosed, ~isConnectionClosed, ~resumeTitle,
               Over(j), Stopped(c) \/ (Resting(c) /\ Silent(c)), Held(c, j),
               socketHost[c] = nil, ~loggedIn
        PROVE  JumpGone(c, j)'
    <3>1. /\ Dispatch(c, "closeAllChannels") /\ isJumpClosed'
          /\ UNCHANGED <<state, objects, isConnectionClosed>> /\ told = "nothing"
      BY <1>1, <2>1, <2>3 DEF OnDisconnected, Send
    <3>2. Stopped(c)'
      BY <1>1, <1>2, <1>3, <2>3, <3>1, Dispatched, AskedToStop
    <3>3. queue'[j] = queue[j]
      BY <1>3, <2>1, <3>1, Dispatched
    <3>4. Over(j)'
      BY <1>6, <2>3, <3>3
    <3> QED
      BY <1>1, <2>3, <3>1, <3>2, <3>4 DEF JumpGone, Held
  <2>4. CASE Before(c, j)
    <3>1. caller = j
      BY <1>2, <2>1, <2>4 DEF Before
    <3>2. ~resumeTitle /\ Over(j)
      BY <1>1, <1>4, <2>4, <3>1, PendingSays DEF Before
    <3>3. Silent(c)
      BY <2>4, NothingPends DEF Before
    <3>4. JumpGone(c, j)'
      BY <2>3, <2>4, <3>1, <3>2, <3>3 DEF Before, Open
    <3> QED
      BY <1>1, <2>1, <3>2, <3>4 DEF WithJump, JumpGone, Held
  <2>5. CASE Through(c, j)
    <3>1. caller = c
      BY <1>2, <2>1, <2>5 DEF Through
    <3>2. ~resumeTitle /\ Over(c) /\ (loggedIn => Ended(c))
      BY <1>1, <1>4, <2>5, <3>1, PendingSays, StoppablePends DEF Through
    <3>3. Stoppable(j) /\ ~Pend(j, "CONNECTED")
      BY <2>5, Weaker DEF Through, Silent
    <3>4. ConnectionGone(c, j)'
      BY <2>2, <2>5, <3>1, <3>2, <3>3 DEF Through, Open
    <3> QED
      BY <1>1, <2>1, <3>2, <3>4 DEF WithJump, ConnectionGone, Held
  <2>6. CASE Asked(c, j)
    <3>1. ~resumeTitle /\ ~loggedIn /\ Held(c, j) /\ socketHost[c] = nil
          /\ ~isConnectionClosed /\ ~isJumpClosed
          /\ Stopped(c) /\ Stopped(j)
      BY <2>6 DEF Asked, Open
    <3>2. CASE caller = c
      <4>1. Over(c)
        BY <1>1, <3>1, <3>2, Weaker, StoppablePends DEF Over
      <4>2. ConnectionGone(c, j)'
        BY <2>2, <3>1, <3>2, <4>1, Weaker
      <4> QED
        BY <1>1, <2>1, <3>1, <4>2 DEF WithJump, ConnectionGone, Held
    <3>3. CASE caller = j
      <4>1. Over(j)
        BY <1>1, <3>1, <3>3, Weaker, StoppablePends DEF Over
      <4>2. JumpGone(c, j)'
        BY <2>3, <3>1, <3>3, <4>1
      <4> QED
        BY <1>1, <2>1, <3>1, <4>2 DEF WithJump, JumpGone, Held
    <3> QED
      BY <2>1, <3>2, <3>3
  <2>7. CASE JumpGone(c, j)
    <3>1. caller = c /\ NoEvent(j)'
      BY <1>2, <2>1, <2>7 DEF JumpGone
    <3>2. Over(c) /\ Over(j) /\ ~resumeTitle /\ ~loggedIn
      BY <1>1, <2>7, <3>1, Weaker, StoppablePends DEF JumpGone, Over
    <3>3. signalDisconnected /\ told = "disconnected"
      BY <1>1, <2>1, <2>7, <3>1 DEF OnDisconnected, JumpGone
    <3> QED
      BY <1>1, <1>5, <1>6, <2>1, <3>1, <3>2, <3>3
  <2>8. CASE ConnectionGone(c, j)
    <3>1. caller = j /\ NoEvent(c)'
      BY <1>2, <2>1, <2>8 DEF ConnectionGone
    <3>2. Over(c) /\ Over(j) /\ ~resumeTitle
      BY <1>1, <2>8, <3>1, StoppablePends DEF ConnectionGone, Over
    <3>3. signalDisconnected /\ told = "disconnected"
      BY <1>1, <2>1, <2>8, <3>1 DEF OnDisconnected, ConnectionGone
    <3> QED
      BY <1>1, <1>5, <1>6, <2>1, <3>1, <3>2, <3>3
  <2> QED
    BY <1>8, <2>4, <2>5, <2>6, <2>7, <2>8 DEF WithJump
<1>9. ~Between
  BY Senders DEF Code
<1>10. CASE \E c \in Conn : Alone(c)
  BY <1>7, <1>10
<1>11. CASE \E c, j \in Conn : WithJump(c, j)
  BY <1>8, <1>11 DEF Stage
<1> QED
  BY <1>9, <1>10, <1>11 DEF ClientInv, Stage

LEMMA DeliverKeeps ==
  ASSUME ClientInv, Deliver
  PROVE  ClientInv'
<1>1. /\ Orderly' /\ mainQueue' \in Seq(Event)
      /\ connectEnabled' \in BOOLEAN /\ disconnectEnabled' \in BOOLEAN
      /\ resumeTitle' \in BOOLEAN /\ loggedIn' \in BOOLEAN
      /\ asking' \in BOOLEAN /\ fatal' \in BOOLEAN
  BY SomethingDelivered
<1>2. PICK caller \in Conn, code \in Code, told \in Answer :
        Delivered(caller, code, told)
  BY SomethingDelivered
<1>3. /\ queue' \in [Conn -> Seq(Task)]
      /\ \A x \in Conn \ {connection, jump} :
           queue'[x] = queue[x] /\ socketHost'[x] = socketHost[x]
      /\ socketHost' \in [Conn -> Conn \cup {nil}]
      /\ sessions' = sessions
      /\ \/ connection' = connection /\ jump' = jump
         \/ connection' = nil /\ jump' = nil
      /\ state' \in {"Disconnected", "Connected", "Paused"}
      /\ paused' \in Conn \cup {nil}
      /\ isConnectionClosed' \in BOOLEAN /\ isJumpClosed' \in BOOLEAN
  BY <1>2, DeliveredTo
<1>4. UNCHANGED connState
  BY <1>2 DEF Delivered
<1>5. TypeOK'
  <2>1. ConnTypeOK'
    BY <1>1, <1>3, <1>4, QueuesTyped DEF ClientInv, TypeOK, ControlTypeOK
  <2>2. /\ connection' \in Conn \cup {nil} /\ jump' \in Conn \cup {nil}
        /\ sessions' \in 0..Len(Connection)
    BY <1>3 DEF ClientInv, TypeOK, ControlTypeOK
  <2> QED
    BY <1>1, <1>3, <2>1, <2>2 DEF TypeOK, ControlTypeOK
<1>6. /\ Stage'
      /\ \/ connection' = connection /\ jump' = jump
         \/ \A x \in {connection, jump} \ {nil} : Over(x)' /\ NoEvent(x)'
  <2>1. CASE code \in {"ERROR", "SERVER_ERROR"}
    BY <1>2, <2>1, ErrorStage, ErrorDelivered DEF controlVars, objects
  <2>2. CASE code = "MISMATCH"
    BY <1>2, <2>2, MismatchStage
  <2>3. CASE code = "CONNECTED"
    BY <1>2, <2>3, ConnectedStage
  <2>4. CASE code = "DISCONNECTED"
    BY <1>2, <2>4, DisconnectedStage
  <2> QED
    BY <2>1, <2>2, <2>3, <2>4 DEF Code
<1>7. Others'
  <2> SUFFICES ASSUME NEW x \in Conn, x \notin {connection', jump'}
               PROVE  Over(x)' /\ NoEvent(x)'
    BY DEF Others
  <2>1. CASE x \in {connection, jump}
    BY <1>6, <2>1, TerminalAssumption
  <2>2. CASE x \notin {connection, jump}
    <3>1. Over(x) /\ NoEvent(x) /\ queue'[x] = queue[x]
      BY <1>3, <2>2 DEF ClientInv, Others
    <3> QED
      BY <1>2, <1>4, <3>1, NoEventAfter, NothingAsked
  <2> QED
    BY <2>1, <2>2
<1>8. Unused'
  <2>0. sessions \in 0..Len(Connection) /\ Len(Connection) \in Nat
    BY TerminalAssumption DEF ClientInv, TypeOK, ControlTypeOK
  <2>1. \A i \in 1..Len(Connection) : i > sessions' =>
          /\ queue'[Connection[i]] = queue[Connection[i]]
          /\ socketHost'[Connection[i]] = socketHost[Connection[i]]
          /\ queue'[Jump[i]] = queue[Jump[i]]
          /\ socketHost'[Jump[i]] = socketHost[Jump[i]]
    <3> SUFFICES ASSUME NEW i \in 1..Len(Connection), i > sessions
                 PROVE  /\ Connection[i] \in Conn \ {connection, jump}
                        /\ Jump[i] \in Conn \ {connection, jump}
      BY <1>3
    <3>1. sessions # 0 => sessions \in 1..Len(Connection) /\ i # sessions
      BY <2>0
    <3>2. Connection[i] \in Conn /\ Jump[i] \in Conn
      BY TerminalAssumption
    <3>3. /\ connection # nil => /\ Connection[i] # connection
                                 /\ Jump[i] # connection
          /\ jump # nil => Connection[i] # jump /\ Jump[i] # jump
      BY <3>1, AllocationAssumption DEF ClientInv, Current
    <3> QED
      BY <3>2, <3>3, TerminalAssumption
  <2> QED
    BY <1>3, <1>4, <2>0, <2>1, UnusedKept DEF ClientInv
<1>9. Current'
  BY <1>3 DEF ClientInv, Current
<1>10. Buttons'
  <2>1. CASE code \in {"ERROR", "SERVER_ERROR"}
    BY <1>2, <2>1, ErrorDelivered DEF ClientInv, Buttons, controlVars, objects
  <2>2. CASE code = "MISMATCH"
    BY <1>2, <2>2, MismatchStage DEF Buttons
  <2>3. CASE code = "CONNECTED"
    <3>1. /\ UNCHANGED paused /\ told \in {"connected", "nothing"}
          /\ connectEnabled' = connectEnabled
          /\ resumeTitle' = resumeTitle
      BY <1>2, <2>3 DEF Delivered, OnConnected, ClientInv, TypeOK
    <3> QED
      BY <1>2, <2>3, <3>1, ConnectedStage DEF ClientInv, Buttons
  <2>4. CASE code = "DISCONNECTED"
    <3>1. /\ UNCHANGED paused /\ told \in {"disconnected", "nothing"}
          /\ told = "nothing" => connectEnabled' = connectEnabled
          /\ told = "disconnected" => connection' = nil
          /\ resumeTitle' = resumeTitle
      BY <1>2, <2>4 DEF Delivered, OnDisconnected, signalDisconnected, ClientInv,
        TypeOK
    <3> QED
      BY <1>2, <1>3, <2>4, <3>1, DisconnectedStage DEF ClientInv, Buttons
  <2> QED
    BY <2>1, <2>2, <2>3, <2>4 DEF Code
<1> QED
  BY <1>1, <1>5, <1>6, <1>7, <1>8, <1>9, <1>10 DEF ClientInv

LEMMA ConnectionKeeps ==
  ASSUME ClientInv, NEW d \in Conn, ConnectionStep(d),
         UNCHANGED <<buttons, userVars>>
  PROVE  ClientInv'
<1>1. /\ Idle /\ ConnTypeOK
      /\ Work(d) \/ SourceFires(d)
  BY DEF ConnectionStep, Idle, ClientInv, TypeOK, ControlTypeOK
<1>2. Stage' /\ Orderly'
  BY <1>1, StageWorks, WorkInOrder DEF ClientInv
<1>3. Others' /\ Unused' /\ Current' /\ Buttons'
  BY <1>1, RestWorks DEF ClientInv
<1>4. TypeOK'
  <2>1. ConnTypeOK'
    BY <1>1, ConnectionType
  <2> QED
    BY <1>1, <2>1 DEF Idle, ClientInv, TypeOK, ControlTypeOK, controlVars,
      objects, closedFlags, buttons, userVars
<1> QED
  BY <1>2, <1>3, <1>4 DEF ClientInv

----------------------------------------------------------------------------
(* The theorems.                                                           *)

LEMMA ClientStart ==
  ASSUME Init
  PROVE  ClientInv
<1> USE DEF Init, ControlInit, ConnInit
<1>1. TypeOK
  <2>1. <<>> \in Seq(Task) /\ <<>> \in Seq([caller : Conn, code : Code])
    OBVIOUS
  <2>2. ConnTypeOK
    BY <2>1, ConnAssumption DEF ConnTypeOK
  <2>3. 0 \in 0..Len(Connection)
    BY TerminalAssumption
  <2> QED
    BY <2>2, <2>3 DEF TypeOK, ControlTypeOK
<1>2. mainQueue = <<>> /\ Len(mainQueue) = 0
  OBVIOUS
<1>3. Orderly /\ \A c \in Conn : NoEvent(c)
  BY <1>2 DEF Orderly, NoEvent
<1>4. \A c \in Conn : Resting(c) /\ socketHost[c] = nil
  BY DEF Resting, Quiet, Armed
<1>5. Stage
  BY DEF Stage, Between, Open
<1>6. Others
  BY <1>3, <1>4 DEF Others, Over
<1>7. Unused
  BY <1>4, TerminalAssumption DEF Unused
<1>8. Current /\ Buttons
  BY DEF Current, Buttons
<1> QED
  BY <1>1, <1>3, <1>5, <1>6, <1>7, <1>8 DEF ClientInv

LEMMA ClientStep ==
  ASSUME ClientInv, [Next]_vars, Patient
  PROVE  ClientInv'
<1>1. CASE PressConnect
  BY <1>1, PressConnectKeeps
<1>2. CASE PressResume
  BY <1>2, PressResumeKeeps
<1>3. CASE PressDisconnect
  BY <1>3, PressDisconnectKeeps
<1>4. CASE Deliver
  BY <1>4, DeliverKeeps
<1>5. ASSUME NEW d \in Conn, ConnectionStep(d), UNCHANGED <<buttons, userVars>>
      PROVE  ClientInv'
  BY <1>5, ConnectionKeeps
<1>6. CASE UNCHANGED vars
  <2>1. UNCHANGED connState /\ UNCHANGED mainQueue /\ Idle /\ UNCHANGED queue
    BY <1>6 DEF vars, connVars, connState, resources, tunnelVars,
      connectionVars, history, Idle
  <2>2. TypeOK'
    <3>1. ConnTypeOK'
      BY <2>1, QueuesTyped DEF ClientInv, TypeOK, ControlTypeOK, ConnTypeOK,
        Event
    <3> QED
      BY <2>1, <3>1 DEF ClientInv, TypeOK, ControlTypeOK, Idle, controlVars,
        objects, closedFlags, buttons, userVars
  <2>3. Orderly' /\ Others' /\ Unused' /\ Current'
    BY <2>1, PressRest DEF Idle, controlVars
  <2>4. Buttons'
    BY <2>1 DEF ClientInv, Buttons, Idle, controlVars, objects, buttons
  <2>5. Stage'
    BY <2>1, StageStutters DEF ClientInv
  <2> QED
    BY <2>2, <2>3, <2>4, <2>5 DEF ClientInv
<1> QED
  BY <1>1, <1>2, <1>3, <1>4, <1>5, <1>6 DEF Next

(* Whatever the tunnels, the connections with X11, the number of sessions  *)
(* and the bounds, for a Patient user.  Nothing in the application makes   *)
(* the user one: Disconnect stays enabled when Resume is pressed, and a    *)
(* connection that is ended during the login may notify its end twice, or  *)
(* be started after its end.  This invariant and the theorems that rest on *)
(* it are about the sessions in which that does not happen.                *)
THEOREM ClientInvariant ==
  ASSUME Patient
  PROVE  Spec => []ClientInv
<1>1. Init => ClientInv
  BY ClientStart
<1>2. ClientInv /\ [Next]_vars => ClientInv'
  BY ClientStep
<1> QED
  BY <1>1, <1>2, PTL DEF Spec

(* What the terminal has let go of is released: descriptor and session, of *)
(* the connection and of the jump host, for a Patient user.  For another,  *)
(* a second DISCONNECTED of an earlier session sets isJumpClosed           *)
(* (SshTerminal.m:451), and the end of the connection then lets go of a    *)
(* jump host that is still up.                                             *)
THEOREM LetGoMeansReleasedHolds ==
  ASSUME Patient
  PROVE  Spec => []LetGoMeansReleased
<1>1. ClientInv => LetGoMeansReleased
  BY DEF ClientInv, Others, Over, Ended, Resting, LetGoMeansReleased
<1> QED
  BY <1>1, ClientInvariant, PTL

(* No event outlives the session of its sender, for a Patient user: the    *)
(* second DISCONNECTED of a connection ended during its login would.       *)
THEOREM NoStrayEventHolds ==
  ASSUME Patient
  PROVE  Spec => []NoStrayEvent
<1>1. ASSUME ClientInv
      PROVE  NoStrayEvent
  <2> SUFFICES ASSUME NEW i \in 1..Len(mainQueue)
               PROVE  mainQueue[i].caller \in {connection, jump}
    BY DEF NoStrayEvent
  <2>1. mainQueue[i].caller \in Conn
    <3>1. mainQueue \in Seq(Event)
      BY <1>1 DEF ClientInv, TypeOK, ControlTypeOK, ConnTypeOK, Event
    <3>2. mainQueue[i] \in Event
      BY <3>1
    <3> QED
      BY <3>2 DEF Event
  <2> QED
    BY <1>1, <2>1 DEF ClientInv, Others, NoEvent
<1> QED
  BY <1>1, ClientInvariant, PTL

(* Between two sessions the two flags of callbackFromConnection are clear, *)
(* for a Patient user: for another, the second DISCONNECTED of a           *)
(* connection ended during its login is taken for that of the jump host    *)
(* and sets isJumpClosed again.                                            *)
THEOREM ReadyForNextSessionHolds ==
  ASSUME Patient
  PROVE  Spec => []ReadyForNextSession
<1>1. ASSUME ClientInv
      PROVE  ReadyForNextSession
  <2>1. connection = nil => Between
    BY <1>1, Empty DEF ClientInv
  <2> QED
    BY <1>1, <2>1 DEF ClientInv, ReadyForNextSession, Between, Open
<1> QED
  BY <1>1, ClientInvariant, PTL

(* The tunnel is there as long as the session that runs through it, for a  *)
(* Patient user: for another, a connection ended while its jump host logs  *)
(* in is started after its end, when the jump host says CONNECTED          *)
(* (403-412), and its own DISCONNECTED then ends the jump host under it    *)
(* (419-438).                                                              *)
THEOREM TunnelOutlivesTrafficHolds ==
  ASSUME Patient
  PROVE  Spec => []TunnelOutlivesTraffic
<1>1. ASSUME ClientInv
      PROVE  TunnelOutlivesTraffic
  <2> SUFFICES ASSUME NEW x \in Conn, session[x] = "connected",
                      socketHost[x] # nil
               PROVE  session[socketHost[x]] = "connected"
    BY DEF TunnelOutlivesTraffic
  <2>1. x \in {connection, jump}
    BY <1>1 DEF ClientInv, Others, Over, Ended, Resting
  <2>2. ~Between /\ ~\E c \in Conn : Alone(c)
    BY <2>1, TerminalAssumption DEF Between, Alone
  <2>3. PICK c \in Conn, j \in Conn : WithJump(c, j)
    BY <1>1, <2>2 DEF ClientInv, Stage
  <2>4. CASE Through(c, j)
    BY <2>1, <2>4 DEF Through, Held, Carrying
  <2>5. CASE ConnectionGone(c, j)
    BY <2>1, <2>5 DEF ConnectionGone, Held, Over, Ended, Resting
  <2>6. CASE Before(c, j) \/ Asked(c, j) \/ JumpGone(c, j)
    BY <2>1, <2>6 DEF Before, Asked, JumpGone, Held
  <2> QED
    BY <2>3, <2>4, <2>5, <2>6 DEF WithJump
<1> QED
  BY <1>1, ClientInvariant, PTL
=============================================================================
