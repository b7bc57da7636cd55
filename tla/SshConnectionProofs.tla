------------------------ MODULE SshConnectionProofs ------------------------
(***************************************************************************)
(* What holds of the tasks of a connection whoever its client is: types,   *)
(* the positions of a queue, and that a connection leaves the others alone.*)
(***************************************************************************)
EXTENDS SshConnection, TLAPS

----------------------------------------------------------------------------
(* Typing.                                                                 *)

Event == [caller : Conn, code : Code]

LEMMA FinishType ==
  ASSUME queue \in [Conn -> Seq(Task)], NEW c \in Conn, queue[c] # <<>>,
         NEW tasks \in Seq(Task), Finish(c, tasks)
  PROVE  queue' \in [Conn -> Seq(Task)]
<1>1. Tail(queue[c]) \in Seq(Task)
  OBVIOUS
<1>2. Tail(queue[c]) \o tasks \in Seq(Task)
  BY <1>1
<1> QED
  BY <1>2 DEF Finish

LEMMA DispatchType ==
  ASSUME queue \in [Conn -> Seq(Task)], NEW c \in Conn, NEW task \in Task,
         Dispatch(c, task)
  PROVE  queue' \in [Conn -> Seq(Task)]
<1>1. Append(queue[c], task) \in Seq(Task)
  OBVIOUS
<1> QED
  BY <1>1 DEF Dispatch

LEMMA NotifyType ==
  ASSUME mainQueue \in Seq(Event), NEW c \in Conn, NEW codes \in Seq(Code),
         eventNotify(c, codes)
  PROVE  mainQueue' \in Seq(Event)
<1>1. Len(codes) \in Nat /\ \A i \in 1..Len(codes) : codes[i] \in Code
  OBVIOUS
<1>2. Events(c, codes) \in Seq(Event)
  BY <1>1 DEF Events, Event
<1> QED
  BY <1>2 DEF eventNotify

(* Every list of tasks that a task dispatches. *)
LEMMA TaskLists ==
  /\ <<>> \in Seq(Task)
  /\ \A t \in Task : <<t>> \in Seq(Task)
  /\ \A t, u \in Task : <<t, u>> \in Seq(Task)
<1> QED
  OBVIOUS

LEMMA CodeLists ==
  /\ \A t \in Code : <<t>> \in Seq(Code)
  /\ \A t, u \in Code : <<t, u>> \in Seq(Code)
<1> QED
  OBVIOUS

LEMMA LoginType ==
  ASSUME ConnTypeOK, NEW c \in Conn,
         Connect(c) \/ AuthenticateServer(c) \/ AuthenticateUser(c)
  PROVE  ConnTypeOK'
<1> USE DEF ConnTypeOK
<1>1. queue' \in [Conn -> Seq(Task)]
  <2>1. queue[c] # <<>>
    BY DEF Connect, AuthenticateServer, AuthenticateUser, KeyUnusable,
      UserRefused, UserAccepted, Running
  <2>2. \E tasks \in Seq(Task) : Finish(c, tasks)
    BY TaskLists DEF Connect, ConnectRefused, HandshakeFailed, ConnectAccepted,
      AuthenticateServer, AuthenticateUser, KeyUnusable, UserRefused,
      UserAccepted, Task
  <2> QED
    BY <2>1, <2>2, FinishType
<1>2. mainQueue' \in Seq(Event)
  <2>1. UNCHANGED mainQueue \/ \E codes \in Seq(Code) : eventNotify(c, codes)
    BY CodeLists DEF Connect, ConnectRefused, HandshakeFailed, ConnectAccepted,
      AuthenticateServer, AuthenticateUser, KeyUnusable, UserRefused,
      UserAccepted, Code
  <2> QED
    BY <2>1, NotifyType DEF Event
<1>3. /\ session' \in [Conn -> {"new", "connected", "disconnected"}]
      /\ socketFd' \in [Conn -> BOOLEAN]
  BY DEF Connect, ConnectRefused, HandshakeFailed, ConnectAccepted,
    AuthenticateServer, AuthenticateUser, KeyUnusable, UserRefused,
    UserAccepted, resources
<1> QED
  BY <1>1, <1>2, <1>3 DEF Connect, AuthenticateServer, AuthenticateUser,
    KeyUnusable, UserRefused, UserAccepted,
    resources, tunnelVars, connectionVars, history, Event

LEMMA OpenType ==
  ASSUME ConnTypeOK, NEW c \in Conn,
         OpenTerminalChannel(c) \/ OpenTunnelChannels(c)
  PROVE  ConnTypeOK'
<1> USE DEF ConnTypeOK
<1>1. queue' \in [Conn -> Seq(Task)]
  <2>1. queue[c] # <<>>
    BY DEF OpenTerminalChannel, OpenTunnelChannels, Running
  <2>2. \E tasks \in Seq(Task) : Finish(c, tasks)
    BY TaskLists DEF OpenTerminalChannel, OpenTerminalOutOfMemory,
      OpenTerminalRefused, OpenTerminalAccepted, OpenTunnelChannels, Task
  <2> QED
    BY <2>1, <2>2, FinishType
<1>2. mainQueue' \in Seq(Event)
  <2>1. \E codes \in Seq(Code) : eventNotify(c, codes)
    BY CodeLists DEF OpenTerminalChannel, OpenTerminalOutOfMemory,
      OpenTerminalRefused, OpenTerminalAccepted, OpenTunnelChannels,
      OpenTunnels, Code
  <2> QED
    BY <2>1, NotifyType DEF Event
<1>3. /\ readSource' \in [Conn -> {"null", "suspended"} \cup Armed]
      /\ channel' \in [Conn -> {"null", "open", "stale"}]
      /\ openedLate' \in [Conn -> BOOLEAN]
  BY DEF OpenTerminalChannel, OpenTerminalOutOfMemory, OpenTerminalRefused,
    OpenTerminalAccepted, OpenTunnelChannels, Armed
<1>4. /\ forwardTunnels' \in [Conn -> SUBSET Tunnel]
      /\ listening' \in [Conn -> SUBSET Tunnel]
      /\ reverseTunnels' \in [Conn -> SUBSET Tunnel]
  <2>1. CASE OpenTunnels(c)
    <3>1. PICK f \in SUBSET forwardTunnels[c], r \in SUBSET reverseTunnels[c] :
            /\ forwardTunnels' = [forwardTunnels EXCEPT ![c] = f]
            /\ listening' = [listening EXCEPT ![c] = f]
            /\ reverseTunnels' = [reverseTunnels EXCEPT ![c] = r]
      BY <2>1 DEF OpenTunnels, Listen
    <3>2. f \in SUBSET Tunnel /\ r \in SUBSET Tunnel
      OBVIOUS
    <3> QED
      BY <3>1, <3>2
  <2>2. CASE UNCHANGED tunnelVars
    BY <2>2 DEF tunnelVars
  <2> QED
    BY <2>1, <2>2 DEF OpenTerminalChannel, OpenTunnelChannels
<1> QED
  BY <1>1, <1>2, <1>3, <1>4 DEF OpenTerminalChannel, OpenTunnelChannels,
    resources, tunnelVars, connectionVars, Event

LEMMA CloseAllType ==
  ASSUME ConnTypeOK, NEW c \in Conn, queue[c] # <<>>, CloseAll(c)
  PROVE  /\ queue' \in [Conn -> Seq(Task)]
         /\ readSource' \in [Conn -> {"null", "suspended"} \cup Armed]
         /\ channel' \in [Conn -> {"null", "open", "stale"}]
         /\ isClosing' \in [Conn -> BOOLEAN]
         /\ forwardTunnels' \in [Conn -> SUBSET Tunnel]
         /\ listening' \in [Conn -> SUBSET Tunnel]
         /\ reverseTunnels' \in [Conn -> SUBSET Tunnel]
<1> USE DEF ConnTypeOK
<1>1. \E tasks \in Seq(Task) : Finish(c, tasks)
  BY TaskLists DEF CloseAll, CloseAgain, FirstClose, Task
<1>2. queue' \in [Conn -> Seq(Task)]
  BY <1>1, FinishType
<1> QED
  BY <1>2 DEF CloseAll, CloseAgain, FirstClose, ReleaseChannels, EndTunnels,
    tunnelVars

LEMMA ClosingType ==
  ASSUME ConnTypeOK, NEW c \in Conn,
         CloseAllChannels(c) \/ Purge(c) \/ Disconnect(c)
  PROVE  ConnTypeOK'
<1> USE DEF ConnTypeOK
<1>0. queue[c] # <<>>
  BY DEF CloseAllChannels, Purge, Disconnect, Running
<1>1. CASE CloseAllChannels(c)
  BY <1>0, <1>1, CloseAllType
    DEF CloseAllChannels, resources, connectionVars, history
<1>2. CASE Purge(c)
  <2>1. queue' \in [Conn -> Seq(Task)]
    BY <1>0, <1>2, FinishType, TaskLists DEF Purge
  <2> QED
    BY <1>2, <2>1 DEF Purge, resources, tunnelVars
<1>3. CASE Disconnect(c)
  <2>1. queue' \in [Conn -> Seq(Task)]
    BY <1>0, <1>3, FinishType, TaskLists DEF Disconnect
  <2>2. mainQueue' \in Seq(Event)
    BY <1>3, NotifyType, CodeLists DEF Disconnect, Event, Code
  <2> QED
    BY <1>3, <2>1, <2>2 DEF Disconnect, CloseSocket, tunnelVars,
      connectionVars, Event
<1> QED
  BY <1>1, <1>2, <1>3

LEMMA PumpType ==
  ASSUME ConnTypeOK, NEW c \in Conn, NEW opened \in SUBSET TunnelConn,
         Pump(c, opened)
  PROVE  /\ tunnelConnections' \in [Conn -> SUBSET TunnelConn]
         /\ alive' \in [Conn -> SUBSET TunnelConn]
<1>1. PICK still \in SUBSET alive[c] :
        /\ alive' = [alive EXCEPT ![c] = still \cup opened]
        /\ tunnelConnections' = [tunnelConnections EXCEPT ![c] = still \cup opened]
  BY DEF Pump, StillAlive
<1>2. still \cup opened \in SUBSET TunnelConn
  BY DEF ConnTypeOK
<1> QED
  BY <1>1, <1>2 DEF ConnTypeOK

LEMMA ServeType ==
  ASSUME ConnTypeOK, NEW c \in Conn, NEW accepts \in BOOLEAN, Serve(c, accepts)
  PROVE  /\ tunnelConnections' \in [Conn -> SUBSET TunnelConn]
         /\ alive' \in [Conn -> SUBSET TunnelConn]
         /\ mainQueue' \in Seq(Event)
<1>1. PICK opened \in SUBSET TunnelConn : Pump(c, opened)
  BY DEF Serve
<1>2. UNCHANGED mainQueue \/ eventNotify(c, <<"ERROR">>)
  BY DEF Serve
<1>3. mainQueue' \in Seq(Event)
  BY <1>2, NotifyType, CodeLists DEF ConnTypeOK, Event, Code
<1> QED
  BY <1>1, <1>3, PumpType

LEMMA DroppedType ==
  ASSUME ConnTypeOK, NEW c \in Conn, NEW task, NEW isCancelled,
         Dropped(c, task, isCancelled)
  PROVE  ConnTypeOK'
<1>1. queue' \in [Conn -> Seq(Task)]
  BY FinishType, TaskLists DEF Dropped, Running, ConnTypeOK
<1> QED
  BY <1>1 DEF Dropped, ConnTypeOK, resources, tunnelVars, connectionVars,
    history, Event

LEMMA TerminalDataType ==
  ASSUME ConnTypeOK, NEW c \in Conn, NewTerminalDataAvailable(c)
  PROVE  ConnTypeOK'
<1> USE DEF ConnTypeOK
<1>1. CASE Dropped(c, "terminalSource", readSource[c] # "terminal")
  BY <1>1, DroppedType
<1>2. ASSUME queue[c] # <<>>, UNCHANGED <<resources, history>>, TerminalLost(c)
      PROVE  ConnTypeOK'
  BY <1>2, CloseAllType DEF TerminalLost, connectionVars, resources, history
<1>3. ASSUME queue[c] # <<>>, UNCHANGED <<resources, history>>, TerminalServed(c)
      PROVE  ConnTypeOK'
  <2>1. queue' \in [Conn -> Seq(Task)]
    BY <1>3, FinishType, TaskLists DEF TerminalServed, Task
  <2>2. /\ tunnelConnections' \in [Conn -> SUBSET TunnelConn]
        /\ alive' \in [Conn -> SUBSET TunnelConn]
        /\ mainQueue' \in Seq(Event)
    BY <1>3, ServeType DEF TerminalServed, connectionVars, Event
  <2> QED
    BY <1>3, <2>1, <2>2 DEF TerminalServed, resources, history, tunnelVars, Event
<1>4. ASSUME queue[c] # <<>>, UNCHANGED <<resources, history>>, TerminalFailed(c)
      PROVE  ConnTypeOK'
  <2>1. queue' \in [Conn -> Seq(Task)]
    BY <1>4, FinishType, TaskLists DEF TerminalFailed, Task
  <2>2. mainQueue' \in Seq(Event)
    <3>1. PICK codes \in Seq(Code) : eventNotify(c, codes)
      BY <1>4, CodeLists DEF TerminalFailed, Code
    <3> QED
      BY <3>1, NotifyType DEF Event
  <2>3. /\ tunnelConnections' \in [Conn -> SUBSET TunnelConn]
        /\ alive' \in [Conn -> SUBSET TunnelConn]
    <3>1. UNCHANGED connectionVars \/ \E opened \in SUBSET TunnelConn : Pump(c, opened)
      BY <1>4 DEF TerminalFailed
    <3> QED
      BY <3>1, PumpType DEF connectionVars
  <2> QED
    BY <1>4, <2>1, <2>2, <2>3 DEF TerminalFailed, resources, history,
      tunnelVars, Event
<1> QED
  BY <1>1, <1>2, <1>3, <1>4 DEF NewTerminalDataAvailable, Running

LEMMA TunnelDataType ==
  ASSUME ConnTypeOK, NEW c \in Conn,
         NewSshDataAvailable(c) \/ NewTunnelConnection(c)
           \/ NewLocalDataAvailable(c)
  PROVE  ConnTypeOK'
<1> USE DEF ConnTypeOK
<1>1. CASE \E task, isCancelled : Dropped(c, task, isCancelled)
  BY <1>1, DroppedType
<1>2. ASSUME queue[c] # <<>>, NEW accepts \in BOOLEAN, Serve(c, accepts),
             Finish(c, <<>>) \/ Finish(c, <<"newSshDataAvailable">>),
             UNCHANGED <<resources, readSource, channel, isClosing, tunnelVars,
                         history>>
      PROVE  ConnTypeOK'
  <2>1. queue' \in [Conn -> Seq(Task)]
    BY <1>2, FinishType, TaskLists DEF Task
  <2> QED
    BY <1>2, <2>1, ServeType DEF resources, history, tunnelVars, Event
<1>3. CASE NewTunnelConnection(c) /\ Running(c, "listenSource") /\ listening[c] # {}
  <2>1. queue' \in [Conn -> Seq(Task)]
    BY <1>3, FinishType, TaskLists DEF NewTunnelConnection, Dropped, Running
  <2>2. mainQueue' \in Seq(Event)
    BY <1>3, NotifyType, CodeLists DEF NewTunnelConnection, Dropped, Event, Code
  <2>3. /\ tunnelConnections' \in [Conn -> SUBSET TunnelConn]
        /\ alive' \in [Conn -> SUBSET TunnelConn]
    <3>1. CASE UNCHANGED connectionVars
      BY <3>1 DEF connectionVars
    <3>2. CASE \E t \in TunnelConn :
                 /\ tunnelConnections' = [tunnelConnections EXCEPT ![c] = @ \cup {t}]
                 /\ alive' = [alive EXCEPT ![c] = @ \cup {t}]
      <4>1. PICK t \in TunnelConn :
              /\ tunnelConnections' = [tunnelConnections EXCEPT ![c] = @ \cup {t}]
              /\ alive' = [alive EXCEPT ![c] = @ \cup {t}]
        BY <3>2
      <4>2. /\ tunnelConnections[c] \cup {t} \in SUBSET TunnelConn
            /\ alive[c] \cup {t} \in SUBSET TunnelConn
        OBVIOUS
      <4> QED
        BY <4>1, <4>2
    <3> QED
      BY <1>3, <3>1, <3>2 DEF NewTunnelConnection, OpenConnection, Dropped
  <2> QED
    BY <1>3, <2>1, <2>2, <2>3 DEF NewTunnelConnection, Dropped, resources,
      history, tunnelVars, Event
<1>4. CASE NewLocalDataAvailable(c) /\ Running(c, "localSource") /\ alive[c] # {}
  <2>1. queue' \in [Conn -> Seq(Task)]
    BY <1>4, FinishType, TaskLists DEF NewLocalDataAvailable, Dropped, Running
  <2>2. alive' \in [Conn -> SUBSET TunnelConn]
    <3>1. CASE \E t \in alive[c] : alive' = [alive EXCEPT ![c] = @ \ {t}]
      <4>1. PICK t : alive' = [alive EXCEPT ![c] = @ \ {t}]
        BY <3>1
      <4>2. alive[c] \ {t} \in SUBSET TunnelConn
        OBVIOUS
      <4> QED
        BY <4>1, <4>2
    <3> QED
      BY <1>4, <3>1 DEF NewLocalDataAvailable, Dropped
  <2> QED
    BY <1>4, <2>1, <2>2 DEF NewLocalDataAvailable, Dropped, resources, history,
      tunnelVars, Event
<1> QED
  BY <1>1, <1>2, <1>3, <1>4 DEF NewSshDataAvailable, NewTunnelConnection,
    NewLocalDataAvailable, Running

LEMMA ConnectionType ==
  ASSUME ConnTypeOK, NEW c \in Conn, Work(c) \/ SourceFires(c)
  PROVE  ConnTypeOK'
<1>1. CASE Work(c)
  BY <1>1, LoginType, OpenType, ClosingType, TerminalDataType, TunnelDataType
    DEF Work
<1>2. CASE SourceFires(c)
  <2>1. PICK task \in SourceTask : Dispatch(c, task)
    BY <1>2 DEF SourceFires
  <2>2. queue' \in [Conn -> Seq(Task)]
    BY <2>1, DispatchType DEF SourceTask, Task, ConnTypeOK
  <2> QED
    BY <1>2, <2>2 DEF SourceFires, ConnTypeOK, resources, tunnelVars,
      connectionVars, history
<1> QED
  BY <1>1, <1>2

----------------------------------------------------------------------------
(* What the queue operations do to the positions of a queue.               *)

LEMMA FinishAt ==
  ASSUME queue \in [Conn -> Seq(Task)], NEW c \in Conn, queue[c] # <<>>,
         NEW tasks \in Seq(Task), Finish(c, tasks)
  PROVE  /\ Len(queue[c]) \in Nat \ {0} /\ Len(tasks) \in Nat
         /\ Len(queue'[c]) = Len(queue[c]) - 1 + Len(tasks)
         /\ \A i \in 1..(Len(queue[c]) - 1) : queue'[c][i] = queue[c][i + 1]
         /\ \A i \in Len(queue[c])..Len(queue'[c]) :
              queue'[c][i] = tasks[i - (Len(queue[c]) - 1)]
<1>1. queue[c] \in Seq(Task)
  OBVIOUS
<1>2. Tail(queue[c]) \in Seq(Task)
  BY <1>1
<1>3. queue'[c] = Tail(queue[c]) \o tasks
  BY DEF Finish
<1>4. Len(Tail(queue[c])) = Len(queue[c]) - 1 /\ Len(queue[c]) \in Nat \ {0}
  BY <1>1
<1>5. \A i \in 1..(Len(queue[c]) - 1) : Tail(queue[c])[i] = queue[c][i + 1]
  BY <1>1
<1> QED
  BY <1>2, <1>3, <1>4, <1>5

LEMMA DispatchAt ==
  ASSUME queue \in [Conn -> Seq(Task)], NEW c \in Conn, NEW task \in Task,
         Dispatch(c, task)
  PROVE  /\ Len(queue[c]) \in Nat
         /\ Len(queue'[c]) = Len(queue[c]) + 1
         /\ \A i \in 1..Len(queue[c]) : queue'[c][i] = queue[c][i]
         /\ queue'[c][Len(queue[c]) + 1] = task
<1>1. queue[c] \in Seq(Task)
  OBVIOUS
<1>2. queue'[c] = Append(queue[c], task)
  BY DEF Dispatch
<1> QED
  BY <1>1, <1>2

----------------------------------------------------------------------------
(* What a connection does leaves the others alone.                         *)

Undisturbed(c) ==
  /\ queue'[c] = queue[c]
  /\ session'[c] = session[c] /\ socketFd'[c] = socketFd[c]
  /\ readSource'[c] = readSource[c] /\ channel'[c] = channel[c]
  /\ isClosing'[c] = isClosing[c]
  /\ forwardTunnels'[c] = forwardTunnels[c]
  /\ listening'[c] = listening[c]
  /\ reverseTunnels'[c] = reverseTunnels[c]
  /\ tunnelConnections'[c] = tunnelConnections[c] /\ alive'[c] = alive[c]
  /\ purged'[c] = purged[c] /\ reported'[c] = reported[c]

LEMMA OtherLogin ==
  ASSUME ConnTypeOK, NEW c \in Conn, NEW d \in Conn \ {c},
         \/ Connect(d) \/ AuthenticateServer(d) \/ AuthenticateUser(d)
         \/ OpenTerminalChannel(d)
  PROVE  Undisturbed(c)
<1> QED
  BY DEF ConnTypeOK, Connect, ConnectRefused, HandshakeFailed,
    ConnectAccepted, AuthenticateServer, AuthenticateUser, KeyUnusable,
    UserRefused, UserAccepted, OpenTerminalChannel,
    OpenTerminalOutOfMemory, OpenTerminalRefused, OpenTerminalAccepted,
    Undisturbed, Finish, resources, history, tunnelVars,
    connectionVars

LEMMA OtherOpenTunnels ==
  ASSUME ConnTypeOK, NEW c \in Conn, NEW d \in Conn \ {c},
         OpenTunnelChannels(d)
  PROVE  Undisturbed(c)
<1>1. /\ forwardTunnels'[c] = forwardTunnels[c]
      /\ listening'[c] = listening[c]
      /\ reverseTunnels'[c] = reverseTunnels[c]
  BY DEF OpenTunnelChannels, OpenTunnels, Listen, ConnTypeOK, tunnelVars
<1> QED
  BY <1>1 DEF ConnTypeOK, OpenTunnelChannels, Undisturbed, Finish,
    resources, history, connectionVars

LEMMA OtherClosing ==
  ASSUME ConnTypeOK, NEW c \in Conn, NEW d \in Conn \ {c},
         CloseAllChannels(d) \/ Purge(d) \/ Disconnect(d)
  PROVE  Undisturbed(c)
<1> QED
  BY DEF ConnTypeOK, CloseAllChannels, CloseAll, CloseAgain, FirstClose,
    ReleaseChannels, EndTunnels, Purge, Disconnect, CloseSocket,
    Undisturbed, Finish, resources, history, tunnelVars,
    connectionVars

LEMMA OtherServe ==
  ASSUME ConnTypeOK, NEW c \in Conn, NEW d \in Conn \ {c},
         NEW accepts \in BOOLEAN, Serve(d, accepts)
  PROVE  tunnelConnections'[c] = tunnelConnections[c] /\ alive'[c] = alive[c]
<1>1. PICK opened \in SUBSET TunnelConn : Pump(d, opened)
  BY DEF Serve
<1> QED
  BY <1>1 DEF Pump, StillAlive, ConnTypeOK

LEMMA OtherData ==
  ASSUME ConnTypeOK, NEW c \in Conn, NEW d \in Conn \ {c},
         \/ NewTerminalDataAvailable(d) \/ NewSshDataAvailable(d)
         \/ NewTunnelConnection(d) \/ NewLocalDataAvailable(d)
  PROVE  Undisturbed(c)
<1> USE DEF ConnTypeOK, Undisturbed, Finish, resources,
      history, tunnelVars, connectionVars
<1>1. CASE NewTerminalDataAvailable(d)
  <2>1. CASE Dropped(d, "terminalSource", readSource[d] # "terminal")
    BY <2>1 DEF Dropped
  <2>2. CASE TerminalLost(d) /\ UNCHANGED <<resources, history>>
    BY <2>2 DEF TerminalLost, CloseAll, CloseAgain, FirstClose,
      ReleaseChannels, EndTunnels
  <2>3. CASE TerminalServed(d) /\ UNCHANGED <<resources, history>>
    <3>1. tunnelConnections'[c] = tunnelConnections[c] /\ alive'[c] = alive[c]
      BY <2>3, OtherServe DEF TerminalServed
    <3> QED
      BY <2>3, <3>1 DEF TerminalServed
  <2>4. CASE TerminalFailed(d) /\ UNCHANGED <<resources, history>>
    <3>1. tunnelConnections'[c] = tunnelConnections[c] /\ alive'[c] = alive[c]
      BY <2>4 DEF TerminalFailed, Pump, StillAlive
    <3> QED
      BY <2>4, <3>1 DEF TerminalFailed
  <2> QED
    BY <1>1, <2>1, <2>2, <2>3, <2>4 DEF NewTerminalDataAvailable
<1>2. CASE NewSshDataAvailable(d)
  <2>1. CASE Dropped(d, "tunnelSource", readSource[d] # "tunnel")
    BY <2>1 DEF Dropped
  <2>2. CASE Serve(d, reverseTunnels[d] # {} /\ session[d] = "connected")
    <3>1. tunnelConnections'[c] = tunnelConnections[c] /\ alive'[c] = alive[c]
      BY <2>2, OtherServe
    <3> QED
      BY <1>2, <3>1 DEF NewSshDataAvailable, Dropped
  <2> QED
    BY <1>2, <2>1, <2>2 DEF NewSshDataAvailable
<1>3. CASE NewTunnelConnection(d)
  BY <1>3 DEF NewTunnelConnection, OpenConnection, Dropped
<1>4. CASE NewLocalDataAvailable(d)
  BY <1>4 DEF NewLocalDataAvailable, Dropped
<1> QED
  BY <1>1, <1>2, <1>3, <1>4

LEMMA OtherSource ==
  ASSUME ConnTypeOK, NEW c \in Conn, NEW d \in Conn \ {c},
         SourceFires(d)
  PROVE  Undisturbed(c)
<1> QED
  BY DEF SourceFires, Dispatch, ConnTypeOK, Undisturbed,
    resources, history, tunnelVars, connectionVars

LEMMA OthersUndisturbed ==
  ASSUME ConnTypeOK, NEW c \in Conn, NEW d \in Conn \ {c},
         Work(d) \/ SourceFires(d)
  PROVE  Undisturbed(c)
<1> QED
  BY OtherLogin, OtherOpenTunnels, OtherClosing, OtherData, OtherSource DEF Work

=============================================================================
