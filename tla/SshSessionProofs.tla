-------------------------- MODULE SshSessionProofs --------------------------
(***************************************************************************)
(* Proofs about SshSession, for any set of connections and tunnels and any *)
(* bounds: its safety and its refinement, then the order of a login (what  *)
(* may be queued, asked or opened while it lasts) and what a disconnect    *)
(* finds.                                                                  *)
(***************************************************************************)
EXTENDS SshSession, SshConnectionProofs

----------------------------------------------------------------------------
(* Typing.                                                                 *)

LEMMA ClientCallType ==
  ASSUME TypeOK, NEW c \in Conn, Start(c) \/ Resume(c) \/ End(c)
  PROVE  TypeOK'
<1> USE DEF TypeOK, ConnTypeOK
<1>1. queue' \in [Conn -> Seq(Task)]
  BY DispatchType DEF Start, Resume, End, startConnection, resume,
    endConnection, Task
<1>2. /\ client' \in [Conn -> {"idle", "started", "asked", "told", "ended"}]
      /\ ends' \in [Conn -> 0..MaxEnds]
  <2>1. CASE UNCHANGED ends
    BY <2>1 DEF Start, Resume, End
  <2>2. CASE End(c)
    <3>1. ends[c] \in 0..MaxEnds /\ ends[c] < MaxEnds
      BY <2>2 DEF End
    <3>2. ends[c] + 1 \in 0..MaxEnds
      BY <3>1, SessionAssumption
    <3> QED
      BY <2>2, <3>2 DEF End
  <2> QED
    BY <2>1, <2>2 DEF Start, Resume
<1> QED
  BY <1>1, <1>2 DEF Start, Resume, End, idleConnection, resources, tunnelVars,
    connectionVars, history

LEMMA DeliverType ==
  ASSUME TypeOK, Deliver
  PROVE  TypeOK'
<1> USE DEF TypeOK, ConnTypeOK
<1>1. Tail(mainQueue) \in Seq(Event) /\ Head(mainQueue) \in Event
  <2>1. mainQueue \in Seq(Event) /\ mainQueue # <<>>
    BY DEF Deliver, Event
  <2>2. ASSUME NEW S, NEW s \in Seq(S), s # <<>>
        PROVE  Tail(s) \in Seq(S) /\ Head(s) \in S
    BY <2>2
  <2> QED
    BY <2>1, <2>2
<1>2. client' \in [Conn -> {"idle", "started", "asked", "told", "ended"}]
  BY <1>1 DEF Deliver, Told, Event
<1> QED
  BY <1>1, <1>2 DEF Deliver, Event, idleConnection, resources, tunnelVars,
    connectionVars, history

(* The initial state is of the declared types, and every step keeps them.  *)
LEMMA TypeInit == Init => TypeOK
<1> QED
  BY ConnAssumption, SessionAssumption DEF Init, ConnInit, TypeOK, ConnTypeOK

LEMMA TypeStep ==
  ASSUME TypeOK, [Next]_vars
  PROVE  TypeOK'
<1>1. ASSUME NEW c \in Conn, Start(c) \/ Resume(c) \/ End(c)
      PROVE  TypeOK'
  BY <1>1, ClientCallType
<1>2. ASSUME NEW c \in Conn, Work(c) \/ SourceFires(c), UNCHANGED clientVars
      PROVE  TypeOK'
  BY <1>2, ConnectionType DEF TypeOK, clientVars
<1>3. CASE Deliver
  BY <1>3, DeliverType
<1>4. CASE UNCHANGED vars
  BY <1>4 DEF vars, connVars, clientVars, TypeOK, ConnTypeOK
<1> QED
  BY <1>1, <1>2, <1>3, <1>4 DEF Next

(* Every reachable state is of the declared types: whatever is interleaved *)
(* no queue ever holds a task, and no event a sender or a code, that the   *)
(* program has not got.                                                    *)
THEOREM TypeCorrect == Spec => []TypeOK
<1> QED
  BY TypeInit, TypeStep, PTL DEF Spec

----------------------------------------------------------------------------
(* The inductive invariant.  What makes the safety properties hold is the  *)
(* place of three tasks: connect is only ever the first task of a queue, a *)
(* purge is followed by a disconnect at once, and no purge comes twice.    *)

ConnectFirst(c) ==
  \A i \in 1..Len(queue[c]) : queue[c][i] = "connect" =>
    i = 1 /\ ~reported[c] /\ ~socketFd[c] /\ session[c] = "new"

(* Nothing happens to a connection before its client starts it. *)
Pristine(c) ==
  client[c] = "idle" =>
    /\ queue[c] = <<>> /\ ~reported[c] /\ ~socketFd[c] /\ session[c] = "new"
    /\ readSource[c] = "null" /\ listening[c] = {} /\ alive[c] = {}

NoListener(c) ==
  isClosing[c] =>
    listening[c] = {} /\ forwardTunnels[c] = {} /\ reverseTunnels[c] = {}

Released(c) == reported[c] => ~socketFd[c] /\ session[c] # "connected"

(* A connection that is purged is about to disconnect, or has done so. *)
PurgedForGood(c) ==
  purged[c] =>
    /\ isClosing[c] /\ tunnelConnections[c] = {} /\ alive[c] = {}
    /\ reported[c] \/ (queue[c] # <<>> /\ queue[c][1] = "disconnect")

ConnInv(c) ==
  /\ ConnectFirst(c) /\ Pristine(c) /\ NoListener(c) /\ Released(c)
  /\ PurgeOnce(c) /\ PurgedForGood(c)

SessionInv == TypeOK /\ \A c \in Conn : ConnInv(c)

----------------------------------------------------------------------------
(* What the queue operations do to the invariant.                          *)

(* A task that dispatches neither connect nor purge leaves a queue without *)
(* a connect, and moves the purge and its disconnect forward together.     *)
LEMMA PlainFinish ==
  ASSUME queue \in [Conn -> Seq(Task)], NEW c \in Conn, queue[c] # <<>>,
         NEW tasks \in Seq(Task), Finish(c, tasks),
         \A i \in 1..Len(tasks) : tasks[i] \notin {"connect", "purge"},
         queue[c][1] # "purge",
         isClosing'[c] = isClosing[c], purged'[c] = purged[c],
         ConnectFirst(c), PurgeOnce(c)
  PROVE  ConnectFirst(c)' /\ PurgeOnce(c)'
<1>1. ASSUME NEW i \in 1..Len(queue'[c]),
             queue'[c][i] \in {"connect", "purge"}
      PROVE  i + 1 \in 1..Len(queue[c]) /\ queue'[c][i] = queue[c][i + 1]
  <2>1. CASE i < Len(queue[c])
    BY <2>1, FinishAt
  <2>2. CASE i >= Len(queue[c])
    BY <1>1, <2>2, FinishAt
  <2> QED
    BY <2>1, <2>2, FinishAt
<1>2. ConnectFirst(c)'
  <2>1. ASSUME NEW i \in 1..Len(queue'[c]), queue'[c][i] = "connect"
        PROVE  FALSE
    BY <1>1, <2>1 DEF ConnectFirst
  <2> QED
    BY <2>1 DEF ConnectFirst
<1>3. PurgeOnce(c)'
  <2>1. SUFFICES ASSUME NEW i \in 1..Len(queue'[c]), queue'[c][i] = "purge"
                 PROVE  /\ isClosing'[c] /\ ~purged'[c]
                        /\ i < Len(queue'[c])
                        /\ queue'[c][i + 1] = "disconnect"
                        /\ \A j \in 1..Len(queue'[c]) :
                             queue'[c][j] = "purge" => i = j
    BY DEF PurgeOnce, PurgeAt
  <2>2. i + 1 \in 1..Len(queue[c]) /\ queue[c][i + 1] = "purge"
    BY <1>1, <2>1
  <2>3. /\ isClosing[c] /\ ~purged[c]
        /\ i + 1 < Len(queue[c]) /\ queue[c][i + 2] = "disconnect"
        /\ \A j \in 1..Len(queue[c]) : queue[c][j] = "purge" => i + 1 = j
    BY <2>2 DEF PurgeOnce, PurgeAt
  <2>4. i < Len(queue'[c]) /\ queue'[c][i + 1] = "disconnect"
    BY <2>3, FinishAt
  <2>5. ASSUME NEW j \in 1..Len(queue'[c]), queue'[c][j] = "purge"
        PROVE  i = j
    <3>1. j + 1 \in 1..Len(queue[c]) /\ queue[c][j + 1] = "purge"
      BY <1>1, <2>5
    <3>2. i + 1 = j + 1
      BY <2>3, <3>1
    <3> QED
      BY <3>2
  <2> QED
    BY <2>3, <2>4, <2>5
<1> QED
  BY <1>2, <1>3

(* The first close: there was no purge, now there is one. *)
LEMMA CloseFinish ==
  ASSUME queue \in [Conn -> Seq(Task)], NEW c \in Conn, queue[c] # <<>>,
         Finish(c, <<"purge", "disconnect">>),
         ~isClosing[c], isClosing'[c], ~purged'[c],
         ConnectFirst(c), PurgeOnce(c)
  PROVE  ConnectFirst(c)' /\ PurgeOnce(c)'
<1> DEFINE n == Len(queue[c])
<1>1. <<"purge", "disconnect">> \in Seq(Task)
  BY TaskLists DEF Task
<1>2. /\ n \in Nat \ {0} /\ Len(queue'[c]) = n + 1
      /\ \A i \in 1..(n - 1) : queue'[c][i] = queue[c][i + 1]
      /\ queue'[c][n] = "purge" /\ queue'[c][n + 1] = "disconnect"
  <2>1. \A i \in n..Len(queue'[c]) :
          queue'[c][i] = <<"purge", "disconnect">>[i - (n - 1)]
    BY <1>1, FinishAt
  <2>2. n \in Nat \ {0} /\ Len(queue'[c]) = n + 1
    <3>1. Len(<<"purge", "disconnect">>) = 2
      OBVIOUS
    <3>2. n \in Nat \ {0} /\ Len(queue'[c]) = n - 1 + Len(<<"purge", "disconnect">>)
      BY <1>1, FinishAt
    <3> QED
      BY <3>1, <3>2
  <2>3. n - (n - 1) = 1 /\ (n + 1) - (n - 1) = 2
    BY <2>2
  <2>4. n \in n..Len(queue'[c]) /\ n + 1 \in n..Len(queue'[c])
    BY <2>2
  <2>5. queue'[c][n] = "purge" /\ queue'[c][n + 1] = "disconnect"
    BY <2>1, <2>3, <2>4
  <2> QED
    BY <1>1, <2>2, <2>5, FinishAt
<1> HIDE DEF n
<1>3. \A i \in 1..n : queue[c][i] # "purge"
  BY DEF PurgeOnce, PurgeAt, n
<1>4. \A i \in 1..(n - 1) : queue[c][i + 1] # "connect"
  BY <1>2 DEF ConnectFirst, n
<1>5. ConnectFirst(c)'
  <2>1. ASSUME NEW i \in 1..(n + 1), queue'[c][i] = "connect"
        PROVE  FALSE
    <3>1. CASE i \in 1..(n - 1)
      BY <1>2, <1>4, <2>1, <3>1
    <3>2. CASE i = n \/ i = n + 1
      BY <1>2, <2>1, <3>2
    <3> QED
      BY <1>2, <3>1, <3>2
  <2> QED
    BY <1>2, <2>1 DEF ConnectFirst
<1>6. ASSUME NEW i \in 1..(n + 1), queue'[c][i] = "purge"
      PROVE  i = n
  <2>1. CASE i \in 1..(n - 1)
    BY <1>2, <1>3, <1>6, <2>1
  <2>2. CASE i = n + 1
    BY <1>2, <1>6, <2>2
  <2> QED
    BY <1>2, <2>1, <2>2
<1>7. PurgeOnce(c)'
  BY <1>2, <1>6 DEF PurgeOnce, PurgeAt
<1> QED
  BY <1>5, <1>7

(* The purge itself: the next task is its disconnect. *)
LEMMA PurgeFinish ==
  ASSUME queue \in [Conn -> Seq(Task)], NEW c \in Conn, queue[c] # <<>>,
         queue[c][1] = "purge", Finish(c, <<>>),
         ConnectFirst(c), PurgeOnce(c)
  PROVE  /\ ConnectFirst(c)' /\ PurgeOnce(c)'
         /\ isClosing[c] /\ queue'[c] # <<>> /\ queue'[c][1] = "disconnect"
<1>1. /\ Len(queue[c]) \in Nat \ {0}
      /\ Len(queue'[c]) = Len(queue[c]) - 1
      /\ \A i \in 1..Len(queue'[c]) : queue'[c][i] = queue[c][i + 1]
  <2>1. /\ Len(queue[c]) \in Nat \ {0}
        /\ Len(queue'[c]) = Len(queue[c]) - 1 + Len(<<>>)
        /\ \A i \in 1..(Len(queue[c]) - 1) : queue'[c][i] = queue[c][i + 1]
    BY FinishAt, TaskLists
  <2>2. Len(<<>>) = 0
    OBVIOUS
  <2> QED
    BY <2>1, <2>2
<1>2. /\ isClosing[c]
      /\ 1 < Len(queue[c]) /\ queue[c][2] = "disconnect"
      /\ \A j \in 1..Len(queue[c]) : queue[c][j] = "purge" => 1 = j
  BY <1>1 DEF PurgeOnce, PurgeAt
<1>3. \A i \in 1..Len(queue'[c]) : queue'[c][i] \notin {"connect", "purge"}
  <2> SUFFICES ASSUME NEW i \in 1..Len(queue'[c])
               PROVE  queue'[c][i] \notin {"connect", "purge"}
    OBVIOUS
  <2>1. i + 1 \in 1..Len(queue[c]) /\ i + 1 # 1
    BY <1>1
  <2> QED
    BY <1>1, <1>2, <2>1 DEF ConnectFirst
<1>4. Len(queue'[c]) >= 1 /\ queue'[c][1] = "disconnect"
  BY <1>1, <1>2
<1> QED
  BY <1>1, <1>2, <1>3, <1>4 DEF ConnectFirst, PurgeOnce, PurgeAt

LEMMA PlainDispatch ==
  ASSUME queue \in [Conn -> Seq(Task)], NEW c \in Conn,
         NEW task \in Task \ {"connect", "purge"}, Dispatch(c, task),
         UNCHANGED <<resources, isClosing, history>>,
         ConnectFirst(c), PurgeOnce(c), PurgedForGood(c)
  PROVE  /\ ConnectFirst(c)' /\ PurgeOnce(c)'
         /\ queue[c] # <<>> => queue'[c] # <<>> /\ queue'[c][1] = queue[c][1]
<1> DEFINE n == Len(queue[c])
<1>1. /\ n \in Nat /\ Len(queue'[c]) = n + 1
      /\ \A i \in 1..n : queue'[c][i] = queue[c][i]
      /\ queue'[c][n + 1] = task
  BY DispatchAt
<1> HIDE DEF n
<1>2. ASSUME NEW i \in 1..(n + 1), queue'[c][i] \in {"connect", "purge"}
      PROVE  i \in 1..n /\ queue'[c][i] = queue[c][i]
  <2>1. i # n + 1
    BY <1>1, <1>2
  <2> QED
    BY <1>1, <2>1
<1>3. ConnectFirst(c)'
  BY <1>1, <1>2 DEF ConnectFirst, n, resources, history
<1>4. PurgeOnce(c)'
  <2>1. SUFFICES ASSUME NEW i \in 1..(n + 1), queue'[c][i] = "purge"
                 PROVE  /\ isClosing'[c] /\ ~purged'[c]
                        /\ i < n + 1
                        /\ queue'[c][i + 1] = "disconnect"
                        /\ \A j \in 1..(n + 1) : queue'[c][j] = "purge" => i = j
    BY <1>1 DEF PurgeOnce, PurgeAt
  <2>2. i \in 1..n /\ queue[c][i] = "purge"
    BY <1>2, <2>1
  <2>3. /\ isClosing[c] /\ ~purged[c]
        /\ i < n /\ queue[c][i + 1] = "disconnect"
        /\ \A j \in 1..n : queue[c][j] = "purge" => i = j
    BY <2>2 DEF PurgeOnce, PurgeAt, n
  <2>4. queue'[c][i + 1] = "disconnect"
    BY <1>1, <2>2, <2>3
  <2>5. \A j \in 1..(n + 1) : queue'[c][j] = "purge" => i = j
    BY <1>2, <2>3
  <2> QED
    BY <1>1, <2>2, <2>3, <2>4, <2>5 DEF history
<1>5. queue[c] # <<>> => n >= 1
  BY DEF n
<1> QED
  BY <1>1, <1>3, <1>4, <1>5

----------------------------------------------------------------------------
(* The tasks, one after the other, for the connection that runs them.      *)

PlainTasks ==
  {tasks \in Seq(Task) :
     \A i \in 1..Len(tasks) : tasks[i] \notin {"connect", "purge"}}

LEMMA PlainLists ==
  /\ <<>> \in PlainTasks
  /\ \A t \in Task \ {"connect", "purge"} : <<t>> \in PlainTasks
<1>1. Len(<<>>) = 0
  OBVIOUS
<1>2. ASSUME NEW t \in Task \ {"connect", "purge"}
      PROVE  <<t>> \in PlainTasks
  <2>1. Len(<<t>>) = 1 /\ <<t>>[1] = t /\ <<t>> \in Seq(Task)
    OBVIOUS
  <2>2. \A i \in 1..1 : i = 1
    OBVIOUS
  <2> QED
    BY <2>1, <2>2 DEF PlainTasks
<1> QED
  BY <1>1, <1>2, TaskLists DEF PlainTasks

(* The common part: tasks that neither purge nor disconnect, and that give *)
(* a connection that is reported and purged nothing back.                  *)
LEMMA PlainStep ==
  ASSUME TypeOK, NEW c \in Conn, ConnInv(c), queue[c] # <<>>,
         queue[c][1] \notin {"purge", "disconnect"},
         NEW tasks \in PlainTasks, Finish(c, tasks),
         UNCHANGED <<isClosing, purged, reported, client>>,
         Released(c)', NoListener(c)',
         purged[c] /\ reported[c] => tunnelConnections'[c] = {} /\ alive'[c] = {}
  PROVE  ConnInv(c)'
<1>1. ConnectFirst(c)' /\ PurgeOnce(c)'
  BY PlainFinish DEF TypeOK, ConnTypeOK, PlainTasks, ConnInv
<1>2. Pristine(c)'
  BY DEF Pristine, ConnInv
<1>3. PurgedForGood(c)'
  BY DEF PurgedForGood, ConnInv
<1> QED
  BY <1>1, <1>2, <1>3 DEF ConnInv

LEMMA LoginInv ==
  ASSUME TypeOK, NEW c \in Conn, ConnInv(c), UNCHANGED clientVars,
         Connect(c) \/ AuthenticateServer(c) \/ AuthenticateUser(c)
  PROVE  ConnInv(c)'
<1>1. /\ queue[c] # <<>>
      /\ queue[c][1] \in {"connect", "authenticateServer", "authenticateUser"}
      /\ UNCHANGED <<isClosing, purged, reported, client>>
      /\ UNCHANGED <<tunnelVars, connectionVars>>
  BY DEF Connect, AuthenticateServer, AuthenticateUser, KeyUnusable,
    UserRefused, UserAccepted, Running, history,
    clientVars
<1>2. PICK tasks \in PlainTasks : Finish(c, tasks)
  BY PlainLists DEF Connect, ConnectRefused, HandshakeFailed, ConnectAccepted,
    AuthenticateServer, AuthenticateUser, KeyUnusable, UserRefused,
    UserAccepted, Task
<1>3. Released(c)'
  <2>1. CASE Connect(c)
    <3>1. 1 \in 1..Len(queue[c]) /\ queue[c][1] = "connect"
      BY <1>1, <2>1 DEF Connect, Running, TypeOK, ConnTypeOK
    <3>2. ~reported[c]
      BY <3>1 DEF ConnInv, ConnectFirst
    <3> QED
      BY <1>1, <3>2 DEF Released
  <2>2. CASE UNCHANGED resources
    BY <1>1, <2>2 DEF Released, ConnInv, resources
  <2> QED
    BY <2>1, <2>2 DEF AuthenticateServer, AuthenticateUser, KeyUnusable,
      UserRefused, UserAccepted
<1>4. NoListener(c)'
  BY <1>1 DEF NoListener, ConnInv, tunnelVars
<1>5. purged[c] => tunnelConnections'[c] = {} /\ alive'[c] = {}
  BY <1>1 DEF connectionVars, PurgedForGood, ConnInv
<1> QED
  BY <1>1, <1>2, <1>3, <1>4, <1>5, PlainStep

LEMMA OpenInv ==
  ASSUME TypeOK, NEW c \in Conn, ConnInv(c), UNCHANGED clientVars,
         OpenTerminalChannel(c) \/ OpenTunnelChannels(c)
  PROVE  ConnInv(c)'
<1>1. /\ queue[c] # <<>>
      /\ queue[c][1] \in {"openTerminalChannel", "openTunnelChannels"}
      /\ UNCHANGED <<isClosing, purged, reported, client>>
      /\ UNCHANGED <<resources, connectionVars>>
  BY DEF OpenTerminalChannel, OpenTunnelChannels, Running, clientVars
<1>2. PICK tasks \in PlainTasks : Finish(c, tasks)
  BY PlainLists DEF OpenTerminalChannel, OpenTerminalOutOfMemory,
    OpenTerminalRefused, OpenTerminalAccepted, OpenTunnelChannels, Task
<1>3. Released(c)'
  BY <1>1 DEF Released, ConnInv, resources
<1>4. NoListener(c)'
  <2>1. CASE OpenTunnels(c)
    <3>1. PICK f \in SUBSET forwardTunnels[c], r \in SUBSET reverseTunnels[c] :
            /\ forwardTunnels' = [forwardTunnels EXCEPT ![c] = f]
            /\ listening' = [listening EXCEPT ![c] = f]
            /\ reverseTunnels' = [reverseTunnels EXCEPT ![c] = r]
      BY <2>1 DEF OpenTunnels, Listen
    <3>2. /\ forwardTunnels'[c] = f /\ listening'[c] = f
          /\ reverseTunnels'[c] = r
      BY <3>1 DEF TypeOK, ConnTypeOK
    <3> QED
      BY <1>1, <3>2 DEF NoListener, ConnInv
  <2>2. CASE UNCHANGED tunnelVars
    BY <1>1, <2>2 DEF NoListener, ConnInv, tunnelVars
  <2> QED
    BY <2>1, <2>2 DEF OpenTerminalChannel, OpenTunnelChannels
<1>5. purged[c] => tunnelConnections'[c] = {} /\ alive'[c] = {}
  BY <1>1 DEF connectionVars, PurgedForGood, ConnInv
<1> QED
  BY <1>1, <1>2, <1>3, <1>4, <1>5, PlainStep

LEMMA CloseInv ==
  ASSUME TypeOK, NEW c \in Conn, ConnInv(c), UNCHANGED <<client, resources>>,
         queue[c] # <<>>, queue[c][1] \notin {"purge", "disconnect"},
         CloseAll(c), UNCHANGED <<connectionVars, history>>
  PROVE  ConnInv(c)'
<1>1. CASE CloseAgain(c)
  <2>1. <<>> \in PlainTasks
    BY PlainLists
  <2>2. Released(c)' /\ NoListener(c)'
    BY <1>1 DEF CloseAgain, Released, NoListener, ConnInv, resources, history,
      tunnelVars
  <2>3. purged[c] => tunnelConnections'[c] = {} /\ alive'[c] = {}
    BY DEF connectionVars, PurgedForGood, ConnInv
  <2> QED
    BY <1>1, <2>1, <2>2, <2>3, PlainStep DEF CloseAgain, history
<1>2. CASE ~isClosing[c] /\ FirstClose(c, <<"purge", "disconnect">>)
  <2>1. isClosing'[c] /\ ~purged'[c]
    BY <1>2 DEF FirstClose, history, TypeOK, ConnTypeOK, ConnInv, PurgedForGood
  <2>2. ConnectFirst(c)' /\ PurgeOnce(c)'
    BY <1>2, <2>1, CloseFinish DEF FirstClose, TypeOK, ConnTypeOK, ConnInv
  <2>3. Pristine(c)'
    BY DEF Pristine, ConnInv
  <2>4. NoListener(c)'
    BY <1>2 DEF FirstClose, EndTunnels, NoListener, TypeOK, ConnTypeOK
  <2>5. Released(c)'
    BY DEF Released, ConnInv, resources, history
  <2> QED
    BY <2>1, <2>2, <2>3, <2>4, <2>5 DEF ConnInv, PurgedForGood
<1> QED
  BY <1>1, <1>2 DEF CloseAll

LEMMA PurgeInv ==
  ASSUME TypeOK, NEW c \in Conn, ConnInv(c), UNCHANGED clientVars, Purge(c)
  PROVE  ConnInv(c)'
<1>1. queue[c] # <<>> /\ queue[c][1] = "purge" /\ Finish(c, <<>>)
  BY DEF Purge, Running
<1>2. /\ ConnectFirst(c)' /\ PurgeOnce(c)'
      /\ isClosing[c] /\ queue'[c] # <<>> /\ queue'[c][1] = "disconnect"
  <2>1. /\ ConnectFirst(c) /\ PurgeOnce(c)
        /\ queue \in [Conn -> Seq(Task)]
    BY DEF ConnInv, TypeOK, ConnTypeOK
  <2> QED
    BY <1>1, <2>1, PurgeFinish
<1>3. tunnelConnections'[c] = {} /\ alive'[c] = {}
  BY DEF Purge, TypeOK, ConnTypeOK
<1>4. Pristine(c)' /\ NoListener(c)' /\ Released(c)'
  BY <1>1 DEF Purge, Pristine, NoListener, Released, ConnInv, clientVars,
    tunnelVars, resources
<1>5. isClosing'[c]
  BY <1>2 DEF Purge
<1> QED
  BY <1>2, <1>3, <1>4, <1>5 DEF ConnInv, PurgedForGood

LEMMA DisconnectInv ==
  ASSUME TypeOK, NEW c \in Conn, ConnInv(c), UNCHANGED clientVars, Disconnect(c)
  PROVE  ConnInv(c)'
<1>1. queue[c] # <<>> /\ queue[c][1] = "disconnect" /\ Finish(c, <<>>)
  BY DEF Disconnect, Running
<1>2. /\ reported'[c] /\ ~socketFd'[c] /\ session'[c] # "connected"
  BY DEF Disconnect, CloseSocket, TypeOK, ConnTypeOK
<1>3. PurgeOnce(c)' /\ \A i \in 1..Len(queue'[c]) : queue'[c][i] # "connect"
  <2>1. ConnectFirst(c) /\ PurgeOnce(c) /\ queue \in [Conn -> Seq(Task)]
    BY DEF ConnInv, TypeOK, ConnTypeOK
  <2>2. PurgeOnce(c)'
    BY <1>1, <2>1, PlainLists, PlainFinish DEF Disconnect, PlainTasks
  <2>3. ASSUME NEW i \in 1..Len(queue'[c]), queue'[c][i] = "connect"
        PROVE  FALSE
    <3>1. /\ Len(queue[c]) \in Nat \ {0}
          /\ Len(queue'[c]) = Len(queue[c]) - 1 + Len(<<>>)
          /\ \A k \in 1..(Len(queue[c]) - 1) : queue'[c][k] = queue[c][k + 1]
      BY <1>1, <2>1, TaskLists, FinishAt
    <3>2. Len(<<>>) = 0
      OBVIOUS
    <3>3. i + 1 \in 1..Len(queue[c]) /\ i + 1 # 1 /\ queue[c][i + 1] = "connect"
      BY <2>3, <3>1, <3>2
    <3> QED
      BY <2>1, <3>3 DEF ConnectFirst
  <2> QED
    BY <2>2, <2>3
<1>4. Pristine(c)' /\ NoListener(c)'
  BY <1>1 DEF Disconnect, Pristine, NoListener, ConnInv, clientVars, tunnelVars
<1>5. PurgedForGood(c)'
  BY <1>2 DEF Disconnect, PurgedForGood, ConnInv, connectionVars
<1> QED
  BY <1>2, <1>3, <1>4, <1>5 DEF ConnInv, ConnectFirst, Released

LEMMA DroppedInv ==
  ASSUME TypeOK, NEW c \in Conn, ConnInv(c), UNCHANGED clientVars,
         NEW task \in SourceTask, NEW isCancelled, Dropped(c, task, isCancelled)
  PROVE  ConnInv(c)'
<1>1. /\ queue[c] # <<>> /\ queue[c][1] = task /\ Finish(c, <<>>)
      /\ <<>> \in PlainTasks
      /\ UNCHANGED <<isClosing, purged, reported, client>>
  BY PlainLists DEF Dropped, Running, history, clientVars
<1>2. Released(c)' /\ NoListener(c)'
  BY DEF Dropped, Released, NoListener, ConnInv, resources, history, tunnelVars
<1>3. purged[c] => tunnelConnections'[c] = {} /\ alive'[c] = {}
  BY DEF Dropped, connectionVars, PurgedForGood, ConnInv
<1>4. task \notin {"purge", "disconnect"}
  BY DEF SourceTask
<1> QED
  BY <1>1, <1>2, <1>3, <1>4, PlainStep

(* Served with a connected session, which a reported one has not got: the  *)
(* X11 connections that this adds are not behind the purge.                *)
LEMMA TerminalDataInv ==
  ASSUME TypeOK, NEW c \in Conn, ConnInv(c), UNCHANGED clientVars,
         NewTerminalDataAvailable(c)
  PROVE  ConnInv(c)'
<1>1. CASE Dropped(c, "terminalSource", readSource[c] # "terminal")
  BY <1>1, DroppedInv DEF SourceTask
<1>2. ASSUME /\ queue[c] # <<>>
             /\ queue[c][1] \in {"newTerminalDataAvailable", "terminalSource"}
             /\ UNCHANGED <<resources, history>>,
             TerminalLost(c) \/ TerminalServed(c) \/ TerminalFailed(c)
      PROVE  ConnInv(c)'
  <2>1. CASE TerminalLost(c)
    BY <1>2, <2>1, CloseInv DEF TerminalLost, clientVars
  <2>2. CASE TerminalServed(c) \/ TerminalFailed(c)
    <3>1. PICK tasks \in PlainTasks : Finish(c, tasks)
      BY <2>2, PlainLists DEF TerminalServed, TerminalFailed, Task
    <3>2. Released(c)' /\ NoListener(c)' /\ ~reported[c]
      BY <1>2, <2>2 DEF TerminalServed, TerminalFailed, Released, NoListener,
        ConnInv, resources, history, tunnelVars
    <3>3. UNCHANGED <<isClosing, purged, reported, client>>
      BY <1>2, <2>2 DEF TerminalServed, TerminalFailed, history, clientVars
    <3> QED
      BY <1>2, <3>1, <3>2, <3>3, PlainStep
  <2> QED
    BY <1>2, <2>1, <2>2
<1> QED
  BY <1>1, <1>2 DEF NewTerminalDataAvailable, Running

(* A closing connection has no reverse tunnel to accept a channel for. *)
LEMMA TunnelDataInv ==
  ASSUME TypeOK, NEW c \in Conn, ConnInv(c), UNCHANGED clientVars,
         NewSshDataAvailable(c)
  PROVE  ConnInv(c)'
<1>1. CASE Dropped(c, "tunnelSource", readSource[c] # "tunnel")
  BY <1>1, DroppedInv DEF SourceTask
<1>2. ASSUME queue[c] # <<>>,
             queue[c][1] \in {"newSshDataAvailable", "tunnelSource"},
             Serve(c, reverseTunnels[c] # {} /\ session[c] = "connected"),
             Finish(c, <<>>) \/ Finish(c, <<"newSshDataAvailable">>),
             UNCHANGED <<resources, readSource, channel, isClosing, tunnelVars,
                         history>>
      PROVE  ConnInv(c)'
  <2>1. PICK tasks \in PlainTasks : Finish(c, tasks)
    BY <1>2, PlainLists DEF Task
  <2>2. Released(c)' /\ NoListener(c)'
    BY <1>2 DEF Released, NoListener, ConnInv, resources, history, tunnelVars
  <2>3. purged[c] => tunnelConnections'[c] = {} /\ alive'[c] = {}
    <3> SUFFICES ASSUME purged[c]
                 PROVE  tunnelConnections'[c] = {} /\ alive'[c] = {}
      OBVIOUS
    <3>1. reverseTunnels[c] = {} /\ alive[c] = {}
      BY DEF ConnInv, PurgedForGood, NoListener
    <3>2. Pump(c, {})
      BY <1>2, <3>1 DEF Serve
    <3> QED
      BY <3>1, <3>2 DEF Pump, StillAlive, TypeOK, ConnTypeOK
  <2>4. UNCHANGED <<isClosing, purged, reported, client>>
    BY <1>2 DEF history, clientVars
  <2> QED
    BY <1>2, <2>1, <2>2, <2>3, <2>4, PlainStep
<1> QED
  BY <1>1, <1>2 DEF NewSshDataAvailable, Running

LEMMA LocalDataInv ==
  ASSUME TypeOK, NEW c \in Conn, ConnInv(c), UNCHANGED clientVars,
         NewTunnelConnection(c) \/ NewLocalDataAvailable(c)
  PROVE  ConnInv(c)'
<1>1. CASE \/ Dropped(c, "listenSource", listening[c] = {})
           \/ Dropped(c, "localSource", alive[c] = {})
  BY <1>1, DroppedInv DEF SourceTask
<1>2. ASSUME queue[c] # <<>>, queue[c][1] \in {"listenSource", "localSource"},
             Finish(c, <<>>), listening[c] # {} \/ alive[c] # {},
             UNCHANGED <<resources, readSource, channel, isClosing, tunnelVars,
                         history>>
      PROVE  ConnInv(c)'
  <2>1. <<>> \in PlainTasks
    BY PlainLists
  <2>2. Released(c)' /\ NoListener(c)'
    BY <1>2 DEF Released, NoListener, ConnInv, resources, history, tunnelVars
  <2>3. ~purged[c]
    BY <1>2 DEF ConnInv, PurgedForGood, NoListener
  <2>4. UNCHANGED <<isClosing, purged, reported, client>>
    BY <1>2 DEF history, clientVars
  <2> QED
    BY <1>2, <2>1, <2>2, <2>3, <2>4, PlainStep
<1> QED
  BY <1>1, <1>2 DEF NewTunnelConnection, NewLocalDataAvailable, Running

LEMMA WorkInv ==
  ASSUME TypeOK, NEW c \in Conn, ConnInv(c), UNCHANGED clientVars, Work(c)
  PROVE  ConnInv(c)'
<1>1. CASE CloseAllChannels(c)
  BY <1>1, CloseInv DEF CloseAllChannels, Running, resources, history, clientVars
<1> QED
  BY <1>1, LoginInv, OpenInv, PurgeInv, DisconnectInv, TerminalDataInv,
    TunnelDataInv, LocalDataInv DEF Work

(* A source has something to watch, so its connection was started. *)
LEMMA SourceInv ==
  ASSUME TypeOK, NEW c \in Conn, ConnInv(c), UNCHANGED clientVars, SourceFires(c)
  PROVE  ConnInv(c)'
<1>1. PICK task \in SourceTask : Readable(c, task) /\ Dispatch(c, task)
  BY DEF SourceFires
<1>2. task \in Task \ {"connect", "purge"}
  BY DEF SourceTask, Task
<1>3. /\ ConnectFirst(c)' /\ PurgeOnce(c)'
      /\ queue[c] # <<>> => queue'[c] # <<>> /\ queue'[c][1] = queue[c][1]
  <2>1. /\ ConnectFirst(c) /\ PurgeOnce(c) /\ PurgedForGood(c)
        /\ queue \in [Conn -> Seq(Task)]
    BY DEF ConnInv, TypeOK, ConnTypeOK
  <2>2. UNCHANGED <<resources, isClosing, history>>
    BY DEF SourceFires
  <2> QED
    BY <1>1, <1>2, <2>1, <2>2, PlainDispatch
<1>4. client[c] # "idle"
  BY <1>1 DEF Readable, ConnInv, Pristine
<1> QED
  BY <1>3, <1>4 DEF ConnInv, SourceFires, Pristine, NoListener, Released,
    PurgedForGood, clientVars, resources, history, tunnelVars, connectionVars

LEMMA StartInv ==
  ASSUME TypeOK, NEW c \in Conn, ConnInv(c), Start(c)
  PROVE  ConnInv(c)'
<1>1. /\ queue[c] = <<>> /\ ~reported[c] /\ ~socketFd[c] /\ session[c] = "new"
      /\ ~purged[c]
  BY DEF Start, ConnInv, Pristine, PurgedForGood
<1>2. queue'[c] = <<"connect">>
  BY <1>1 DEF Start, startConnection, Dispatch, TypeOK, ConnTypeOK
<1>3. Len(queue'[c]) = 1 /\ queue'[c][1] = "connect"
  BY <1>2
<1>4. \A i \in 1..Len(queue'[c]) : i = 1
  BY <1>3
<1>5. ConnectFirst(c)' /\ PurgeOnce(c)'
  BY <1>1, <1>3, <1>4 DEF ConnectFirst, PurgeOnce, PurgeAt, Start,
    idleConnection, resources, history
<1>6. client'[c] = "started"
  BY DEF Start, TypeOK
<1> QED
  BY <1>1, <1>5, <1>6 DEF ConnInv, Start, idleConnection, Pristine, NoListener,
    Released, PurgedForGood, resources, history, tunnelVars, connectionVars

LEMMA CallInv ==
  ASSUME TypeOK, NEW c \in Conn, ConnInv(c), Resume(c) \/ End(c)
  PROVE  ConnInv(c)'
<1>1. PICK task \in Task \ {"connect", "purge"} : Dispatch(c, task)
  BY DEF Resume, End, resume, endConnection, Task
<1>2. UNCHANGED idleConnection /\ client'[c] # "idle"
  BY DEF Resume, End, TypeOK
<1>3. /\ ConnectFirst(c)' /\ PurgeOnce(c)'
      /\ queue[c] # <<>> => queue'[c] # <<>> /\ queue'[c][1] = queue[c][1]
  <2>1. /\ ConnectFirst(c) /\ PurgeOnce(c) /\ PurgedForGood(c)
        /\ queue \in [Conn -> Seq(Task)]
    BY DEF ConnInv, TypeOK, ConnTypeOK
  <2>2. UNCHANGED <<resources, isClosing, history>>
    BY <1>2 DEF idleConnection
  <2> QED
    BY <1>1, <2>1, <2>2, PlainDispatch
<1> QED
  BY <1>2, <1>3 DEF ConnInv, idleConnection, Pristine, NoListener, Released,
    PurgedForGood, resources, history, tunnelVars, connectionVars
(* What nobody touched keeps its invariant; the client may learn of it.    *)
Untouched(c) ==
  /\ Undisturbed(c)
  /\ client[c] # "idle" => client'[c] # "idle"

LEMMA UntouchedInv ==
  ASSUME NEW c \in Conn, ConnInv(c), Untouched(c)
  PROVE  ConnInv(c)'
<1> QED
  BY DEF ConnInv, Untouched, Undisturbed, ConnectFirst, Pristine, NoListener, Released,
    PurgeOnce, PurgeAt, PurgedForGood

LEMMA OtherWork ==
  ASSUME TypeOK, NEW c \in Conn, NEW d \in Conn \ {c}, UNCHANGED clientVars,
         Work(d) \/ SourceFires(d)
  PROVE  Untouched(c)
<1> QED
  BY OthersUndisturbed DEF TypeOK, Untouched, clientVars

LEMMA OtherCall ==
  ASSUME TypeOK, NEW c \in Conn, NEW d \in Conn \ {c},
         Start(d) \/ Resume(d) \/ End(d)
  PROVE  Untouched(c)
<1> QED
  BY DEF Start, Resume, End, startConnection, resume, endConnection, Dispatch,
    idleConnection, TypeOK, ConnTypeOK, Untouched, Undisturbed, resources, history,
    tunnelVars, connectionVars

LEMMA DeliverTouchesNone ==
  ASSUME TypeOK, NEW c \in Conn, Deliver
  PROVE  Untouched(c)
<1>1. client[c] # "idle" => client'[c] # "idle"
  BY DEF Deliver, Told, TypeOK
<1> QED
  BY <1>1 DEF Deliver, idleConnection, Untouched, Undisturbed, resources, history,
    tunnelVars, connectionVars

----------------------------------------------------------------------------
(* The invariant holds of every reachable state.                           *)

LEMMA SessionInvInit == Init => SessionInv
<1> SUFFICES ASSUME Init PROVE SessionInv
  OBVIOUS
<1>1. TypeOK
  BY TypeInit
<1>2. ASSUME NEW c \in Conn
      PROVE  ConnInv(c)
  <2>1. queue[c] = <<>> /\ Len(queue[c]) = 0
    BY DEF Init, ConnInit
  <2> QED
    BY <2>1 DEF Init, ConnInit, ConnInv, ConnectFirst, Pristine, NoListener,
      Released, PurgeOnce, PurgeAt, PurgedForGood
<1> QED
  BY <1>1, <1>2 DEF SessionInv

LEMMA SessionInvStep ==
  ASSUME SessionInv, [Next]_vars
  PROVE  SessionInv'
<1>1. TypeOK /\ \A c \in Conn : ConnInv(c)
  BY DEF SessionInv
<1>2. TypeOK'
  BY <1>1, TypeStep
<1>3. ASSUME NEW c \in Conn
      PROVE  ConnInv(c)'
  <2>1. ASSUME NEW d \in Conn, Start(d) \/ Resume(d) \/ End(d)
        PROVE  ConnInv(c)'
    BY <1>1, <2>1, StartInv, CallInv, OtherCall, UntouchedInv
  <2>2. ASSUME NEW d \in Conn, Work(d), UNCHANGED clientVars
        PROVE  ConnInv(c)'
    <3>1. CASE d = c
      BY <1>1, <2>2, <3>1, WorkInv
    <3>2. CASE d # c
      <4>1. Untouched(c)
        BY <1>1, <2>2, <3>2, OtherWork
      <4> QED
        BY <1>1, <4>1, UntouchedInv
    <3> QED
      BY <3>1, <3>2
  <2>3. ASSUME NEW d \in Conn, SourceFires(d), UNCHANGED clientVars
        PROVE  ConnInv(c)'
    BY <1>1, <2>3, SourceInv, OtherWork, UntouchedInv
  <2>4. CASE Deliver
    BY <1>1, <2>4, DeliverTouchesNone, UntouchedInv
  <2>5. CASE UNCHANGED vars
    BY <1>1, <2>5, UntouchedInv DEF vars, connVars, clientVars, Untouched, Undisturbed
  <2> QED
    BY <2>1, <2>2, <2>3, <2>4, <2>5 DEF Next
<1> QED
  BY <1>2, <1>3 DEF SessionInv

THEOREM SessionInvariant == Spec => []SessionInv
<1> QED
  BY SessionInvInit, SessionInvStep, PTL DEF Spec

(* DISCONNECTED is told after everything is released, and nothing takes    *)
(* the network again: connect is never left behind a disconnect.           *)
THEOREM ReleasedSafe == Spec => []ReleasedWhenReported
<1>1. SessionInv => ReleasedWhenReported
  BY DEF SessionInv, ConnInv, Released, ReleasedWhenReported
<1> QED
  BY <1>1, SessionInvariant, PTL

(* A closing connection listens on no port, whatever login task was still  *)
(* queued.                                                                 *)
THEOREM NoListenerSafe == Spec => []NoListenerOnceClosing
<1>1. SessionInv => NoListenerOnceClosing
  BY DEF SessionInv, ConnInv, NoListener, NoListenerOnceClosing
<1> QED
  BY <1>1, SessionInvariant, PTL

(* closeAllChannels takes effect once. *)
THEOREM OnePurgeSafe == Spec => []OnePurge
<1>1. SessionInv => OnePurge
  BY DEF SessionInv, ConnInv, OnePurge
<1> QED
  BY <1>1, SessionInvariant, PTL

(* No tunnel connection is left behind the block that disconnects them.    *)
THEOREM PurgeSafe == Spec => []PurgeIsFinal
<1>1. SessionInv => PurgeIsFinal
  BY DEF SessionInv, ConnInv, PurgedForGood, PurgeIsFinal
<1> QED
  BY <1>1, SessionInvariant, PTL

----------------------------------------------------------------------------
(* The refinement of SessionLifecycle.                                     *)

LEMMA LifecycleInit == Init => Lifecycle!Init
<1> QED
  BY DEF Init, ConnInit, Lifecycle!Init

(* Only connect and disconnect change what the lifecycle tells apart. *)
LEMMA QuietTasks ==
  ASSUME NEW d \in Conn, Work(d), ~Connect(d), ~Disconnect(d)
  PROVE  UNCHANGED <<resources, reported>>
<1> QED
  BY DEF Work, AuthenticateServer, AuthenticateUser, KeyUnusable,
    UserRefused, UserAccepted, OpenTerminalChannel,
    OpenTunnelChannels, CloseAllChannels, Purge, NewTerminalDataAvailable,
    NewSshDataAvailable, NewTunnelConnection, NewLocalDataAvailable, Dropped,
    history

LEMMA QuietStep ==
  ASSUME UNCHANGED <<resources, reported>>,
         \A c \in Conn : (client'[c] = "idle") = (client[c] = "idle")
  PROVE  UNCHANGED Lifecycle!vars
<1> QED
  BY DEF resources, Lifecycle!vars

LEMMA ConnectMaps ==
  ASSUME SessionInv, NEW d \in Conn, Connect(d), UNCHANGED clientVars
  PROVE  Lifecycle!Acquire(d) \/ UNCHANGED Lifecycle!vars
<1>1. TypeOK /\ ConnInv(d)
  BY DEF SessionInv
<1>2. /\ queue[d] # <<>> /\ queue[d][1] = "connect" /\ 1 \in 1..Len(queue[d])
      /\ UNCHANGED <<reported, client>>
  BY <1>1 DEF Connect, Running, TypeOK, ConnTypeOK, history, clientVars
<1>3. /\ ~reported[d] /\ ~socketFd[d] /\ session[d] = "new"
      /\ client[d] # "idle"
  BY <1>1, <1>2 DEF ConnInv, ConnectFirst, Pristine
<1>4. CASE ConnectRefused(d)
  <2>1. \A c \in Conn : socketFd'[c] = socketFd[c] /\ session'[c] = session[c]
    BY <1>1, <1>3, <1>4 DEF ConnectRefused, TypeOK, ConnTypeOK
  <2> QED
    BY <1>2, <2>1 DEF Lifecycle!vars
<1>5. CASE HandshakeFailed(d) \/ ConnectAccepted(d)
  <2>1. /\ socketFd' = [socketFd EXCEPT ![d] = TRUE]
        /\ \A c \in Conn \ {d} : session'[c] = session[c]
    BY <1>1, <1>5 DEF HandshakeFailed, ConnectAccepted, TypeOK, ConnTypeOK
  <2>2. \A c \in Conn : socketFd'[c] = (c = d \/ socketFd[c])
    BY <1>1, <2>1 DEF TypeOK, ConnTypeOK
  <2> QED
    BY <1>2, <1>3, <2>1, <2>2 DEF Lifecycle!Acquire
<1> QED
  BY <1>4, <1>5 DEF Connect

LEMMA DisconnectMaps ==
  ASSUME SessionInv, NEW d \in Conn, Disconnect(d), UNCHANGED clientVars
  PROVE  Lifecycle!Close(d) \/ UNCHANGED Lifecycle!vars
<1>1. TypeOK /\ ConnInv(d)
  BY DEF SessionInv
<1>2. client[d] # "idle" /\ UNCHANGED client
  BY <1>1 DEF Disconnect, Running, ConnInv, Pristine, clientVars
<1>3. /\ reported'[d] /\ ~socketFd'[d] /\ session'[d] # "connected"
      /\ \A c \in Conn \ {d} : /\ reported'[c] = reported[c]
                               /\ socketFd'[c] = socketFd[c]
                               /\ session'[c] = session[c]
  BY <1>1 DEF Disconnect, CloseSocket, TypeOK, ConnTypeOK
<1>4. CASE reported[d]
  <2>1. ~socketFd[d] /\ session[d] # "connected"
    BY <1>1, <1>4 DEF ConnInv, Released
  <2> QED
    BY <1>2, <1>3, <1>4, <2>1 DEF Lifecycle!vars
<1>5. CASE ~reported[d]
  BY <1>2, <1>3, <1>5 DEF Lifecycle!Close
<1> QED
  BY <1>4, <1>5

LEMMA StartMaps ==
  ASSUME SessionInv, NEW d \in Conn, UNCHANGED <<resources, reported>>,
         client[d] = "idle", client'[d] # "idle",
         \A c \in Conn \ {d} : client'[c] = client[c]
  PROVE  Lifecycle!Open(d)
<1>1. ~reported[d]
  BY DEF SessionInv, ConnInv, Pristine
<1> QED
  BY <1>1 DEF resources, Lifecycle!Open

LEMMA LifecycleStep ==
  ASSUME SessionInv, [Next]_vars
  PROVE  [Lifecycle!Next]_(Lifecycle!vars)
<1>1. TypeOK
  BY DEF SessionInv
<1>2. ASSUME NEW d \in Conn, Work(d), UNCHANGED clientVars
      PROVE  [Lifecycle!Next]_(Lifecycle!vars)
  <2>1. CASE Connect(d)
    BY <1>2, <2>1, ConnectMaps DEF Lifecycle!Next
  <2>2. CASE Disconnect(d)
    BY <1>2, <2>2, DisconnectMaps DEF Lifecycle!Next
  <2>3. CASE ~Connect(d) /\ ~Disconnect(d)
    BY <1>2, <2>3, QuietTasks, QuietStep DEF clientVars
  <2> QED
    BY <2>1, <2>2, <2>3
<1>3. ASSUME NEW d \in Conn, SourceFires(d), UNCHANGED clientVars
      PROVE  UNCHANGED Lifecycle!vars
  BY <1>3, QuietStep DEF SourceFires, clientVars, history
<1>4. ASSUME NEW d \in Conn, Start(d)
      PROVE  Lifecycle!Open(d)
  BY <1>1, <1>4, StartMaps DEF Start, TypeOK, idleConnection, history
<1>5. ASSUME NEW d \in Conn, Resume(d) \/ End(d)
      PROVE  UNCHANGED Lifecycle!vars
  <2>1. UNCHANGED <<resources, reported>>
    BY <1>5 DEF Resume, End, idleConnection, history
  <2>2. \A c \in Conn : (client'[c] = "idle") = (client[c] = "idle")
    BY <1>1, <1>5 DEF Resume, End, TypeOK
  <2> QED
    BY <2>1, <2>2, QuietStep
<1>6. CASE Deliver
  <2>1. UNCHANGED <<resources, reported>>
    BY <1>6 DEF Deliver, idleConnection, history
  <2>2. PICK d \in Conn, code \in Code :
          client' = [client EXCEPT ![d] = Told(@, code)]
    <3>1. mainQueue \in Seq(Event) /\ mainQueue # <<>>
      BY <1>1, <1>6 DEF Deliver, TypeOK, ConnTypeOK, Event
    <3>2. ASSUME NEW S, NEW s \in Seq(S), s # <<>>
          PROVE  Head(s) \in S
      BY <3>2
    <3>3. Head(mainQueue) \in Event
      BY <3>1, <3>2
    <3> QED
      BY <1>6, <3>3 DEF Deliver, Event
  <2>3. CASE client[d] = "idle" /\ client'[d] # "idle"
    BY <1>1, <2>1, <2>2, <2>3, StartMaps DEF Lifecycle!Next, TypeOK
  <2>4. CASE ~(client[d] = "idle" /\ client'[d] # "idle")
    <3>1. \A c \in Conn : (client'[c] = "idle") = (client[c] = "idle")
      BY <1>1, <2>2, <2>4 DEF Told, TypeOK
    <3> QED
      BY <2>1, <3>1, QuietStep
  <2> QED
    BY <2>3, <2>4
<1>7. CASE UNCHANGED vars
  BY <1>7, QuietStep DEF vars, connVars, clientVars, resources
<1> QED
  BY <1>2, <1>3, <1>4, <1>5, <1>6, <1>7 DEF Next, Lifecycle!Next

(* Seen from outside, every behaviour of the connections and their client  *)
(* is one of the lifecycle: one opening, one hold on the network, one end. *)
THEOREM LifecycleImplemented == Spec => ImplementsLifecycle
<1> QED
  BY SessionInvariant, LifecycleInit, LifecycleStep, PTL
    DEF Spec, ImplementsLifecycle, Lifecycle!Spec


----------------------------------------------------------------------------
(* The inductive invariant.  A login is one token that is handed on: it is *)
(* a login task in the queue, a question on its way to the client, a       *)
(* client that has been asked, or the disconnect of a login that failed.   *)
(* Nothing is opened before the token is gone.                             *)

LoginTask == {"connect", "authenticateServer", "authenticateUser",
              "openTerminalChannel", "openTunnelChannels"}

(* The disconnect of a purge; any other one stems from a failed login. *)
OfPurge(c, i) == IF i = 1 THEN purged[c] ELSE queue[c][i - 1] = "purge"

Login(c, i) ==
  /\ i \in 1..Len(queue[c])
  /\ \/ queue[c][i] \in LoginTask
     \/ queue[c][i] = "disconnect" /\ ~OfPurge(c, i)

Mismatch(c, i) ==
  /\ i \in 1..Len(mainQueue)
  /\ mainQueue[i] = [caller |-> c, code |-> "MISMATCH"]

LoggingIn(c) ==
  \/ \E i \in 1..Len(queue[c]) : Login(c, i)
  \/ \E i \in 1..Len(mainQueue) : Mismatch(c, i)
  \/ client[c] \in {"idle", "asked"}

Data(c, i) ==
  /\ i \in 1..Len(queue[c])
  /\ queue[c][i] \in {"newTerminalDataAvailable", "newSshDataAvailable"}

Opened(c) ==
  \/ alive[c] # {} \/ listening[c] # {} \/ readSource[c] \in Armed
  \/ \E i \in 1..Len(queue[c]) : Data(c, i)

OneLogin(c) ==
  /\ \A i, j \in 1..Len(queue[c]) : Login(c, i) /\ Login(c, j) => i = j
  /\ \A i, j \in 1..Len(mainQueue) : Mismatch(c, i) /\ Mismatch(c, j) => i = j
  /\ \A i \in 1..Len(queue[c]), j \in 1..Len(mainQueue) :
       ~(Login(c, i) /\ Mismatch(c, j))
  /\ client[c] \in {"idle", "asked"} =>
       /\ \A i \in 1..Len(queue[c]) : ~Login(c, i)
       /\ \A j \in 1..Len(mainQueue) : ~Mismatch(c, j)

OpenedAfterLogin(c) == LoggingIn(c) => ~Opened(c)
AliveConnected(c) == alive[c] # {} => session[c] = "connected"
ClosedSource(c) == isClosing[c] /\ readSource[c] \in Armed => openedLate[c]
FailedLogin(c) ==
  session[c] = "disconnected" /\ ~isClosing[c] =>
    ~LoggingIn(c) /\ readSource[c] \notin Armed

LoginInvariant(c) ==
  /\ OneLogin(c) /\ OpenedAfterLogin(c) /\ AliveConnected(c)
  /\ ClosedSource(c) /\ FailedLogin(c)

LoginsInv == SessionInv /\ \A c \in Conn : LoginInvariant(c)

----------------------------------------------------------------------------
(* What a step does to the token.                                          *)

(* A login task or a disconnect that was queued before is one that has     *)
(* moved forward; a disconnect keeps the purge it follows.                 *)
LEMMA FinishMoves ==
  ASSUME queue \in [Conn -> Seq(Task)], NEW c \in Conn, queue[c] # <<>>,
         NEW tasks \in Seq(Task), Finish(c, tasks),
         queue[c][1] = "purge" => purged'[c]
  PROVE  \A i \in 1..(Len(queue[c]) - 1) :
           Login(c, i)' => i + 1 \in 1..Len(queue[c]) /\ Login(c, i + 1)
<1> DEFINE n == Len(queue[c])
<1>1. /\ n \in Nat \ {0} /\ Len(queue'[c]) \in Nat
      /\ \A i \in 1..(n - 1) : queue'[c][i] = queue[c][i + 1]
  BY FinishAt
<1> HIDE DEF n
<1> SUFFICES ASSUME NEW i \in 1..(n - 1), Login(c, i)'
             PROVE  i + 1 \in 1..n /\ Login(c, i + 1)
  BY DEF n
<1>2. i + 1 \in 1..n /\ queue'[c][i] = queue[c][i + 1] /\ (i + 1) - 1 = i
  BY <1>1
<1>3. CASE queue'[c][i] \in LoginTask
  BY <1>2, <1>3 DEF Login, n
<1>4. CASE queue'[c][i] = "disconnect" /\ ~OfPurge(c, i)'
  <2>1. ~OfPurge(c, i + 1)
    <3>1. i + 1 # 1
      BY <1>1
    <3>2. SUFFICES ASSUME queue[c][i] = "purge" PROVE FALSE
      BY <1>2, <3>1 DEF OfPurge
    <3>3. CASE i = 1
      BY <1>4, <3>2, <3>3 DEF OfPurge
    <3>4. CASE i # 1
      <4>1. i - 1 \in 1..(n - 1) /\ (i - 1) + 1 = i
        BY <1>1, <3>4
      <4>2. queue'[c][i - 1] = "purge"
        BY <1>1, <3>2, <4>1
      <4> QED
        BY <1>4, <3>4, <4>2 DEF OfPurge
    <3> QED
      BY <3>3, <3>4
  <2> QED
    BY <1>2, <1>4, <2>1 DEF Login, n
<1> QED
  BY <1>3, <1>4 DEF Login

(* The lists of tasks that begin no login and fail none. *)
QuietLists ==
  {<<>>, <<"purge", "disconnect">>}
    \cup {<<t>> : t \in Task \ (LoginTask \cup {"disconnect"})}

LEMMA QuietFinish ==
  ASSUME queue \in [Conn -> Seq(Task)], NEW c \in Conn, queue[c] # <<>>,
         NEW tasks \in QuietLists, Finish(c, tasks),
         queue[c][1] = "purge" => purged'[c]
  PROVE  \A i \in 1..Len(queue'[c]) :
           Login(c, i)' => i + 1 \in 1..Len(queue[c]) /\ Login(c, i + 1)
<1> DEFINE n == Len(queue[c])
<1>1. tasks \in Seq(Task)
  BY TaskLists DEF QuietLists, Task
<1>2. /\ n \in Nat \ {0} /\ Len(tasks) \in Nat
      /\ Len(queue'[c]) = n - 1 + Len(tasks)
      /\ \A i \in n..Len(queue'[c]) : queue'[c][i] = tasks[i - (n - 1)]
  BY <1>1, FinishAt
<1>3. \A i \in 1..(n - 1) :
        Login(c, i)' => i + 1 \in 1..n /\ Login(c, i + 1)
  BY <1>1, FinishMoves
<1> HIDE DEF n
<1> SUFFICES ASSUME NEW i \in n..Len(queue'[c])
             PROVE  ~Login(c, i)'
  <2>1. \A i \in 1..Len(queue'[c]) : i \in 1..(n - 1) \/ i \in n..Len(queue'[c])
    BY <1>2
  <2> QED
    BY <1>3, <2>1 DEF n
<1>4. queue'[c][i] = tasks[i - (n - 1)] /\ i - (n - 1) \in 1..Len(tasks)
  BY <1>2
<1>5. CASE tasks = <<>>
  <2>1. Len(tasks) = 0
    BY <1>5
  <2> QED
    BY <1>2, <2>1
<1>6. ASSUME NEW t \in Task \ (LoginTask \cup {"disconnect"}), tasks = <<t>>
      PROVE  ~Login(c, i)'
  <2>1. Len(tasks) = 1 /\ tasks[1] = t
    BY <1>6
  <2>2. queue'[c][i] = t
    BY <1>2, <1>4, <2>1
  <2> QED
    BY <1>6, <2>2 DEF Login
<1>7. CASE tasks = <<"purge", "disconnect">>
  <2>1. Len(tasks) = 2 /\ tasks[1] = "purge" /\ tasks[2] = "disconnect"
    BY <1>7
  <2>2. n \in n..Len(queue'[c]) /\ n - (n - 1) = 1 /\ (n + 1) - 1 = n /\ n + 1 # 1
    BY <1>2, <2>1
  <2>3. queue'[c][n] = "purge"
    BY <1>2, <2>1, <2>2
  <2>4. CASE i = n
    BY <2>3, <2>4 DEF Login, LoginTask
  <2>5. CASE i = n + 1
    <3>1. i - (n - 1) = 2
      BY <1>2, <2>5
    <3>2. queue'[c][i] = "disconnect" /\ OfPurge(c, i)'
      BY <1>4, <2>1, <2>2, <2>3, <2>5, <3>1 DEF OfPurge
    <3> QED
      BY <3>2 DEF Login, LoginTask
  <2> QED
    BY <1>2, <2>1, <2>4, <2>5
<1> QED
  BY <1>5, <1>6, <1>7 DEF QuietLists

(* A login task is the token, so what it dispatches is the only one left. *)
LEMMA HandedOn ==
  ASSUME queue \in [Conn -> Seq(Task)], NEW c \in Conn, queue[c] # <<>>,
         queue[c][1] \in LoginTask, OneLogin(c),
         NEW tasks \in Seq(Task), Finish(c, tasks), Len(tasks) <= 1
  PROVE  \A i \in 1..Len(queue'[c]) :
           Login(c, i)' => i = Len(queue[c]) /\ Len(tasks) = 1 /\ tasks[1] \in LoginTask \cup {"disconnect"}
<1> DEFINE n == Len(queue[c])
<1>1. /\ n \in Nat \ {0} /\ Len(tasks) \in Nat
      /\ Len(queue'[c]) = n - 1 + Len(tasks)
      /\ \A i \in n..Len(queue'[c]) : queue'[c][i] = tasks[i - (n - 1)]
  BY FinishAt
<1>2. Login(c, 1) /\ 1 \in 1..n
  BY <1>1 DEF Login
<1>3. \A i \in 1..(n - 1) : ~Login(c, i)'
  <2> SUFFICES ASSUME NEW i \in 1..(n - 1), Login(c, i)' PROVE FALSE
    OBVIOUS
  <2>1. i + 1 \in 1..n /\ Login(c, i + 1)
    BY FinishMoves DEF LoginTask
  <2>2. i + 1 = 1
    BY <1>2, <2>1 DEF OneLogin
  <2> QED
    BY <1>1, <2>2
<1> HIDE DEF n
<1> SUFFICES ASSUME NEW i \in 1..Len(queue'[c]), Login(c, i)'
             PROVE  i = n /\ Len(tasks) = 1 /\ tasks[1] \in LoginTask \cup {"disconnect"}
  BY DEF n
<1>4. i \notin 1..(n - 1)
  BY <1>3
<1>5. i = n /\ Len(tasks) = 1 /\ i - (n - 1) = 1 /\ i \in n..Len(queue'[c])
  <2>1. i \in Nat /\ i >= n /\ i <= n - 1 + Len(tasks)
    BY <1>1, <1>4
  <2>2. n \in Nat \ {0} /\ Len(tasks) \in Nat
    BY <1>1
  <2>3. i \in n..Len(queue'[c])
    BY <1>1, <2>1
  <2>4. Len(tasks) = 1
    <3>1. Len(tasks) >= 1
      BY <2>1, <2>2
    <3>2. Len(tasks) <= 1
      OBVIOUS
    <3>3. ASSUME NEW k \in Nat, k >= 1, k <= 1
          PROVE  k = 1
      BY <3>3
    <3> QED
      BY <2>2, <3>1, <3>2, <3>3
  <2> QED
    BY <2>1, <2>2, <2>3, <2>4
<1> QED
  BY <1>1, <1>5 DEF Login

(* The events of another connection, or of no question, add no question.   *)
LEMMA EventsKept ==
  ASSUME mainQueue \in Seq(Event), NEW c \in Conn, NEW d \in Conn,
         NEW codes \in Seq(Code), eventNotify(d, codes),
         d # c \/ \A i \in 1..Len(codes) : codes[i] # "MISMATCH"
  PROVE  \A i \in 1..Len(mainQueue') :
           Mismatch(c, i)' => i \in 1..Len(mainQueue) /\ Mismatch(c, i)
<1>1. /\ Len(codes) \in Nat
      /\ Events(d, codes) \in Seq(Event)
      /\ Len(Events(d, codes)) = Len(codes)
      /\ \A i \in 1..Len(codes) :
           Events(d, codes)[i] = [caller |-> d, code |-> codes[i]]
  <2>1. Len(codes) \in Nat /\ \A i \in 1..Len(codes) : codes[i] \in Code
    OBVIOUS
  <2> QED
    BY <2>1 DEF Events, Event
<1> DEFINE ev == Events(d, codes)
<1>2. mainQueue' = mainQueue \o ev /\ Len(mainQueue) \in Nat
  BY DEF eventNotify
<1> HIDE DEF ev
<1>3. /\ Len(mainQueue') = Len(mainQueue) + Len(ev)
      /\ \A i \in 1..Len(mainQueue) : mainQueue'[i] = mainQueue[i]
      /\ \A i \in 1..Len(mainQueue') :
           i > Len(mainQueue) => mainQueue'[i] = ev[i - Len(mainQueue)]
  <2>1. ASSUME NEW S, NEW s \in Seq(S), NEW t \in Seq(S)
        PROVE  /\ Len(s \o t) = Len(s) + Len(t)
               /\ \A i \in 1..Len(s) : (s \o t)[i] = s[i]
               /\ \A i \in 1..Len(s \o t) :
                    i > Len(s) => (s \o t)[i] = t[i - Len(s)]
    OBVIOUS
  <2>2. mainQueue \in Seq(Event) /\ ev \in Seq(Event)
    BY <1>1 DEF ev
  <2> HIDE DEF Event
  <2>3. /\ Len(mainQueue \o ev) = Len(mainQueue) + Len(ev)
        /\ \A i \in 1..Len(mainQueue) : (mainQueue \o ev)[i] = mainQueue[i]
        /\ \A i \in 1..Len(mainQueue \o ev) :
             i > Len(mainQueue) => (mainQueue \o ev)[i] = ev[i - Len(mainQueue)]
    BY <2>1, <2>2
  <2> QED
    BY <1>2, <2>3
<1> SUFFICES ASSUME NEW i \in 1..Len(mainQueue'), Mismatch(c, i)'
             PROVE  i \in 1..Len(mainQueue) /\ Mismatch(c, i)
  OBVIOUS
<1>4. CASE i \in 1..Len(mainQueue)
  BY <1>3, <1>4 DEF Mismatch
<1>5. CASE i > Len(mainQueue)
  <2>1. i - Len(mainQueue) \in 1..Len(codes)
    BY <1>1, <1>2, <1>3, <1>5 DEF ev
  <2>2. mainQueue'[i] = [caller |-> d, code |-> codes[i - Len(mainQueue)]]
    BY <1>1, <1>2, <1>3, <1>5, <2>1 DEF ev
  <2> QED
    BY <2>1, <2>2 DEF Mismatch
<1> QED
  BY <1>2, <1>4, <1>5

(* Tokens that only move, or go. *)
LEMMA LoginKept ==
  ASSUME NEW c \in Conn, NEW k \in {0, 1}, NEW m \in {0, 1},
         \A i \in 1..Len(queue'[c]) :
           Login(c, i)' => i + k \in 1..Len(queue[c]) /\ Login(c, i + k),
         \A i \in 1..Len(mainQueue') :
           Mismatch(c, i)' =>
             i + m \in 1..Len(mainQueue) /\ Mismatch(c, i + m),
         client'[c] \in {"idle", "asked"} => client[c] \in {"idle", "asked"},
         OneLogin(c)
  PROVE  OneLogin(c)' /\ (LoggingIn(c)' => LoggingIn(c))
<1>1. \A i, j \in 1..Len(queue'[c]) : Login(c, i)' /\ Login(c, j)' => i = j
  <2> SUFFICES ASSUME NEW i \in 1..Len(queue'[c]), NEW j \in 1..Len(queue'[c]),
                      Login(c, i)', Login(c, j)'
               PROVE  i = j
    OBVIOUS
  <2>1. i + k = j + k
    BY DEF OneLogin
  <2> QED
    BY <2>1
<1>2. \A i, j \in 1..Len(mainQueue') : Mismatch(c, i)' /\ Mismatch(c, j)' => i = j
  <2> SUFFICES ASSUME NEW i \in 1..Len(mainQueue'), NEW j \in 1..Len(mainQueue'),
                      Mismatch(c, i)', Mismatch(c, j)'
               PROVE  i = j
    OBVIOUS
  <2>1. i + m = j + m
    BY DEF OneLogin
  <2> QED
    BY <2>1
<1>3. \A i \in 1..Len(queue'[c]), j \in 1..Len(mainQueue') :
        ~(Login(c, i)' /\ Mismatch(c, j)')
  BY DEF OneLogin
<1>4. client'[c] \in {"idle", "asked"} =>
        /\ \A i \in 1..Len(queue'[c]) : ~Login(c, i)'
        /\ \A j \in 1..Len(mainQueue') : ~Mismatch(c, j)'
  BY DEF OneLogin
<1>5. LoggingIn(c)' => LoggingIn(c)
  BY DEF LoggingIn
<1> QED
  BY <1>1, <1>2, <1>3, <1>4, <1>5 DEF OneLogin

(* The lists of events that ask nothing. *)
PlainCodes ==
  {<<t>> : t \in Code \ {"MISMATCH"}}
    \cup {<<t, u>> : t \in Code \ {"MISMATCH"}, u \in Code \ {"MISMATCH"}}

LEMMA PlainEvents ==
  ASSUME mainQueue \in Seq(Event), NEW c \in Conn, NEW d \in Conn,
         \/ UNCHANGED mainQueue
         \/ \E codes \in PlainCodes : eventNotify(d, codes)
         \/ d # c /\ \E codes \in Seq(Code) : eventNotify(d, codes)
  PROVE  \A i \in 1..Len(mainQueue') :
           Mismatch(c, i)' =>
             i + 0 \in 1..Len(mainQueue) /\ Mismatch(c, i + 0)
<1>0. \A i \in 1..Len(mainQueue') : i + 0 = i
  OBVIOUS
<1>1. CASE UNCHANGED mainQueue
  BY <1>0, <1>1 DEF Mismatch
<1>2. ASSUME NEW codes \in PlainCodes, eventNotify(d, codes)
      PROVE  \A i \in 1..Len(mainQueue') :
               Mismatch(c, i)' => i \in 1..Len(mainQueue) /\ Mismatch(c, i)
  <2>1. codes \in Seq(Code) /\ \A i \in 1..Len(codes) : codes[i] # "MISMATCH"
    <3>1. CASE \E t \in Code \ {"MISMATCH"} : codes = <<t>>
      <4>1. PICK t \in Code \ {"MISMATCH"} : codes = <<t>>
        BY <3>1
      <4>2. Len(codes) = 1 /\ codes[1] = t /\ codes \in Seq(Code)
        BY <4>1
      <4> QED
        BY <4>2
    <3>2. CASE \E t \in Code \ {"MISMATCH"}, u \in Code \ {"MISMATCH"} :
                 codes = <<t, u>>
      <4>1. PICK t \in Code \ {"MISMATCH"}, u \in Code \ {"MISMATCH"} :
              codes = <<t, u>>
        BY <3>2
      <4>2. Len(codes) = 2 /\ codes[1] = t /\ codes[2] = u
        BY <4>1
      <4>3. codes \in Seq(Code)
        BY <4>1
      <4> QED
        BY <4>2, <4>3
    <3> QED
      BY <1>2, <3>1, <3>2 DEF PlainCodes
  <2> QED
    BY <1>2, <2>1, EventsKept
<1>3. CASE d # c /\ \E codes \in Seq(Code) : eventNotify(d, codes)
  BY <1>0, <1>3, EventsKept
<1> QED
  BY <1>0, <1>1, <1>2, <1>3

(* A step that moves tokens only, and opens nothing while there is one.    *)
LEMMA KeptInvariant ==
  ASSUME NEW c \in Conn, NEW k \in {0, 1}, NEW m \in {0, 1},
         \A i \in 1..Len(queue'[c]) :
           Login(c, i)' => i + k \in 1..Len(queue[c]) /\ Login(c, i + k),
         \A i \in 1..Len(mainQueue') :
           Mismatch(c, i)' =>
             i + m \in 1..Len(mainQueue) /\ Mismatch(c, i + m),
         client'[c] \in {"idle", "asked"} => client[c] \in {"idle", "asked"},
         LoginInvariant(c),
         LoggingIn(c) => ~Opened(c)',
         AliveConnected(c)', ClosedSource(c)',
         session'[c] = "disconnected" /\ ~isClosing'[c] =>
           ~LoggingIn(c) /\ readSource'[c] \notin Armed
  PROVE  LoginInvariant(c)'
<1>1. OneLogin(c)' /\ (LoggingIn(c)' => LoggingIn(c))
  BY LoginKept DEF LoginInvariant
<1> QED
  BY <1>1 DEF LoginInvariant, OpenedAfterLogin, FailedLogin

LEMMA QuietWork ==
  ASSUME SessionInv, NEW c \in Conn, LoginInvariant(c), queue[c] # <<>>,
         NEW tasks \in QuietLists, Finish(c, tasks),
         queue[c][1] = "purge" => purged'[c],
         UNCHANGED client,
         UNCHANGED mainQueue \/ \E codes \in PlainCodes : eventNotify(c, codes),
         LoggingIn(c) => ~Opened(c)',
         AliveConnected(c)', ClosedSource(c)',
         session'[c] = "disconnected" /\ ~isClosing'[c] =>
           ~LoggingIn(c) /\ readSource'[c] \notin Armed
  PROVE  LoginInvariant(c)'
<1>1. /\ queue \in [Conn -> Seq(Task)]
      /\ mainQueue \in Seq(Event)
  BY DEF SessionInv, TypeOK, ConnTypeOK, Event
<1>2. \A i \in 1..Len(queue'[c]) :
        Login(c, i)' => i + 1 \in 1..Len(queue[c]) /\ Login(c, i + 1)
  BY <1>1, QuietFinish
<1>3. \A i \in 1..Len(mainQueue') :
        Mismatch(c, i)' => i + 0 \in 1..Len(mainQueue) /\ Mismatch(c, i + 0)
  BY <1>1, PlainEvents
<1>4. 0 \in {0, 1} /\ 1 \in {0, 1}
  OBVIOUS
<1> QED
  BY <1>2, <1>3, <1>4, KeptInvariant

(* No task that reads on is queued by a step that queues none. *)
LEMMA DataFinish ==
  ASSUME queue \in [Conn -> Seq(Task)], NEW c \in Conn, queue[c] # <<>>,
         NEW tasks \in Seq(Task), Finish(c, tasks),
         \A i \in 1..Len(tasks) :
           tasks[i] \notin {"newTerminalDataAvailable", "newSshDataAvailable"},
         \E i \in 1..Len(queue'[c]) : Data(c, i)'
  PROVE  \E i \in 1..Len(queue[c]) : Data(c, i)
<1> DEFINE n == Len(queue[c])
<1>1. /\ n \in Nat \ {0} /\ Len(tasks) \in Nat
      /\ Len(queue'[c]) = n - 1 + Len(tasks)
      /\ \A i \in 1..(n - 1) : queue'[c][i] = queue[c][i + 1]
      /\ \A i \in n..Len(queue'[c]) : queue'[c][i] = tasks[i - (n - 1)]
  BY FinishAt
<1>2. PICK i \in 1..Len(queue'[c]) : Data(c, i)'
  OBVIOUS
<1> HIDE DEF n
<1>3. i \in 1..(n - 1)
  <2>1. CASE i \in n..Len(queue'[c])
    <3>1. i - (n - 1) \in 1..Len(tasks)
      BY <1>1, <2>1
    <3> QED
      BY <1>1, <1>2, <2>1, <3>1 DEF Data
  <2> QED
    BY <1>1, <2>1
<1>4. i + 1 \in 1..n /\ Data(c, i + 1)
  BY <1>1, <1>2, <1>3 DEF Data, n
<1> QED
  BY <1>4 DEF n

LEMMA NotOpening ==
  ASSUME SessionInv, NEW c \in Conn, queue[c] # <<>>,
         NEW tasks \in QuietLists \cup {<<"disconnect">>}
                         \cup {<<t>> : t \in LoginTask}, Finish(c, tasks),
         tasks # <<"newTerminalDataAvailable">>,
         tasks # <<"newSshDataAvailable">>,
         alive[c] = {} => alive'[c] = {},
         listening[c] = {} => listening'[c] = {},
         readSource'[c] = readSource[c] \/ readSource'[c] \notin Armed,
         ~Opened(c)
  PROVE  ~Opened(c)'
<1>1. tasks \in Seq(Task)
  BY TaskLists DEF QuietLists, Task, LoginTask
<1>2. \A i \in 1..Len(tasks) :
        tasks[i] \notin {"newTerminalDataAvailable", "newSshDataAvailable"}
  <2>1. CASE tasks \in {<<>>, <<"purge", "disconnect">>}
    BY <2>1
  <2>2. ASSUME NEW t \in Task, tasks = <<t>>
        PROVE  \A i \in 1..Len(tasks) :
                 tasks[i] \notin {"newTerminalDataAvailable", "newSshDataAvailable"}
    <3>1. t \notin {"newTerminalDataAvailable", "newSshDataAvailable"}
      BY <2>2
    <3>2. Len(tasks) = 1 /\ tasks[1] = t
      BY <2>2
    <3> QED
      BY <3>1, <3>2
  <2> QED
    BY <2>1, <2>2 DEF QuietLists, Task, LoginTask
<1>3. queue \in [Conn -> Seq(Task)]
  BY DEF SessionInv, TypeOK, ConnTypeOK
<1>4. (\E i \in 1..Len(queue'[c]) : Data(c, i)') =>
        \E i \in 1..Len(queue[c]) : Data(c, i)
  BY <1>1, <1>2, <1>3, DataFinish
<1> QED
  BY <1>4 DEF Opened

----------------------------------------------------------------------------
(* The tasks, for the connection that runs them.                           *)

(* A login task hands its token on, as a task or as a question, or gives   *)
(* it up.                                                                  *)
Handed == {<<>>} \cup {<<t>> : t \in LoginTask \cup {"disconnect", "closeAllChannels"}}

LEMMA LoginTaskTokens ==
  ASSUME SessionInv, NEW c \in Conn, LoginInvariant(c), UNCHANGED client,
         queue[c] # <<>>, queue[c][1] \in LoginTask,
         NEW tasks \in Handed, Finish(c, tasks),
         \/ UNCHANGED mainQueue
         \/ \E codes \in PlainCodes : eventNotify(c, codes)
         \/ tasks = <<>> /\ eventNotify(c, <<"MISMATCH">>)
  PROVE  /\ LoggingIn(c) /\ OneLogin(c)'
         /\ tasks = <<>> /\ (\E codes \in PlainCodes : eventNotify(c, codes)) =>
              ~LoggingIn(c)'
<1> DEFINE n == Len(queue[c])
<1>1. /\ queue \in [Conn -> Seq(Task)] /\ mainQueue \in Seq(Event)
  BY DEF SessionInv, TypeOK, ConnTypeOK, Event
<1>2. 1 \in 1..n /\ Login(c, 1)
  BY <1>1 DEF Login
<1>3. /\ \A j \in 1..Len(mainQueue) : ~Mismatch(c, j)
      /\ client[c] \notin {"idle", "asked"} /\ LoggingIn(c)
  BY <1>2 DEF LoginInvariant, OneLogin, LoggingIn
<1>4. tasks \in Seq(Task) /\ Len(tasks) <= 1
  <2>1. CASE tasks = <<>>
    BY <2>1
  <2>2. ASSUME NEW t \in Task, tasks = <<t>> PROVE tasks \in Seq(Task) /\ Len(tasks) <= 1
    <3>1. Len(tasks) = 1 /\ tasks \in Seq(Task)
      BY <2>2
    <3> QED
      BY <3>1
  <2> QED
    BY <2>1, <2>2 DEF Handed, Task, LoginTask
<1>5. \A i \in 1..Len(queue'[c]) : Login(c, i)' => i = n /\ Len(tasks) = 1
  BY <1>1, <1>4, HandedOn DEF LoginInvariant
<1> HIDE DEF n
<1>6. ASSUME UNCHANGED mainQueue \/ \E codes \in PlainCodes : eventNotify(c, codes)
      PROVE  OneLogin(c)' /\ (tasks = <<>> => ~LoggingIn(c)')
  <2>1. \A i \in 1..Len(mainQueue') : ~Mismatch(c, i)'
    BY <1>1, <1>3, <1>6, PlainEvents
  <2>2. OneLogin(c)'
    BY <1>3, <1>5, <2>1 DEF OneLogin
  <2>3. tasks = <<>> => ~LoggingIn(c)'
    <3>1. tasks = <<>> => Len(tasks) = 0
      OBVIOUS
    <3> QED
      BY <1>3, <1>5, <2>1, <3>1 DEF LoggingIn
  <2> QED
    BY <1>3, <2>2, <2>3
<1>7. ASSUME tasks = <<>>, eventNotify(c, <<"MISMATCH">>)
      PROVE  OneLogin(c)'
  <2>1. Len(tasks) = 0
    BY <1>7
  <2>2. \A i \in 1..Len(queue'[c]) : ~Login(c, i)'
    BY <1>5, <2>1
  <2>3. \A i \in 1..Len(mainQueue') : Mismatch(c, i)' => i = Len(mainQueue) + 1
    <3>1. mainQueue' = Append(mainQueue, [caller |-> c, code |-> "MISMATCH"])
      <4>1. Events(c, <<"MISMATCH">>) = <<[caller |-> c, code |-> "MISMATCH"]>>
        BY DEF Events
      <4>2. [caller |-> c, code |-> "MISMATCH"] \in Event
        BY DEF Event, Code
      <4>3. ASSUME NEW S, NEW s \in Seq(S), NEW e \in S
            PROVE  s \o <<e>> = Append(s, e)
        OBVIOUS
      <4>4. mainQueue \o <<[caller |-> c, code |-> "MISMATCH"]>>
              = Append(mainQueue, [caller |-> c, code |-> "MISMATCH"])
        BY <1>1, <4>2, <4>3
      <4> QED
        BY <1>7, <4>1, <4>4 DEF eventNotify
    <3>2. /\ Len(mainQueue') = Len(mainQueue) + 1 /\ Len(mainQueue) \in Nat
          /\ \A i \in 1..Len(mainQueue) : mainQueue'[i] = mainQueue[i]
      BY <1>1, <3>1
    <3> QED
      BY <1>3, <3>2 DEF Mismatch
  <2> QED
    BY <1>3, <1>7, <2>2, <2>3 DEF OneLogin
<1> QED
  BY <1>3, <1>6, <1>7

LEMMA HandedLists ==
  /\ <<>> \in Handed
  /\ \A t \in LoginTask \cup {"disconnect", "closeAllChannels"} : <<t>> \in Handed
  /\ <<"ERROR">> \in PlainCodes /\ <<"SERVER_ERROR">> \in PlainCodes
  /\ <<"CONNECTED">> \in PlainCodes /\ <<"ERROR", "CONNECTED">> \in PlainCodes
  /\ <<"DISCONNECTED">> \in PlainCodes /\ <<"ERROR", "ERROR">> \in PlainCodes
<1> QED
  BY DEF Handed, PlainCodes, Code

(* The part of the invariant that a login task keeps whatever it hands on. *)
LEMMA StillLoggingIn ==
  ASSUME SessionInv, NEW c \in Conn, LoginInvariant(c), LoggingIn(c),
         queue[c] # <<>>, NEW tasks \in Handed, Finish(c, tasks),
         UNCHANGED <<isClosing, connectionVars>>,
         session'[c] = "disconnected" => session[c] = "disconnected",
         listening[c] = {} => listening'[c] = {},
         readSource'[c] = readSource[c] \/ readSource'[c] \notin Armed,
         OneLogin(c)'
  PROVE  LoginInvariant(c)'
<1>1. ~Opened(c)
  BY DEF LoginInvariant, OpenedAfterLogin
<1>2. ~Opened(c)'
  <2>1. tasks \in QuietLists \cup {<<"disconnect">>} \cup {<<t>> : t \in LoginTask}
    BY DEF Handed, QuietLists, Task, LoginTask
  <2>2. tasks # <<"newTerminalDataAvailable">> /\ tasks # <<"newSshDataAvailable">>
    BY DEF Handed, LoginTask
  <2> QED
    BY <1>1, <2>1, <2>2, NotOpening DEF connectionVars
<1>3. AliveConnected(c)' /\ ClosedSource(c)'
  BY <1>2 DEF AliveConnected, ClosedSource, Opened
<1>4. FailedLogin(c)'
  BY DEF LoginInvariant, FailedLogin
<1> QED
  BY <1>2, <1>3, <1>4 DEF LoginInvariant, OpenedAfterLogin

LEMMA LoginTaskInv ==
  ASSUME SessionInv, NEW c \in Conn, LoginInvariant(c), UNCHANGED clientVars,
         Connect(c) \/ AuthenticateServer(c) \/ AuthenticateUser(c)
  PROVE  LoginInvariant(c)'
<1>0. TypeOK
  BY DEF SessionInv
<1>1. /\ queue[c] # <<>> /\ queue[c][1] \in LoginTask
      /\ UNCHANGED <<isClosing, client, connectionVars, readSource, tunnelVars>>
      /\ session'[c] = "disconnected" => session[c] = "disconnected"
  BY <1>0 DEF Connect, ConnectRefused, HandshakeFailed, ConnectAccepted,
    AuthenticateServer, AuthenticateUser, KeyUnusable, UserRefused,
    UserAccepted, Running, clientVars, LoginTask, resources, TypeOK, ConnTypeOK
<1>2. PICK tasks \in Handed :
        /\ Finish(c, tasks)
        /\ \/ UNCHANGED mainQueue
           \/ \E codes \in PlainCodes : eventNotify(c, codes)
           \/ tasks = <<>> /\ eventNotify(c, <<"MISMATCH">>)
  BY HandedLists DEF Connect, ConnectRefused, HandshakeFailed, ConnectAccepted,
    AuthenticateServer, AuthenticateUser, KeyUnusable, UserRefused,
    UserAccepted, LoginTask
<1>3. LoggingIn(c) /\ OneLogin(c)'
  BY <1>1, <1>2, LoginTaskTokens
<1> QED
  BY <1>1, <1>2, <1>3, StillLoggingIn DEF tunnelVars

LEMMA OpenTaskInv ==
  ASSUME SessionInv, NEW c \in Conn, LoginInvariant(c), UNCHANGED clientVars,
         OpenTerminalChannel(c) \/ OpenTunnelChannels(c)
  PROVE  LoginInvariant(c)'
<1>0. TypeOK
  BY DEF SessionInv
<1>1. /\ queue[c] # <<>> /\ queue[c][1] \in LoginTask
      /\ UNCHANGED <<isClosing, client, connectionVars, session>>
  BY <1>0 DEF OpenTerminalChannel, OpenTunnelChannels, Running, clientVars,
    LoginTask, resources
<1>2. CASE readSource'[c] \notin Armed /\ UNCHANGED tunnelVars
  <2>1. PICK tasks \in Handed :
          /\ Finish(c, tasks)
          /\ \E codes \in PlainCodes : eventNotify(c, codes)
    BY <1>0, <1>2, HandedLists DEF OpenTerminalChannel, OpenTerminalOutOfMemory,
      OpenTerminalRefused, OpenTerminalAccepted, OpenTunnelChannels, LoginTask,
      Armed, TypeOK, ConnTypeOK
  <2>2. LoggingIn(c) /\ OneLogin(c)'
    BY <1>1, <2>1, LoginTaskTokens
  <2> QED
    BY <1>1, <1>2, <2>1, <2>2, StillLoggingIn DEF tunnelVars
<1>3. CASE /\ Finish(c, <<>>)
           /\ \E codes \in {<<"CONNECTED">>, <<"ERROR", "CONNECTED">>} :
                eventNotify(c, codes)
           /\ openedLate' = [openedLate EXCEPT ![c] = @ \/ isClosing[c]]
  <2>1. \E codes \in PlainCodes : eventNotify(c, codes)
    BY <1>3, HandedLists
  <2>2. LoggingIn(c) /\ OneLogin(c)' /\ ~LoggingIn(c)'
    BY <1>1, <1>3, <2>1, HandedLists, LoginTaskTokens
  <2>3. ClosedSource(c)'
    BY <1>0, <1>1, <1>3 DEF ClosedSource, TypeOK, ConnTypeOK
  <2>4. AliveConnected(c)'
    BY <1>1 DEF LoginInvariant, AliveConnected, connectionVars
  <2>5. FailedLogin(c)'
    BY <1>1, <2>2 DEF LoginInvariant, FailedLogin
  <2> QED
    BY <2>2, <2>3, <2>4, <2>5 DEF LoginInvariant, OpenedAfterLogin
<1> QED
  BY <1>0, <1>2, <1>3 DEF OpenTerminalChannel, OpenTerminalOutOfMemory,
    OpenTerminalRefused, OpenTerminalAccepted, OpenTunnelChannels, OpenTunnels,
    TypeOK, ConnTypeOK, Armed

LEMMA QuietTaskLists ==
  /\ <<>> \in QuietLists /\ <<"purge", "disconnect">> \in QuietLists
  /\ <<"closeAllChannels">> \in QuietLists
  /\ <<"newTerminalDataAvailable">> \in QuietLists
  /\ <<"newSshDataAvailable">> \in QuietLists
<1> QED
  BY DEF QuietLists, Task, LoginTask

(* A task that opens nothing, on a connection whose session goes on. *)
LEMMA QuietTaskInv ==
  ASSUME SessionInv, NEW c \in Conn, LoginInvariant(c), queue[c] # <<>>,
         NEW tasks \in QuietLists, Finish(c, tasks),
         tasks # <<"newTerminalDataAvailable">>,
         tasks # <<"newSshDataAvailable">>,
         queue[c][1] = "purge" => purged'[c],
         UNCHANGED <<client, session, openedLate>>,
         UNCHANGED mainQueue \/ \E codes \in PlainCodes : eventNotify(c, codes),
         alive'[c] \subseteq alive[c],
         listening[c] = {} => listening'[c] = {},
         \/ readSource'[c] = readSource[c] /\ isClosing'[c] = isClosing[c]
         \/ readSource'[c] \notin Armed /\ isClosing'[c]
  PROVE  LoginInvariant(c)'
<1>1. LoggingIn(c) => ~Opened(c)'
  BY NotOpening DEF LoginInvariant, OpenedAfterLogin
<1>2. AliveConnected(c)' /\ ClosedSource(c)'
  BY DEF LoginInvariant, AliveConnected, ClosedSource
<1>3. session'[c] = "disconnected" /\ ~isClosing'[c] =>
        ~LoggingIn(c) /\ readSource'[c] \notin Armed
  BY DEF LoginInvariant, FailedLogin
<1> QED
  BY <1>1, <1>2, <1>3, QuietWork

LEMMA CloseAllInv ==
  ASSUME SessionInv, NEW c \in Conn, LoginInvariant(c), queue[c] # <<>>,
         queue[c][1] # "purge", CloseAll(c),
         UNCHANGED <<client, resources, connectionVars, mainQueue, history>>
  PROVE  LoginInvariant(c)'
<1>0. TypeOK
  BY DEF SessionInv
<1>1. UNCHANGED <<client, session, openedLate, mainQueue, alive>>
  BY DEF resources, connectionVars, history
<1>2. CASE CloseAgain(c)
  BY <1>1, <1>2, QuietTaskInv, QuietTaskLists DEF CloseAgain, tunnelVars
<1>3. CASE FirstClose(c, <<"purge", "disconnect">>)
  <2>1. readSource'[c] \notin Armed /\ isClosing'[c] /\ listening'[c] = {}
    BY <1>0, <1>3 DEF FirstClose, ReleaseChannels, EndTunnels, TypeOK,
      ConnTypeOK, Armed
  <2>2. Finish(c, <<"purge", "disconnect">>)
    BY <1>3 DEF FirstClose
  <2> QED
    BY <1>1, <2>1, <2>2, QuietTaskInv, QuietTaskLists
<1> QED
  BY <1>2, <1>3 DEF CloseAll

LEMMA PurgeTaskInv ==
  ASSUME SessionInv, NEW c \in Conn, LoginInvariant(c), UNCHANGED clientVars,
         Purge(c)
  PROVE  LoginInvariant(c)'
<1>1. TypeOK
  BY DEF SessionInv
<1>2. /\ queue[c] # <<>> /\ Finish(c, <<>>) /\ purged'[c] /\ alive'[c] = {}
      /\ UNCHANGED <<client, session, openedLate, mainQueue, listening,
                    readSource, isClosing>>
  BY <1>1 DEF Purge, Running, TypeOK, ConnTypeOK, clientVars, resources,
    tunnelVars
<1> QED
  BY <1>2, QuietTaskInv, QuietTaskLists

(* The disconnect of a purge finds everything disconnected, and the one of *)
(* a failed login finds nothing opened.                                    *)
LEMMA DisconnectTaskInv ==
  ASSUME SessionInv, NEW c \in Conn, LoginInvariant(c), UNCHANGED clientVars,
         Disconnect(c)
  PROVE  LoginInvariant(c)'
<1>1. TypeOK /\ ConnInv(c)
  BY DEF SessionInv
<1>2. /\ queue[c] # <<>> /\ queue[c][1] = "disconnect"
      /\ 1 \in 1..Len(queue[c])
  BY <1>1 DEF Disconnect, Running, TypeOK, ConnTypeOK
<1>3. /\ Finish(c, <<>>) /\ eventNotify(c, <<"DISCONNECTED">>)
      /\ UNCHANGED <<client, openedLate, alive, listening, readSource,
                    isClosing>>
  BY DEF Disconnect, clientVars, connectionVars, tunnelVars
<1>4. CASE purged[c]
  <2>1. alive[c] = {} /\ isClosing[c]
    BY <1>1, <1>4 DEF ConnInv, PurgedForGood
  <2>2. LoggingIn(c) => ~Opened(c)'
    BY <1>2, <1>3, QuietTaskLists, NotOpening DEF LoginInvariant, OpenedAfterLogin
  <2>3. AliveConnected(c)' /\ ClosedSource(c)'
    BY <1>3, <2>1 DEF LoginInvariant, AliveConnected, ClosedSource
  <2> QED
    BY <1>2, <1>3, <2>1, <2>2, <2>3, QuietTaskLists, HandedLists, QuietWork
<1>5. CASE ~purged[c]
  <2>1. Login(c, 1)
    BY <1>2, <1>5 DEF Login, OfPurge
  <2>2. /\ ~Opened(c)
        /\ client[c] \notin {"idle", "asked"}
        /\ \A j \in 1..Len(mainQueue) : ~Mismatch(c, j)
        /\ \A i \in 1..Len(queue[c]) : Login(c, i) => i = 1
    BY <1>2, <2>1 DEF LoginInvariant, OneLogin, OpenedAfterLogin, LoggingIn
  <2>3. \A i \in 1..Len(queue'[c]) : ~Login(c, i)'
    <3> SUFFICES ASSUME NEW i \in 1..Len(queue'[c]), Login(c, i)'
                 PROVE  FALSE
      OBVIOUS
    <3>1. i + 1 \in 1..Len(queue[c]) /\ Login(c, i + 1)
      BY <1>1, <1>2, <1>3, QuietTaskLists, QuietFinish DEF TypeOK, ConnTypeOK
    <3>2. i + 1 = 1
      BY <2>2, <3>1
    <3>3. i >= 1
      BY <1>1 DEF TypeOK, ConnTypeOK
    <3> QED
      BY <3>2, <3>3
  <2>4. \A i \in 1..Len(mainQueue') : ~Mismatch(c, i)'
    BY <1>1, <1>3, <2>2, HandedLists, PlainEvents DEF TypeOK, ConnTypeOK, Event
  <2>5. ~LoggingIn(c)' /\ OneLogin(c)'
    BY <1>3, <2>2, <2>3, <2>4 DEF LoggingIn, OneLogin
  <2>6. alive'[c] = {} /\ readSource'[c] \notin Armed
    BY <1>3, <2>2 DEF Opened
  <2> QED
    BY <2>5, <2>6 DEF LoginInvariant, OpenedAfterLogin, AliveConnected,
      ClosedSource, FailedLogin
<1> QED
  BY <1>4, <1>5

LEMMA DroppedTaskInv ==
  ASSUME SessionInv, NEW c \in Conn, LoginInvariant(c), UNCHANGED clientVars,
         NEW task \in SourceTask, NEW isCancelled, Dropped(c, task, isCancelled)
  PROVE  LoginInvariant(c)'
<1>1. TypeOK
  BY DEF SessionInv
<1>2. /\ queue[c] # <<>> /\ queue[c][1] # "purge" /\ Finish(c, <<>>)
      /\ UNCHANGED <<client, session, openedLate, mainQueue, alive, listening,
                    readSource, isClosing>>
  BY <1>1 DEF Dropped, Running, TypeOK, ConnTypeOK, clientVars, resources,
    tunnelVars, connectionVars, history, SourceTask
<1> QED
  BY <1>2, QuietTaskInv, QuietTaskLists

(* A task that is only run on what the login has opened. *)
LEMMA OpenedTaskInv ==
  ASSUME SessionInv, NEW c \in Conn, LoginInvariant(c), UNCHANGED clientVars,
         queue[c] # <<>>, queue[c][1] # "purge", Opened(c),
         NEW tasks \in QuietLists, Finish(c, tasks),
         UNCHANGED mainQueue \/ \E codes \in PlainCodes : eventNotify(c, codes),
         UNCHANGED <<resources, readSource, isClosing, history>>,
         alive'[c] \subseteq alive[c] \/ session[c] = "connected"
  PROVE  LoginInvariant(c)'
<1>1. ~LoggingIn(c)
  BY DEF LoginInvariant, OpenedAfterLogin
<1>2. AliveConnected(c)' /\ ClosedSource(c)'
  BY DEF LoginInvariant, AliveConnected, ClosedSource, resources, history
<1>3. session'[c] = "disconnected" /\ ~isClosing'[c] =>
        readSource'[c] \notin Armed
  BY DEF LoginInvariant, FailedLogin, resources
<1> QED
  BY <1>1, <1>2, <1>3, QuietWork DEF clientVars

LEMMA ServeGrows ==
  ASSUME TypeOK, NEW c \in Conn, NEW accepts \in BOOLEAN, Serve(c, accepts)
  PROVE  /\ alive'[c] \subseteq alive[c] \/ accepts
         /\ UNCHANGED mainQueue \/ eventNotify(c, <<"ERROR">>)
<1> QED
  BY DEF Serve, Pump, StillAlive, TypeOK, ConnTypeOK

LEMMA TerminalTaskInv ==
  ASSUME SessionInv, NEW c \in Conn, LoginInvariant(c), UNCHANGED clientVars,
         NewTerminalDataAvailable(c)
  PROVE  LoginInvariant(c)'
<1>1. TypeOK
  BY DEF SessionInv
<1>2. CASE Dropped(c, "terminalSource", readSource[c] # "terminal")
  BY <1>2, DroppedTaskInv DEF SourceTask
<1>3. CASE /\ \/ Running(c, "newTerminalDataAvailable")
              \/ Running(c, "terminalSource") /\ readSource[c] = "terminal"
           /\ TerminalLost(c) \/ TerminalServed(c) \/ TerminalFailed(c)
           /\ UNCHANGED <<resources, history>>
  <2>1. queue[c] # <<>> /\ queue[c][1] # "purge"
    BY <1>1, <1>3 DEF Running, TypeOK, ConnTypeOK
  <2>2. Opened(c)
    <3>1. CASE Running(c, "newTerminalDataAvailable")
      <4>1. 1 \in 1..Len(queue[c]) /\ queue[c][1] = "newTerminalDataAvailable"
        BY <1>1, <3>1 DEF Running, TypeOK, ConnTypeOK
      <4> QED
        BY <4>1 DEF Opened, Data
    <3> QED
      BY <1>3, <3>1 DEF Opened, Armed
  <2>3. CASE TerminalLost(c)
    BY <1>3, <2>1, <2>3, CloseAllInv DEF TerminalLost, clientVars
  <2>4. CASE TerminalServed(c)
    <3>1. PICK tasks \in QuietLists : Finish(c, tasks)
      BY <2>4, QuietTaskLists DEF TerminalServed
    <3>2. UNCHANGED mainQueue \/ \E codes \in PlainCodes : eventNotify(c, codes)
      BY <1>1, <2>4, ServeGrows, HandedLists DEF TerminalServed
    <3>3. session[c] = "connected" /\ UNCHANGED <<readSource, isClosing>>
      BY <2>4 DEF TerminalServed
    <3> QED
      BY <1>3, <2>1, <2>2, <3>1, <3>2, <3>3, OpenedTaskInv
  <2>5. CASE TerminalFailed(c)
    <3>1. Finish(c, <<"closeAllChannels">>)
      BY <2>5 DEF TerminalFailed
    <3>2. UNCHANGED mainQueue \/ \E codes \in PlainCodes : eventNotify(c, codes)
      BY <2>5, HandedLists DEF TerminalFailed
    <3>3. session[c] = "connected" /\ UNCHANGED <<readSource, isClosing>>
      BY <2>5 DEF TerminalFailed
    <3> QED
      BY <1>3, <2>1, <2>2, <3>1, <3>2, <3>3, QuietTaskLists, OpenedTaskInv
  <2> QED
    BY <1>3, <2>3, <2>4, <2>5
<1> QED
  BY <1>2, <1>3 DEF NewTerminalDataAvailable

LEMMA SshTaskInv ==
  ASSUME SessionInv, NEW c \in Conn, LoginInvariant(c), UNCHANGED clientVars,
         NewSshDataAvailable(c)
  PROVE  LoginInvariant(c)'
<1>1. TypeOK
  BY DEF SessionInv
<1>2. CASE Dropped(c, "tunnelSource", readSource[c] # "tunnel")
  BY <1>2, DroppedTaskInv DEF SourceTask
<1>3. CASE /\ \/ Running(c, "newSshDataAvailable")
              \/ Running(c, "tunnelSource") /\ readSource[c] = "tunnel"
           /\ Serve(c, reverseTunnels[c] # {} /\ session[c] = "connected")
           /\ Finish(c, <<>>) \/ Finish(c, <<"newSshDataAvailable">>)
           /\ UNCHANGED <<resources, readSource, isClosing, history>>
  <2>1. queue[c] # <<>> /\ queue[c][1] # "purge"
    BY <1>1, <1>3 DEF Running, TypeOK, ConnTypeOK
  <2>2. Opened(c)
    <3>1. CASE Running(c, "newSshDataAvailable")
      <4>1. 1 \in 1..Len(queue[c]) /\ queue[c][1] = "newSshDataAvailable"
        BY <1>1, <3>1 DEF Running, TypeOK, ConnTypeOK
      <4> QED
        BY <4>1 DEF Opened, Data
    <3> QED
      BY <1>3, <3>1 DEF Opened, Armed
  <2>3. /\ alive'[c] \subseteq alive[c] \/ session[c] = "connected"
        /\ UNCHANGED mainQueue \/ \E codes \in PlainCodes : eventNotify(c, codes)
    BY <1>1, <1>3, ServeGrows, HandedLists
  <2>4. PICK tasks \in QuietLists : Finish(c, tasks)
    BY <1>3, QuietTaskLists
  <2> QED
    BY <1>3, <2>1, <2>2, <2>3, <2>4, OpenedTaskInv
<1> QED
  BY <1>2, <1>3 DEF NewSshDataAvailable

LEMMA LocalTaskInv ==
  ASSUME SessionInv, NEW c \in Conn, LoginInvariant(c), UNCHANGED clientVars,
         NewTunnelConnection(c) \/ NewLocalDataAvailable(c)
  PROVE  LoginInvariant(c)'
<1>1. TypeOK
  BY DEF SessionInv
<1>2. CASE \E task \in SourceTask : \E isCancelled : Dropped(c, task, isCancelled)
  BY <1>2, DroppedTaskInv
<1>3. CASE \/ NewTunnelConnection(c) /\ Running(c, "listenSource")
             /\ listening[c] # {}
           \/ NewLocalDataAvailable(c) /\ Running(c, "localSource")
             /\ alive[c] # {}
  <2>1. queue[c] # <<>> /\ queue[c][1] # "purge" /\ Opened(c)
    BY <1>1, <1>3 DEF Running, TypeOK, ConnTypeOK, Opened
  <2>2. /\ Finish(c, <<>>)
        /\ UNCHANGED <<resources, readSource, isClosing, history>>
        /\ alive'[c] \subseteq alive[c] \/ session[c] = "connected"
        /\ UNCHANGED mainQueue \/ \E codes \in PlainCodes : eventNotify(c, codes)
    BY <1>1, <1>3, HandedLists DEF NewTunnelConnection, NewLocalDataAvailable,
      Dropped, connectionVars, TypeOK, ConnTypeOK
  <2> QED
    BY <2>1, <2>2, QuietTaskLists, OpenedTaskInv
<1> QED
  BY <1>2, <1>3 DEF NewTunnelConnection, NewLocalDataAvailable, SourceTask

LEMMA WorkLoginInv ==
  ASSUME SessionInv, NEW c \in Conn, LoginInvariant(c), UNCHANGED clientVars,
         Work(c)
  PROVE  LoginInvariant(c)'
<1>1. CASE CloseAllChannels(c)
  <2>1. queue[c] # <<>> /\ queue[c][1] # "purge"
    BY <1>1 DEF CloseAllChannels, Running, SessionInv, TypeOK, ConnTypeOK
  <2> QED
    BY <1>1, <2>1, CloseAllInv DEF CloseAllChannels, clientVars
<1> QED
  BY <1>1, LoginTaskInv, OpenTaskInv, PurgeTaskInv, DisconnectTaskInv,
    TerminalTaskInv, SshTaskInv, LocalTaskInv DEF Work

----------------------------------------------------------------------------
(* What others do to a connection: its sources, its client, the main queue *)
(* and the other connections.                                              *)

LEMMA DispatchMoves ==
  ASSUME queue \in [Conn -> Seq(Task)], NEW c \in Conn, NEW task \in Task,
         Dispatch(c, task), UNCHANGED purged
  PROVE  /\ \A i \in 1..Len(queue[c]) : Login(c, i)' => Login(c, i)
         /\ task \notin LoginTask \cup {"disconnect"} =>
              \A i \in 1..Len(queue'[c]) :
                Login(c, i)' => i + 0 \in 1..Len(queue[c]) /\ Login(c, i + 0)
         /\ Len(queue'[c]) = Len(queue[c]) + 1 /\ Len(queue[c]) \in Nat
<1> DEFINE n == Len(queue[c])
<1>1. /\ n \in Nat /\ Len(queue'[c]) = n + 1
      /\ \A i \in 1..n : queue'[c][i] = queue[c][i]
      /\ queue'[c][n + 1] = task
  BY DispatchAt
<1> HIDE DEF n
<1>2. ASSUME NEW i \in 1..n, Login(c, i)'
      PROVE  Login(c, i)
  <2>1. i = 1 \/ i - 1 \in 1..n
    BY <1>1
  <2> QED
    BY <1>1, <1>2, <2>1 DEF Login, OfPurge, n
<1>3. ASSUME task \notin LoginTask \cup {"disconnect"},
             NEW i \in 1..(n + 1), Login(c, i)'
      PROVE  i \in 1..n
  <2>1. i # n + 1
    BY <1>1, <1>3 DEF Login
  <2> QED
    BY <1>1, <2>1
<1>4. \A i \in 1..(n + 1) : i + 0 = i
  BY <1>1
<1> QED
  BY <1>1, <1>2, <1>3, <1>4 DEF n

LEMMA DispatchOpens ==
  ASSUME queue \in [Conn -> Seq(Task)], NEW c \in Conn, NEW task \in Task,
         Dispatch(c, task),
         task \notin {"newTerminalDataAvailable", "newSshDataAvailable"},
         UNCHANGED <<alive, listening, readSource>>, ~Opened(c)
  PROVE  ~Opened(c)'
<1> DEFINE n == Len(queue[c])
<1>1. /\ n \in Nat /\ Len(queue'[c]) = n + 1
      /\ \A i \in 1..n : queue'[c][i] = queue[c][i]
      /\ queue'[c][n + 1] = task
  BY DispatchAt
<1>2. \A i \in 1..n : ~Data(c, i)
  BY DEF Opened
<1> HIDE DEF n
<1>3. ASSUME NEW i \in 1..(n + 1), Data(c, i)'
      PROVE  FALSE
  <2>1. i # n + 1
    BY <1>1, <1>3 DEF Data
  <2> QED
    BY <1>1, <1>2, <1>3, <2>1 DEF Data, n
<1> QED
  BY <1>1, <1>3 DEF Opened

LEMMA MismatchKept ==
  ASSUME NEW c \in Conn, UNCHANGED mainQueue
  PROVE  \A i \in 1..Len(mainQueue') :
           Mismatch(c, i)' =>
             i + 0 \in 1..Len(mainQueue) /\ Mismatch(c, i + 0)
<1>1. \A i \in 1..Len(mainQueue') : i + 0 = i
  OBVIOUS
<1> QED
  BY <1>1 DEF Mismatch

LEMMA SourceLoginInv ==
  ASSUME SessionInv, NEW c \in Conn, LoginInvariant(c), UNCHANGED clientVars,
         SourceFires(c)
  PROVE  LoginInvariant(c)'
<1>1. PICK task \in SourceTask : Dispatch(c, task)
  BY DEF SourceFires
<1>2. /\ queue \in [Conn -> Seq(Task)]
      /\ task \in Task
      /\ task \notin LoginTask \cup {"disconnect", "newTerminalDataAvailable",
                                   "newSshDataAvailable"}
  BY DEF SessionInv, TypeOK, ConnTypeOK, SourceTask, Task, LoginTask
<1>3. UNCHANGED <<client, session, isClosing, readSource, listening, alive,
                  openedLate, purged, mainQueue>>
  BY DEF SourceFires, clientVars, resources, tunnelVars, connectionVars, history
<1>4. \A i \in 1..Len(queue'[c]) :
        Login(c, i)' => i + 0 \in 1..Len(queue[c]) /\ Login(c, i + 0)
  BY <1>1, <1>2, <1>3, DispatchMoves
<1>5. LoggingIn(c) => ~Opened(c)'
  BY <1>1, <1>2, <1>3, DispatchOpens DEF LoginInvariant, OpenedAfterLogin
<1>6. AliveConnected(c)' /\ ClosedSource(c)'
  BY <1>3 DEF LoginInvariant, AliveConnected, ClosedSource
<1>7. session'[c] = "disconnected" /\ ~isClosing'[c] =>
        ~LoggingIn(c) /\ readSource'[c] \notin Armed
  BY <1>3 DEF LoginInvariant, FailedLogin
<1>8. 0 \in {0, 1}
  OBVIOUS
<1> QED
  BY <1>3, <1>4, <1>5, <1>6, <1>7, <1>8, MismatchKept, KeptInvariant

(* The client begins the login, or answers the question it was asked.      *)
LEMMA BeginLoginInv ==
  ASSUME SessionInv, NEW c \in Conn, LoginInvariant(c), Start(c) \/ Resume(c)
  PROVE  LoginInvariant(c)'
<1>0. TypeOK
  BY DEF SessionInv
<1>1. /\ client[c] \in {"idle", "asked"} /\ client'[c] = "started"
      /\ UNCHANGED <<session, isClosing, readSource, listening, alive,
                    openedLate, purged, mainQueue>>
  BY <1>0 DEF Start, Resume, idleConnection, resources, tunnelVars,
    connectionVars, history, TypeOK
<1>2. PICK task \in {"connect", "authenticateUser"} : Dispatch(c, task)
  BY DEF Start, Resume, startConnection, resume
<1>3. queue \in [Conn -> Seq(Task)] /\ task \in Task
  BY <1>0 DEF TypeOK, ConnTypeOK, Task
<1>4. /\ LoggingIn(c) /\ ~Opened(c)
      /\ \A i \in 1..Len(queue[c]) : ~Login(c, i)
      /\ \A j \in 1..Len(mainQueue) : ~Mismatch(c, j)
  BY <1>1 DEF LoginInvariant, OneLogin, OpenedAfterLogin, LoggingIn
<1>5. /\ \A i \in 1..Len(queue[c]) : ~Login(c, i)'
      /\ Len(queue'[c]) = Len(queue[c]) + 1 /\ Len(queue[c]) \in Nat
  BY <1>1, <1>2, <1>3, <1>4, DispatchMoves
<1>6. \A i \in 1..Len(queue'[c]) : Login(c, i)' => i = Len(queue[c]) + 1
  BY <1>5
<1>7. \A j \in 1..Len(mainQueue') : ~Mismatch(c, j)'
  BY <1>1, <1>4 DEF Mismatch
<1>8. OneLogin(c)'
  BY <1>1, <1>6, <1>7 DEF OneLogin
<1>9. ~Opened(c)'
  BY <1>1, <1>2, <1>3, <1>4, DispatchOpens
<1>10. AliveConnected(c)' /\ ClosedSource(c)' /\ FailedLogin(c)'
  BY <1>1, <1>4 DEF LoginInvariant, AliveConnected, ClosedSource, FailedLogin
<1> QED
  BY <1>8, <1>9, <1>10 DEF LoginInvariant, OpenedAfterLogin

LEMMA EndLoginInv ==
  ASSUME SessionInv, NEW c \in Conn, LoginInvariant(c), End(c)
  PROVE  LoginInvariant(c)'
<1>0. TypeOK
  BY DEF SessionInv
<1>1. /\ client'[c] = "ended"
      /\ UNCHANGED <<session, isClosing, readSource, listening, alive,
                    openedLate, purged, mainQueue>>
  BY <1>0 DEF End, idleConnection, resources, tunnelVars,
    connectionVars, history, TypeOK
<1>2. /\ Dispatch(c, "closeAllChannels") /\ "closeAllChannels" \in Task
      /\ "closeAllChannels" \notin LoginTask \cup {"disconnect"}
      /\ queue \in [Conn -> Seq(Task)]
  BY <1>0 DEF End, endConnection, Task, LoginTask, TypeOK, ConnTypeOK
<1>3. \A i \in 1..Len(queue'[c]) :
        Login(c, i)' => i + 0 \in 1..Len(queue[c]) /\ Login(c, i + 0)
  BY <1>1, <1>2, DispatchMoves
<1>4. LoggingIn(c) => ~Opened(c)'
  BY <1>1, <1>2, DispatchOpens DEF LoginInvariant, OpenedAfterLogin
<1>5. AliveConnected(c)' /\ ClosedSource(c)'
  BY <1>1 DEF LoginInvariant, AliveConnected, ClosedSource
<1>6. session'[c] = "disconnected" /\ ~isClosing'[c] =>
        ~LoggingIn(c) /\ readSource'[c] \notin Armed
  BY <1>1 DEF LoginInvariant, FailedLogin
<1>7. 0 \in {0, 1}
  OBVIOUS
<1> QED
  BY <1>1, <1>3, <1>4, <1>5, <1>6, <1>7, MismatchKept, KeptInvariant

(* The question reaches the client, or another event does. *)
LEMMA DeliverLoginInv ==
  ASSUME SessionInv, NEW c \in Conn, LoginInvariant(c), Deliver
  PROVE  LoginInvariant(c)'
<1>0. TypeOK /\ mainQueue \in Seq(Event)
  BY DEF SessionInv, TypeOK, ConnTypeOK, Event
<1>1. UNCHANGED <<queue, session, isClosing, readSource, listening, alive,
                  openedLate, purged>>
  BY DEF Deliver, idleConnection, resources, tunnelVars, connectionVars, history
<1>2. /\ 1 \in 1..Len(mainQueue)
      /\ client' = [client EXCEPT ![mainQueue[1].caller] = Told(@, mainQueue[1].code)]
      /\ mainQueue[1] \in Event
      /\ \A i \in 1..Len(mainQueue') :
           i + 1 \in 1..Len(mainQueue) /\ mainQueue'[i] = mainQueue[i + 1]
  <2>1. ASSUME NEW S, NEW s \in Seq(S), s # <<>>
        PROVE  /\ 1 \in 1..Len(s) /\ Head(s) = s[1] /\ s[1] \in S
               /\ \A i \in 1..Len(Tail(s)) :
                    i + 1 \in 1..Len(s) /\ Tail(s)[i] = s[i + 1]
    BY <2>1
  <2>2. mainQueue # <<>> /\ mainQueue' = Tail(mainQueue)
    BY DEF Deliver
  <2> QED
    BY <1>0, <2>1, <2>2 DEF Deliver
<1>3. \A i \in 1..Len(queue'[c]) :
        Login(c, i)' => i + 0 \in 1..Len(queue[c]) /\ Login(c, i + 0)
  <2>1. \A i \in 1..Len(queue[c]) : i + 0 = i
    OBVIOUS
  <2> QED
    BY <1>1, <2>1 DEF Login, OfPurge
<1>4. \A i \in 1..Len(mainQueue') :
        Mismatch(c, i)' => i + 1 \in 1..Len(mainQueue) /\ Mismatch(c, i + 1)
  BY <1>2 DEF Mismatch
<1>5. LoggingIn(c) => ~Opened(c)'
  BY <1>1 DEF LoginInvariant, OpenedAfterLogin, Opened, Data
<1>6. AliveConnected(c)' /\ ClosedSource(c)'
  BY <1>1 DEF LoginInvariant, AliveConnected, ClosedSource
<1>7. session'[c] = "disconnected" /\ ~isClosing'[c] =>
        ~LoggingIn(c) /\ readSource'[c] \notin Armed
  BY <1>1 DEF LoginInvariant, FailedLogin
<1>8. CASE client'[c] \in {"idle", "asked"} => client[c] \in {"idle", "asked"}
  <2>1. 0 \in {0, 1} /\ 1 \in {0, 1}
    OBVIOUS
  <2> QED
    BY <1>3, <1>4, <1>5, <1>6, <1>7, <1>8, <2>1, KeptInvariant
<1>9. CASE client[c] \notin {"idle", "asked"} /\ client'[c] \in {"idle", "asked"}
  <2>1. Mismatch(c, 1)
    BY <1>0, <1>2, <1>9 DEF Mismatch, Told, Event, TypeOK
  <2>2. /\ LoggingIn(c) /\ ~Opened(c)
        /\ \A i \in 1..Len(queue[c]) : ~Login(c, i)
        /\ \A j \in 1..Len(mainQueue) : Mismatch(c, j) => j = 1
    BY <1>2, <2>1 DEF LoginInvariant, OneLogin, OpenedAfterLogin, LoggingIn
  <2>3. \A i \in 1..Len(queue'[c]) : ~Login(c, i)'
    BY <1>1, <2>2 DEF Login, OfPurge
  <2>4. \A j \in 1..Len(mainQueue') : ~Mismatch(c, j)'
    <3> SUFFICES ASSUME NEW j \in 1..Len(mainQueue'), Mismatch(c, j)'
                 PROVE  FALSE
      OBVIOUS
    <3>1. j + 1 = 1
      BY <1>4, <2>2
    <3>2. j >= 1
      OBVIOUS
    <3> QED
      BY <3>1, <3>2
  <2>5. OneLogin(c)'
    BY <2>3, <2>4 DEF OneLogin
  <2>6. FailedLogin(c)' /\ OpenedAfterLogin(c)'
    BY <1>1, <1>5, <1>7, <2>2 DEF FailedLogin, OpenedAfterLogin
  <2> QED
    BY <1>6, <2>5, <2>6 DEF LoginInvariant
<1> QED
  BY <1>8, <1>9

(* What the task of another connection leaves as it is. *)
LEMMA WorkTells ==
  ASSUME TypeOK, NEW d \in Conn, Work(d)
  PROVE  UNCHANGED mainQueue \/ \E codes \in Seq(Code) : eventNotify(d, codes)
<1>1. /\ <<"ERROR">> \in Seq(Code) /\ <<"CONNECTED">> \in Seq(Code)
      /\ <<"DISCONNECTED">> \in Seq(Code) /\ <<"MISMATCH">> \in Seq(Code)
      /\ <<"SERVER_ERROR">> \in Seq(Code)
      /\ <<"ERROR", "CONNECTED">> \in Seq(Code)
      /\ <<"ERROR", "ERROR">> \in Seq(Code)
  BY CodeLists DEF Code
<1>2. CASE Connect(d) \/ AuthenticateServer(d) \/ AuthenticateUser(d)
  BY <1>1, <1>2 DEF Connect, ConnectRefused, HandshakeFailed, ConnectAccepted,
    AuthenticateServer, AuthenticateUser, KeyUnusable, UserRefused, UserAccepted
<1>3. CASE OpenTerminalChannel(d) \/ OpenTunnelChannels(d)
  BY <1>1, <1>3 DEF OpenTerminalChannel, OpenTerminalOutOfMemory,
    OpenTerminalRefused, OpenTerminalAccepted, OpenTunnelChannels, OpenTunnels
<1>4. CASE CloseAllChannels(d) \/ Purge(d) \/ Disconnect(d)
  BY <1>1, <1>4 DEF CloseAllChannels, Purge, Disconnect
<1>5. CASE NewTerminalDataAvailable(d)
  BY <1>1, <1>5, ServeGrows DEF NewTerminalDataAvailable, Dropped, TerminalLost,
    TerminalServed, TerminalFailed
<1>6. CASE NewSshDataAvailable(d)
  BY <1>1, <1>6, ServeGrows DEF NewSshDataAvailable, Dropped
<1>7. CASE NewTunnelConnection(d) \/ NewLocalDataAvailable(d)
  BY <1>1, <1>7 DEF NewTunnelConnection, NewLocalDataAvailable, Dropped
<1> QED
  BY <1>2, <1>3, <1>4, <1>5, <1>6, <1>7 DEF Work

LEMMA OtherLate ==
  ASSUME TypeOK, NEW c \in Conn, NEW d \in Conn \ {c}, Work(d)
  PROVE  openedLate'[c] = openedLate[c]
<1> QED
  BY DEF TypeOK, ConnTypeOK, Work, history, Connect, AuthenticateServer,
    AuthenticateUser, OpenTerminalChannel, OpenTerminalOutOfMemory,
    OpenTerminalRefused, OpenTerminalAccepted, OpenTunnelChannels,
    CloseAllChannels, Purge, Disconnect, NewTerminalDataAvailable,
    NewSshDataAvailable, NewTunnelConnection, NewLocalDataAvailable, Dropped

LEMMA UntouchedLogin ==
  ASSUME SessionInv, NEW c \in Conn, LoginInvariant(c), Untouched(c),
         openedLate'[c] = openedLate[c], client'[c] = client[c],
         NEW d \in Conn,
         \/ UNCHANGED mainQueue
         \/ d # c /\ \E codes \in Seq(Code) : eventNotify(d, codes)
  PROVE  LoginInvariant(c)'
<1>1. mainQueue \in Seq(Event) /\ \A i \in 1..Len(queue[c]) : i + 0 = i
  BY DEF SessionInv, TypeOK, ConnTypeOK, Event
<1>2. \A i \in 1..Len(mainQueue') :
        Mismatch(c, i)' => i + 0 \in 1..Len(mainQueue) /\ Mismatch(c, i + 0)
  BY <1>1, PlainEvents
<1>3. \A i \in 1..Len(queue'[c]) :
        Login(c, i)' => i + 0 \in 1..Len(queue[c]) /\ Login(c, i + 0)
  BY <1>1 DEF Login, OfPurge, Untouched, Undisturbed
<1>4. LoggingIn(c) => ~Opened(c)'
  BY DEF LoginInvariant, OpenedAfterLogin, Opened, Data, Untouched, Undisturbed
<1>5. AliveConnected(c)' /\ ClosedSource(c)'
  BY DEF LoginInvariant, AliveConnected, ClosedSource, Untouched, Undisturbed
<1>6. session'[c] = "disconnected" /\ ~isClosing'[c] =>
        ~LoggingIn(c) /\ readSource'[c] \notin Armed
  BY DEF LoginInvariant, FailedLogin, Untouched, Undisturbed
<1>7. 0 \in {0, 1}
  OBVIOUS
<1> QED
  BY <1>2, <1>3, <1>4, <1>5, <1>6, <1>7, KeptInvariant

----------------------------------------------------------------------------
(* The invariant holds of every reachable state.                           *)

LEMMA LoginsInit == Init => LoginsInv
<1> SUFFICES ASSUME Init PROVE LoginsInv
  OBVIOUS
<1>1. ASSUME NEW c \in Conn
      PROVE  LoginInvariant(c)
  <2>1. /\ queue[c] = <<>> /\ Len(queue[c]) = 0
        /\ mainQueue = <<>> /\ Len(mainQueue) = 0
    BY DEF Init, ConnInit
  <2>2. OneLogin(c) /\ ~Opened(c)
    BY <2>1 DEF OneLogin, Opened, Armed, Init, ConnInit
  <2> QED
    BY <2>2 DEF LoginInvariant, OpenedAfterLogin, AliveConnected, ClosedSource,
      FailedLogin, Init, ConnInit
<1> QED
  BY <1>1, SessionInvInit DEF LoginsInv

LEMMA LoginsStep ==
  ASSUME LoginsInv, [Next]_vars
  PROVE  LoginsInv'
<1>1. SessionInv /\ TypeOK /\ \A c \in Conn : LoginInvariant(c)
  BY DEF LoginsInv, SessionInv
<1>2. SessionInv'
  BY <1>1, SessionInvStep
<1>3. ASSUME NEW c \in Conn
      PROVE  LoginInvariant(c)'
  <2>1. ASSUME NEW d \in Conn, Start(d) \/ Resume(d) \/ End(d)
        PROVE  LoginInvariant(c)'
    <3>1. CASE d = c
      BY <1>1, <2>1, <3>1, BeginLoginInv, EndLoginInv
    <3>2. CASE d # c
      <4>1. Untouched(c)
        BY <1>1, <2>1, <3>2, OtherCall
      <4>2. UNCHANGED <<mainQueue, openedLate>> /\ client'[c] = client[c]
        BY <1>1, <2>1, <3>2 DEF Start, Resume, End, idleConnection, history,
          TypeOK
      <4> QED
        BY <1>1, <4>1, <4>2, UntouchedLogin
    <3> QED
      BY <3>1, <3>2
  <2>2. ASSUME NEW d \in Conn, Work(d), UNCHANGED clientVars
        PROVE  LoginInvariant(c)'
    <3>1. CASE d = c
      BY <1>1, <2>2, <3>1, WorkLoginInv
    <3>2. CASE d # c
      <4>1. Untouched(c)
        BY <1>1, <2>2, <3>2, OtherWork
      <4>2. openedLate'[c] = openedLate[c] /\ client'[c] = client[c]
        BY <1>1, <2>2, <3>2, OtherLate DEF clientVars
      <4>3. UNCHANGED mainQueue \/ \E codes \in Seq(Code) : eventNotify(d, codes)
        BY <1>1, <2>2, WorkTells
      <4> QED
        BY <1>1, <3>2, <4>1, <4>2, <4>3, UntouchedLogin
    <3> QED
      BY <3>1, <3>2
  <2>3. ASSUME NEW d \in Conn, SourceFires(d), UNCHANGED clientVars
        PROVE  LoginInvariant(c)'
    <3>1. CASE d = c
      BY <1>1, <2>3, <3>1, SourceLoginInv
    <3>2. CASE d # c
      BY <1>1, <2>3, <3>2, OtherWork, UntouchedLogin
        DEF SourceFires, history, clientVars
    <3> QED
      BY <3>1, <3>2
  <2>4. CASE Deliver
    BY <1>1, <2>4, DeliverLoginInv
  <2>5. CASE UNCHANGED vars
    BY <1>1, <2>5, UntouchedLogin DEF vars, connVars, clientVars, Untouched, Undisturbed
  <2> QED
    BY <2>1, <2>2, <2>3, <2>4, <2>5 DEF Next
<1> QED
  BY <1>2, <1>3 DEF LoginsInv

(* A connection has one login under way at most, nothing is opened while   *)
(* it is, and what is alive is on a session that is connected              *)
(* (SshConnection.m:1180).                                                 *)
THEOREM LoginsInvariant == Spec => []LoginsInv
<1> QED
  BY LoginsInit, LoginsStep, PTL DEF Spec

(* No disconnect frees the session under a tunnel connection: the one of a *)
(* purge comes behind it, the one of a failed login before there are any.  *)
THEOREM TunnelsNeedSessionSafe == Spec => []TunnelsNeedSession
<1>1. LoginsInv => TunnelsNeedSession
  BY DEF LoginsInv, LoginInvariant, AliveConnected, TunnelsNeedSession
<1> QED
  BY <1>1, LoginsInvariant, PTL

(* A source that is armed on a closed session was armed behind             *)
(* closeAllChannels; no other order of tasks and calls leaves one.         *)
THEOREM LateOpenSafe == Spec => []OnlyLateOpenLeaksSource
<1>1. LoginsInv => OnlyLateOpenLeaksSource
  BY DEF LoginsInv, LoginInvariant, ClosedSource, FailedLogin, SessionInv,
    TypeOK, ConnTypeOK, OnlyLateOpenLeaksSource
<1> QED
  BY <1>1, LoginsInvariant, PTL
=============================================================================
