--------------------------- MODULE SshConnection ---------------------------
(***************************************************************************)
(* One SSH connection object (SshTerminal/SshConnection.m).                *)
(*                                                                         *)
(* Every connection owns a serial dispatch queue.  The methods of the      *)
(* second half of SshConnection.m run on it, one at a time and in the      *)
(* order they were dispatched; they are the tasks of this module.  What a  *)
(* connection tells its delegate goes through mainQueue, the queue of the  *)
(* user interface thread.  Dispatch sources (the ssh socket, the listening *)
(* sockets of the tunnels, the local sockets of the tunnel connections)    *)
(* append a task when they become readable.                                *)
(*                                                                         *)
(* The variables are functions of the connection so that several of them   *)
(* (a jump host and the connection going through it, or a connection and   *)
(* its successor) live in one model.                                       *)
(***************************************************************************)
EXTENDS Naturals, Sequences, FiniteSets

CONSTANTS
  Conn,        \* the SshConnection objects
  Tunnel,      \* the SshTunnel objects, forward and reverse
  TunnelConn,  \* identities for SshTunnelConnection objects
  ForwardOf,   \* forward tunnels each connection was configured with
  ReverseOf,   \* reverse tunnels each connection was configured with
  X11Conn,     \* the connections with x11Forwarding set
  MaxQueue,    \* bound: a source adds no task to a longer queue
  MaxEvents    \* bound: no source fires, and no channel opened by the server
               \* fails, while that many events are pending

ASSUME ConnAssumption ==
  /\ ForwardOf \in [Conn -> SUBSET Tunnel]
  /\ ReverseOf \in [Conn -> SUBSET Tunnel]
  /\ X11Conn \subseteq Conn
  /\ MaxQueue \in Nat
  /\ MaxEvents \in Nat

VARIABLES
  queue,             \* the private serial queue: tasks not yet started
  session,           \* what ssh_is_connected and ssh_disconnect see
  socketFd,          \* TRUE when socketFd >= 0
  readSource,        \* the ssh socket's dispatch source; "null" is NULL
  channel,           \* the terminal's channel; "stale": freed by ssh_disconnect
  isClosing,
  forwardTunnels,    \* the array of forward tunnels
  listening,         \* those of them with an armed listen source
  reverseTunnels,    \* the array of reverse tunnels
  tunnelConnections, \* the array of tunnel connections
  alive,             \* those of them that still hold their fd and channel
  mainQueue,         \* events on their way to the delegate
  purged,            \* history: the purge task has run
  reported,          \* history: DISCONNECTED has been notified
  openedLate         \* history: a channel was opened after closeAllChannels

connVars == <<queue, session, socketFd, readSource, channel, isClosing,
              forwardTunnels, listening, reverseTunnels, tunnelConnections,
              alive, mainQueue, purged, reported, openedLate>>

resources == <<session, socketFd>>
tunnelVars == <<forwardTunnels, listening, reverseTunnels>>
connectionVars == <<tunnelConnections, alive>>
history == <<purged, reported, openedLate>>

(* "purge" is the block at the end of closeAllChannels; a ...Source task   *)
(* is a source's event handler, dropped if its source was cancelled        *)
(* meanwhile, where the task of the same method name was dispatched by the *)
(* method itself and runs whatever happened since.                         *)
Task == {"connect", "authenticateServer", "authenticateUser",
         "openTerminalChannel", "openTunnelChannels",
         "terminalSource", "newTerminalDataAvailable",
         "tunnelSource", "newSshDataAvailable",
         "listenSource", "localSource",
         "closeAllChannels", "purge", "disconnect"}

(* ERROR stands for all the codes the controller only forwards to its      *)
(* delegate, MISMATCH for the three that ask the user, SERVER_ERROR for    *)
(* the two authenticateServer calls fatal.                                 *)
Code == {"CONNECTED", "DISCONNECTED", "MISMATCH", "SERVER_ERROR", "ERROR"}

Armed == {"terminal", "tunnel"}

ConnTypeOK ==
  /\ queue \in [Conn -> Seq(Task)]
  /\ session \in [Conn -> {"new", "connected", "disconnected"}]
  /\ socketFd \in [Conn -> BOOLEAN]
  /\ readSource \in [Conn -> {"null", "suspended"} \cup Armed]
  /\ channel \in [Conn -> {"null", "open", "stale"}]
  /\ isClosing \in [Conn -> BOOLEAN]
  /\ forwardTunnels \in [Conn -> SUBSET Tunnel]
  /\ listening \in [Conn -> SUBSET Tunnel]
  /\ reverseTunnels \in [Conn -> SUBSET Tunnel]
  /\ tunnelConnections \in [Conn -> SUBSET TunnelConn]
  /\ alive \in [Conn -> SUBSET TunnelConn]
  /\ mainQueue \in Seq([caller : Conn, code : Code])
  /\ purged \in [Conn -> BOOLEAN]
  /\ reported \in [Conn -> BOOLEAN]
  /\ openedLate \in [Conn -> BOOLEAN]

ConnInit ==
  /\ queue = [c \in Conn |-> <<>>]
  /\ session = [c \in Conn |-> "new"]
  /\ socketFd = [c \in Conn |-> FALSE]
  /\ readSource = [c \in Conn |-> "null"]
  /\ channel = [c \in Conn |-> "null"]
  /\ isClosing = [c \in Conn |-> FALSE]
  /\ forwardTunnels = ForwardOf
  /\ listening = [c \in Conn |-> {}]
  /\ reverseTunnels = ReverseOf
  /\ tunnelConnections = [c \in Conn |-> {}]
  /\ alive = [c \in Conn |-> {}]
  /\ mainQueue = <<>>
  /\ purged = [c \in Conn |-> FALSE]
  /\ reported = [c \in Conn |-> FALSE]
  /\ openedLate = [c \in Conn |-> FALSE]

----------------------------------------------------------------------------
(* The queues.                                                             *)

Running(c, task) == queue[c] # <<>> /\ Head(queue[c]) = task

(* The running task ends, having dispatched tasks behind it. *)
Finish(c, tasks) == queue' = [queue EXCEPT ![c] = Tail(@) \o tasks]

Events(c, codes) == [i \in 1..Len(codes) |-> [caller |-> c, code |-> codes[i]]]

eventNotify(c, codes) == mainQueue' = mainQueue \o Events(c, codes)

(* dispatch_async from the user interface thread. *)
Dispatch(c, task) == queue' = [queue EXCEPT ![c] = Append(@, task)]

startConnection(c) == Dispatch(c, "connect")

(* The variant dispatches a method that does not exist. *)
resumeUnknown(c) == Dispatch(c, "resume")

resume(c) == Dispatch(c, "authenticateUser")
endConnection(c) == Dispatch(c, "closeAllChannels")

----------------------------------------------------------------------------
(* Logging in.                                                             *)

(* The variant tries again behind the disconnect it has dispatched. *)
ConnectRefusedRetries(c) ==
  /\ socketFd' = [socketFd EXCEPT ![c] = FALSE]
  /\ Finish(c, <<"disconnect", "connect">>)
  /\ eventNotify(c, <<"ERROR">>)
  /\ UNCHANGED session

(* No address, no socket, bind or connect failed: no descriptor is kept. *)
ConnectRefused(c) ==
  /\ socketFd' = [socketFd EXCEPT ![c] = FALSE]
  /\ Finish(c, <<"disconnect">>)
  /\ eventNotify(c, <<"ERROR">>)
  /\ UNCHANGED session

(* The variant reports the failure and leaves it at that. *)
HandshakeFailedQuietly(c) ==
  /\ socketFd' = [socketFd EXCEPT ![c] = TRUE]
  /\ Finish(c, <<>>)
  /\ eventNotify(c, <<"ERROR">>)
  /\ UNCHANGED session

(* ssh_connect failed: the descriptor is left to disconnect. *)
HandshakeFailed(c) ==
  /\ socketFd' = [socketFd EXCEPT ![c] = TRUE]
  /\ Finish(c, <<"disconnect">>)
  /\ eventNotify(c, <<"ERROR">>)
  /\ UNCHANGED session

ConnectAccepted(c) ==
  /\ socketFd' = [socketFd EXCEPT ![c] = TRUE]
  /\ session' = [session EXCEPT ![c] = "connected"]
  /\ Finish(c, <<"authenticateServer">>)
  /\ UNCHANGED mainQueue

Connect(c) ==
  /\ Running(c, "connect")
  /\ ConnectRefused(c) \/ HandshakeFailed(c) \/ ConnectAccepted(c)
  /\ UNCHANGED <<readSource, channel, isClosing, tunnelVars, connectionVars,
                 history>>

(* ssh_is_server_known answers SSH_SERVER_ERROR on a session that is not   *)
(* connected.  Only the known server goes on by itself.                    *)
AuthenticateServer(c) ==
  /\ Running(c, "authenticateServer")
  /\ \/ /\ session[c] = "connected"
        /\ Finish(c, <<"authenticateUser">>)
        /\ UNCHANGED mainQueue
     \/ /\ session[c] = "connected"
        /\ Finish(c, <<>>)
        /\ eventNotify(c, <<"MISMATCH">>)
     \/ /\ Finish(c, <<>>)
        /\ eventNotify(c, <<"SERVER_ERROR">>)
  /\ UNCHANGED <<resources, readSource, channel, isClosing, tunnelVars,
                 connectionVars, history>>

(* The agent or its copy of the key cannot be allocated, or the key file   *)
(* is missing, unreadable or locked.                                       *)
KeyUnusable(c) ==
  /\ Finish(c, <<"closeAllChannels">>)
  /\ eventNotify(c, <<"ERROR">>)

(* The agent, the key or the password is refused, or the session is lost:  *)
(* disconnect, not closeAllChannels.                                       *)
UserRefused(c) ==
  /\ Finish(c, <<"disconnect">>)
  /\ eventNotify(c, <<"ERROR">>)

(* The tunnels decide between the two ways to go on. *)
UserAccepted(c) ==
  /\ session[c] = "connected"
  /\ Finish(c, IF forwardTunnels[c] \cup reverseTunnels[c] # {}
               THEN <<"openTunnelChannels">>
               ELSE <<"openTerminalChannel">>)
  /\ UNCHANGED mainQueue

AuthenticateUser(c) ==
  /\ Running(c, "authenticateUser")
  /\ KeyUnusable(c) \/ UserRefused(c) \/ UserAccepted(c)
  /\ UNCHANGED <<resources, readSource, channel, isClosing, tunnelVars,
                 connectionVars, history>>

(* A source or the channel could not be allocated; the read source may     *)
(* have been created, and stays suspended.                                 *)
OpenTerminalOutOfMemory(c) ==
  /\ \E s \in {"null", "suspended"} :
       readSource' = [readSource EXCEPT ![c] = s]
  /\ Finish(c, <<"disconnect">>)
  /\ eventNotify(c, <<"ERROR">>)
  /\ UNCHANGED <<channel, openedLate>>

(* The session, the pty, the agent, the shell or the pty size was refused, *)
(* the last three perhaps after X11 was.                                   *)
OpenTerminalRefused(c) ==
  /\ readSource' = [readSource EXCEPT ![c] = "suspended"]
  /\ channel' = [channel EXCEPT ![c] = "open"]
  /\ Finish(c, <<"closeAllChannels">>)
  /\ \/ eventNotify(c, <<"ERROR">>)
     \/ c \in X11Conn /\ eventNotify(c, <<"ERROR", "ERROR">>)
  /\ UNCHANGED openedLate

OpenTerminalAccepted(c) ==
  /\ session[c] = "connected"
  /\ readSource' = [readSource EXCEPT ![c] = "terminal"]
  /\ channel' = [channel EXCEPT ![c] = "open"]
  /\ Finish(c, <<>>)
  /\ \/ eventNotify(c, <<"CONNECTED">>)
     \/ c \in X11Conn /\ eventNotify(c, <<"ERROR", "CONNECTED">>)
  /\ openedLate' = [openedLate EXCEPT ![c] = @ \/ isClosing[c]]

OpenTerminalChannel(c) ==
  /\ Running(c, "openTerminalChannel")
  /\ \/ OpenTerminalOutOfMemory(c)
     \/ OpenTerminalRefused(c)
     \/ OpenTerminalAccepted(c)
  /\ UNCHANGED <<resources, isClosing, tunnelVars, connectionVars, purged,
                 reported>>

(* startListeningAndDispatchTo, on each forward tunnel: f are those that     *)
(* got a socket, its address and a source.                                 *)
Listen(c, f) ==
  /\ forwardTunnels' = [forwardTunnels EXCEPT ![c] = f]
  /\ listening' = [listening EXCEPT ![c] = f]

(* Tunnels that cannot listen are removed from their arrays; the errors of *)
(* one pass are notified once.  A forward tunnel stands for both addresses *)
(* of its host: one may fail, with an error, where the other listens.      *)
(* ssh_channel_listen_forward fails without a connected session, listening *)
(* on this side does not need one.                                         *)
OpenTunnels(c) ==
  \E f \in SUBSET forwardTunnels[c], r \in SUBSET reverseTunnels[c] :
    /\ session[c] = "connected" \/ r = {}
    /\ Listen(c, f)
    /\ reverseTunnels' = [reverseTunnels EXCEPT ![c] = r]
    /\ \/ /\ f = forwardTunnels[c] /\ r = reverseTunnels[c]
          /\ eventNotify(c, <<"CONNECTED">>)
       \/ /\ forwardTunnels[c] # {} \/ r # reverseTunnels[c]
          /\ eventNotify(c, <<"ERROR", "CONNECTED">>)

OpenTunnelChannels(c) ==
  /\ Running(c, "openTunnelChannels")
  /\ \/ /\ readSource' = [readSource EXCEPT ![c] = "null"]
        /\ Finish(c, <<"disconnect">>)
        /\ eventNotify(c, <<"ERROR">>)
        /\ UNCHANGED <<tunnelVars, openedLate>>
     \/ /\ readSource' = [readSource EXCEPT ![c] = "tunnel"]
        /\ Finish(c, <<>>)
        /\ OpenTunnels(c)
        /\ openedLate' = [openedLate EXCEPT ![c] = @ \/ isClosing[c]]
  /\ UNCHANGED <<resources, channel, isClosing, connectionVars, purged,
                 reported>>

----------------------------------------------------------------------------
(* Closing.                                                                *)

(* The tunnels stop listening and leave their arrays.  The variant leaves  *)
(* them in the arrays.                                                     *)
EndTunnelsKeepsArrays(c) ==
  /\ listening' = [listening EXCEPT ![c] = {}]
  /\ UNCHANGED <<forwardTunnels, reverseTunnels>>

EndTunnels(c) ==
  /\ listening' = [listening EXCEPT ![c] = {}]
  /\ forwardTunnels' = [forwardTunnels EXCEPT ![c] = {}]
  /\ reverseTunnels' = [reverseTunnels EXCEPT ![c] = {}]

(* The variant forgets to cancel the sources. *)
ReleaseChannelsKeepsSource(c) ==
  /\ channel' = [channel EXCEPT ![c] = "null"]
  /\ UNCHANGED readSource

ReleaseChannels(c) ==
  /\ channel' = [channel EXCEPT ![c] = "null"]
  /\ readSource' = [readSource EXCEPT ![c] = "null"]

FirstClose(c, tasks) ==
  /\ isClosing' = [isClosing EXCEPT ![c] = TRUE]
  /\ ReleaseChannels(c)
  /\ EndTunnels(c)
  /\ Finish(c, tasks)

CloseAgain(c) ==
  /\ isClosing[c]
  /\ Finish(c, <<>>)
  /\ UNCHANGED <<readSource, channel, isClosing, tunnelVars>>

(* Variants of CloseAll: without the isClosing test, with the two blocks   *)
(* dispatched in the other order, and without the disconnect.              *)
CloseAllRepeats(c) == FirstClose(c, <<"purge", "disconnect">>)

CloseAllSwapped(c) ==
  \/ CloseAgain(c)
  \/ ~isClosing[c] /\ FirstClose(c, <<"disconnect", "purge">>)

CloseAllStops(c) ==
  \/ CloseAgain(c)
  \/ ~isClosing[c] /\ FirstClose(c, <<"purge">>)

(* closeAllChannels as called by the running task. *)
CloseAll(c) ==
  \/ CloseAgain(c)
  \/ ~isClosing[c] /\ FirstClose(c, <<"purge", "disconnect">>)

CloseAllChannels(c) ==
  /\ Running(c, "closeAllChannels")
  /\ CloseAll(c)
  /\ UNCHANGED <<resources, connectionVars, mainQueue, history>>

Purge(c) ==
  /\ Running(c, "purge")
  /\ tunnelConnections' = [tunnelConnections EXCEPT ![c] = {}]
  /\ alive' = [alive EXCEPT ![c] = {}]
  /\ purged' = [purged EXCEPT ![c] = TRUE]
  /\ Finish(c, <<>>)
  /\ UNCHANGED <<resources, readSource, channel, isClosing, tunnelVars,
                 mainQueue, reported, openedLate>>

(* The variant closes the descriptor only with a connected session, which  *)
(* a failed handshake has not.                                             *)
CloseSocketIfConnected(c) ==
  socketFd' = [socketFd EXCEPT ![c] = @ /\ session[c] # "connected"]

CloseSocket(c) == socketFd' = [socketFd EXCEPT ![c] = FALSE]

(* ssh_disconnect frees the channels of the session with it. *)
Disconnect(c) ==
  /\ Running(c, "disconnect")
  /\ session' = [session EXCEPT
                   ![c] = IF @ = "connected" THEN "disconnected" ELSE @]
  /\ channel' = [channel EXCEPT
                   ![c] = IF @ = "open" /\ session[c] = "connected"
                          THEN "stale" ELSE @]
  /\ CloseSocket(c)
  /\ reported' = [reported EXCEPT ![c] = TRUE]
  /\ Finish(c, <<>>)
  /\ eventNotify(c, <<"DISCONNECTED">>)
  /\ UNCHANGED <<readSource, isClosing, tunnelVars, connectionVars, purged,
                 openedLate>>

----------------------------------------------------------------------------
(* Data.                                                                   *)

(* What transferRemoteDataToLocal leaves of the live tunnel connections:   *)
(* any of them may be found ended.                                         *)
StillAlive(c) == SUBSET alive[c]

(* connectionWithSocket gives the descriptor and the channel to a new      *)
(* object, which joins the array.                                          *)
OpenConnection(c) ==
  \E t \in TunnelConn \ tunnelConnections[c] :
    /\ tunnelConnections' = [tunnelConnections EXCEPT ![c] = @ \cup {t}]
    /\ alive' = [alive EXCEPT ![c] = @ \cup {t}]

(* One pass over tunnelConnections: those found dead, before or by this    *)
(* pass, leave the array.  opened is what the pass then adds to it.        *)
Pump(c, opened) ==
  \E still \in StillAlive(c) :
    /\ alive' = [alive EXCEPT ![c] = still \cup opened]
    /\ tunnelConnections' = [tunnelConnections EXCEPT ![c] = still \cup opened]

(* The pass, then at most one channel opened by the server: it gets a      *)
(* local peer, or none can be reached, which is reported.                  *)
Serve(c, accepts) ==
  \/ Pump(c, {}) /\ UNCHANGED mainQueue
  \/ accepts /\ Len(mainQueue) < MaxEvents
       /\ Pump(c, {}) /\ eventNotify(c, <<"ERROR">>)
  \/ accepts /\ UNCHANGED mainQueue
       /\ \E t \in TunnelConn \ tunnelConnections[c] : Pump(c, {t})

(* With ssh_channel_poll < 0: the channel is NULL, was freed, or the       *)
(* session reports an error or the end of the stream.                      *)
TerminalLost(c) ==
  /\ CloseAll(c)
  /\ UNCHANGED <<connectionVars, mainQueue>>

(* The X11 connections are served, if any; then end of file, more to read, *)
(* or neither.                                                             *)
TerminalServed(c) ==
  /\ channel[c] = "open" /\ session[c] = "connected"
  /\ \/ c \in X11Conn /\ Serve(c, TRUE)
     \/ c \notin X11Conn /\ UNCHANGED <<connectionVars, mainQueue>>
  /\ \E next \in {<<"closeAllChannels">>, <<"newTerminalDataAvailable">>, <<>>} :
       Finish(c, next)
  /\ UNCHANGED <<readSource, channel, isClosing, tunnelVars>>

(* No memory for the data or, with the X11 connections served already, no  *)
(* reply from the agent to a request.                                      *)
TerminalFailed(c) ==
  /\ channel[c] = "open" /\ session[c] = "connected"
  /\ Finish(c, <<"closeAllChannels">>)
  /\ \/ eventNotify(c, <<"ERROR">>) /\ UNCHANGED connectionVars
     \/ /\ c \in X11Conn
        /\ \/ eventNotify(c, <<"ERROR">>) /\ Pump(c, {})
           \/ eventNotify(c, <<"ERROR", "ERROR">>) /\ Pump(c, {})
           \/ /\ eventNotify(c, <<"ERROR">>)
              /\ \E t \in TunnelConn \ tunnelConnections[c] : Pump(c, {t})
  /\ UNCHANGED <<readSource, channel, isClosing, tunnelVars>>

(* A source's handler does not run once its source has been cancelled. *)
Dropped(c, task, isCancelled) ==
  /\ Running(c, task) /\ isCancelled
  /\ Finish(c, <<>>)
  /\ UNCHANGED <<resources, readSource, channel, isClosing, tunnelVars,
                 connectionVars, mainQueue, history>>

NewTerminalDataAvailable(c) ==
  \/ /\ \/ Running(c, "newTerminalDataAvailable")
        \/ Running(c, "terminalSource") /\ readSource[c] = "terminal"
     /\ TerminalLost(c) \/ TerminalServed(c) \/ TerminalFailed(c)
     /\ UNCHANGED <<resources, history>>
  \/ Dropped(c, "terminalSource", readSource[c] # "terminal")

(* An accepted channel whose port no reverse tunnel has is left alone, one *)
(* that has no local peer is reported; both leave the array as it is.      *)
NewSshDataAvailable(c) ==
  \/ /\ \/ Running(c, "newSshDataAvailable")
        \/ Running(c, "tunnelSource") /\ readSource[c] = "tunnel"
     /\ Serve(c, reverseTunnels[c] # {} /\ session[c] = "connected")
     /\ \/ Finish(c, <<>>)
        \/ session[c] = "connected" /\ Finish(c, <<"newSshDataAvailable">>)
     /\ UNCHANGED <<resources, readSource, channel, isClosing, tunnelVars,
                    history>>
  \/ Dropped(c, "tunnelSource", readSource[c] # "tunnel")

(* A connection to a forward tunnel's port; the accept, the channel or the *)
(* tunnel connection may fail, which is reported.                          *)
NewTunnelConnection(c) ==
  \/ /\ Running(c, "listenSource") /\ listening[c] # {}
     /\ Finish(c, <<>>)
     /\ \/ /\ session[c] = "connected"
           /\ OpenConnection(c)
           /\ UNCHANGED mainQueue
        \/ eventNotify(c, <<"ERROR">>) /\ UNCHANGED connectionVars
     /\ UNCHANGED <<resources, readSource, channel, isClosing, tunnelVars,
                    history>>
  \/ Dropped(c, "listenSource", listening[c] = {})

(* The local peer of a tunnel connection sent data or left.  A dead tunnel *)
(* connection stays in the array until the next pass over it.              *)
NewLocalDataAvailable(c) ==
  \/ /\ Running(c, "localSource") /\ alive[c] # {}
     /\ \/ UNCHANGED alive
        \/ \E t \in alive[c] : alive' = [alive EXCEPT ![c] = @ \ {t}]
     /\ Finish(c, <<>>)
     /\ UNCHANGED <<resources, readSource, channel, isClosing, tunnelVars,
                    tunnelConnections, mainQueue, history>>
  \/ Dropped(c, "localSource", alive[c] = {})

----------------------------------------------------------------------------
(* Dispatch sources.                                                       *)

(* A source has at most one handler pending.  A closed descriptor leaves   *)
(* its source armed and silent.                                            *)
Pending(c, task) == \E i \in 1..Len(queue[c]) : queue[c][i] = task

Readable(c, task) ==
  \/ task = "terminalSource" /\ readSource[c] = "terminal" /\ socketFd[c]
  \/ task = "tunnelSource" /\ readSource[c] = "tunnel" /\ socketFd[c]
  \/ task = "listenSource" /\ listening[c] # {}
  \/ task = "localSource" /\ alive[c] # {}

SourceTask == {"terminalSource", "tunnelSource", "listenSource", "localSource"}

SourceFires(c) ==
  /\ Len(queue[c]) < MaxQueue /\ Len(mainQueue) < MaxEvents
  /\ \E task \in SourceTask :
       Readable(c, task) /\ ~Pending(c, task) /\ Dispatch(c, task)
  /\ UNCHANGED <<resources, readSource, channel, isClosing, tunnelVars,
                 connectionVars, mainQueue, history>>

(* The private queue executes its next task. *)
Work(c) ==
  \/ Connect(c) \/ AuthenticateServer(c) \/ AuthenticateUser(c)
  \/ OpenTerminalChannel(c) \/ OpenTunnelChannels(c)
  \/ CloseAllChannels(c) \/ Purge(c) \/ Disconnect(c)
  \/ NewTerminalDataAvailable(c) \/ NewSshDataAvailable(c)
  \/ NewTunnelConnection(c) \/ NewLocalDataAvailable(c)

----------------------------------------------------------------------------
(* Properties of every connection, whoever drives it.                      *)

(* What closeAllChannels promises with its purge block: once the block has *)
(* run, no handler or re-dispatched task ever adds a tunnel connection     *)
(* that nobody would disconnect.                                           *)
PurgeIsFinal == \A c \in Conn : purged[c] => tunnelConnections[c] = {}

(* disconnect never frees the channels of a session while a tunnel         *)
(* connection still uses one: the purge always comes first.                *)
TunnelsNeedSession == \A c \in Conn : alive[c] # {} => session[c] = "connected"

(* Once closing, a connection listens on no port again, although the       *)
(* login tasks queued behind closeAllChannels still run.                   *)
NoListenerOnceClosing ==
  \A c \in Conn : isClosing[c] =>
    listening[c] = {} /\ forwardTunnels[c] = {} /\ reverseTunnels[c] = {}
=============================================================================
