---------------------------- MODULE SshTerminal ----------------------------
(***************************************************************************)
(* The controller (SshTerminal/SshTerminal.m): it owns one connection at a *)
(* time, and a second one, the jump host, when the first is reached        *)
(* through the jump host's forward tunnel.  All of it runs on the user     *)
(* interface thread, and it learns of its connections only through         *)
(* callbackFromConnection.  It is driven by a client, here the sample      *)
(* application: see SshTerminalClient.                                     *)
(***************************************************************************)
EXTENDS SshConnection

CONSTANTS
  nil,         \* no object
  Connection,  \* the SshConnection object that each call of connect allocates
  Jump         \* the one it allocates for the jump host, if there is one

ASSUME TerminalAssumption ==
  /\ nil \notin Conn
  /\ Connection \in Seq(Conn) /\ Jump \in Seq(Conn)
  /\ Len(Connection) = Len(Jump)

(* Every connect allocates objects of its own.                             *)
ASSUME AllocationAssumption ==
  \A i, j \in 1..Len(Connection) :
    /\ Connection[i] # Jump[j]
    /\ i # j => Connection[i] # Connection[j] /\ Jump[i] # Jump[j]

VARIABLES
  state,              \* sshTerminal...
  connection,
  jump,
  paused,             \* weak pointer: the connection that waits for an answer
  isConnectionClosed,
  isJumpClosed,
  socketHost,         \* the jump host whose tunnel a connection is sent to
  sessions            \* how many times connect allocated its objects

closedFlags == <<isConnectionClosed, isJumpClosed>>
objects == <<connection, jump>>
controlVars == <<state, objects, paused, closedFlags, socketHost, sessions>>

(* What the work of the connections themselves decides. *)
connState == <<resources, readSource, channel, isClosing, tunnelVars,
               connectionVars, history>>

ControlTypeOK ==
  /\ ConnTypeOK
  /\ state \in {"Disconnected", "Connected", "Paused"}
  /\ connection \in Conn \cup {nil}
  /\ jump \in Conn \cup {nil}
  /\ paused \in Conn \cup {nil}
  /\ isConnectionClosed \in BOOLEAN
  /\ isJumpClosed \in BOOLEAN
  /\ socketHost \in [Conn -> Conn \cup {nil}]
  /\ sessions \in 0..Len(Connection)

ControlInit ==
  /\ ConnInit
  /\ state = "Disconnected"
  /\ connection = nil
  /\ jump = nil
  /\ paused = nil
  /\ isConnectionClosed = FALSE
  /\ isJumpClosed = FALSE
  /\ socketHost = [c \in Conn |-> nil]
  /\ sessions = 0

(* A message to nil does nothing. *)
Send(object, task) ==
  IF object = nil THEN UNCHANGED queue ELSE Dispatch(object, task)

----------------------------------------------------------------------------
(* What the client calls.                                                  *)

(* Each of them returns at once in the wrong state. *)
Ignored == UNCHANGED <<controlVars, queue>>

connect(useJump) ==
  \/ state # "Disconnected" /\ Ignored
  \/ /\ state = "Disconnected"
     /\ state' = "Connected"
     /\ sessions' = sessions + 1
     /\ connection' = Connection[sessions']
     /\ jump' = IF useJump THEN Jump[sessions'] ELSE nil
     /\ Dispatch(IF useJump THEN jump' ELSE connection', "connect")
     /\ UNCHANGED <<paused, closedFlags, socketHost>>

(* resume and resumeAndRememberServer; only a resumed connection, not a    *)
(* resumed jump host, takes the terminal out of its paused state.          *)
resumePaused ==
  \/ state # "Paused" /\ Ignored
  \/ /\ state = "Paused"
     /\ IF paused \in {jump, connection} THEN Send(paused, "authenticateUser")
                                         ELSE UNCHANGED queue
     /\ state' = IF paused # jump /\ paused = connection THEN "Connected"
                                                         ELSE state
     /\ paused' = nil
     /\ UNCHANGED <<objects, closedFlags, socketHost, sessions>>

(* The variant ends the jump host along with the connection. *)
disconnectBoth ==
  \/ state = "Disconnected" /\ Ignored
  \/ /\ state # "Disconnected"
     /\ queue' = [c \in Conn |-> IF c \in {jump, connection}
                     THEN Append(queue[c], "closeAllChannels") ELSE queue[c]]
     /\ state' = "Disconnected"
     /\ paused' = IF state = "Paused" THEN nil ELSE paused
     /\ UNCHANGED <<objects, closedFlags, socketHost, sessions>>

(* A paused jump host is ended before the connection behind it. *)
disconnect ==
  \/ state = "Disconnected" /\ Ignored
  \/ /\ state # "Disconnected"
     /\ LET asked == IF state = "Paused" /\ paused = jump THEN jump ELSE nil
            ended == {asked, connection} \ {nil}
        IN queue' = [c \in Conn |-> IF c \in ended
                       THEN Append(queue[c], "closeAllChannels") ELSE queue[c]]
     /\ state' = "Disconnected"
     /\ paused' = IF state = "Paused" THEN nil ELSE paused
     /\ UNCHANGED <<objects, closedFlags, socketHost, sessions>>

----------------------------------------------------------------------------
(* callbackFromConnection: one event from the main queue.  Each disjunct   *)
(* names in "told" the delegate method it calls, or "nothing".             *)

(* The port of the jump host's first tunnel is known once it listens. *)
jumpPortKnown == jump # nil /\ forwardTunnels[jump] # {} /\ listening[jump] # {}

OnConnected(caller, told) ==
  /\ \/ caller = connection /\ told = "connected" /\ UNCHANGED <<queue, socketHost>>
     \/ /\ caller # connection /\ told = "nothing" /\ ~jumpPortKnown
        /\ Send(jump, "closeAllChannels")
        /\ UNCHANGED socketHost
     \/ /\ caller # connection /\ told = "nothing" /\ jumpPortKnown
        /\ Send(connection, "connect")
        /\ socketHost' = IF connection = nil THEN socketHost
                         ELSE [socketHost EXCEPT ![connection] = jump]
  /\ UNCHANGED <<state, objects, paused, closedFlags, sessions>>

(* The variant does not get ready for the next session. *)
signalDisconnectedOnly ==
  /\ state' = "Disconnected"
  /\ connection' = nil
  /\ jump' = nil
  /\ UNCHANGED <<queue, closedFlags>>

signalDisconnected ==
  /\ state' = "Disconnected"
  /\ connection' = nil
  /\ jump' = nil
  /\ isConnectionClosed' = FALSE
  /\ isJumpClosed' = FALSE
  /\ UNCHANGED queue

(* A variant that does not wait for the other of the two. *)
OnDisconnectedAtOnce(caller, told) ==
  /\ told = "disconnected" /\ signalDisconnected
  /\ UNCHANGED <<paused, socketHost, sessions>>

(* A variant that ends the jump host without noting why. *)
OnDisconnectedUnnoted(caller, told) ==
  /\ \/ /\ jump = nil \/ isJumpClosed \/ isConnectionClosed
        /\ told = "disconnected" /\ signalDisconnected
     \/ /\ jump # nil /\ ~isJumpClosed /\ ~isConnectionClosed
        /\ told = "nothing"
        /\ Send(IF caller = connection THEN jump ELSE connection,
                "closeAllChannels")
        /\ UNCHANGED <<state, objects, closedFlags>>
  /\ UNCHANGED <<paused, socketHost, sessions>>

(* Whoever is not the connection is taken for the jump host. *)
OnDisconnected(caller, told) ==
  /\ \/ /\ \/ caller = connection /\ (jump = nil \/ isJumpClosed)
           \/ caller # connection /\ isConnectionClosed
        /\ told = "disconnected"
        /\ signalDisconnected
     \/ /\ caller = connection /\ jump # nil /\ ~isJumpClosed
        /\ told = "nothing"
        /\ isConnectionClosed' = TRUE
        /\ Send(jump, "closeAllChannels")
        /\ UNCHANGED <<state, objects, isJumpClosed>>
     \/ /\ caller # connection /\ ~isConnectionClosed
        /\ told = "nothing"
        /\ isJumpClosed' = TRUE
        /\ Send(connection, "closeAllChannels")
        /\ UNCHANGED <<state, objects, isConnectionClosed>>
  /\ UNCHANGED <<paused, socketHost, sessions>>

OnMismatch(caller, told) ==
  /\ told = "serverMismatch"
  /\ state' = "Paused"
  /\ paused' = caller
  /\ UNCHANGED <<queue, objects, closedFlags, socketHost, sessions>>

OnError(told) == told = "error" /\ UNCHANGED <<queue, controlVars>>

callbackFromConnection(told) ==
  /\ mainQueue # <<>>
  /\ LET caller == Head(mainQueue).caller
         code == Head(mainQueue).code
     IN \/ code = "CONNECTED" /\ OnConnected(caller, told)
        \/ code = "DISCONNECTED" /\ OnDisconnected(caller, told)
        \/ code = "MISMATCH" /\ OnMismatch(caller, told)
        \/ code \in {"SERVER_ERROR", "ERROR"} /\ OnError(told)
  /\ mainQueue' = Tail(mainQueue)
  /\ UNCHANGED connState

----------------------------------------------------------------------------
(* The local end of the jump host's tunnel answers only while it listens.  *)
ThroughJump(c) ==
  socketHost[c] # nil /\ session[c] = "new" /\ session'[c] = "connected"
    => listening[socketHost[c]] # {}

ConnectionStep(c) ==
  /\ Work(c) \/ SourceFires(c)
  /\ ThroughJump(c)
  /\ UNCHANGED controlVars

=============================================================================
