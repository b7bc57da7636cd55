----------------------------- MODULE SshSession -----------------------------
(***************************************************************************)
(* Connections and a client that drives each of them the way the header    *)
(* of the terminal asks for: start once, answer a server mismatch by       *)
(* resuming or ending, end at any time and as often as it likes.  The      *)
(* client sees only the events of mainQueue.                               *)
(***************************************************************************)
EXTENDS SshConnection

CONSTANT MaxEnds   \* bound: calls of endConnection per connection

ASSUME SessionAssumption == MaxEnds \in Nat \ {0}

VARIABLES
  client,   \* what the client is doing with each connection
  ends      \* how often it called endConnection

clientVars == <<client, ends>>
vars == <<connVars, clientVars>>

TypeOK ==
  /\ ConnTypeOK
  /\ client \in [Conn -> {"idle", "started", "asked", "told", "ended"}]
  /\ ends \in [Conn -> 0..MaxEnds]

Init ==
  /\ ConnInit
  /\ client = [c \in Conn |-> "idle"]
  /\ ends = [c \in Conn |-> 0]

idleConnection == <<resources, readSource, channel, isClosing, tunnelVars,
                    connectionVars, history>>

Start(c) ==
  /\ client[c] = "idle"
  /\ startConnection(c)
  /\ client' = [client EXCEPT ![c] = "started"]
  /\ UNCHANGED <<idleConnection, mainQueue, ends>>

Resume(c) ==
  /\ client[c] = "asked"
  /\ resume(c)
  /\ client' = [client EXCEPT ![c] = "started"]
  /\ UNCHANGED <<idleConnection, mainQueue, ends>>

End(c) ==
  /\ client[c] # "idle" /\ ends[c] < MaxEnds
  /\ endConnection(c)
  /\ client' = [client EXCEPT ![c] = "ended"]
  /\ ends' = [ends EXCEPT ![c] = @ + 1]
  /\ UNCHANGED <<idleConnection, mainQueue>>

(* What the client makes of an event. *)
Told(state, code) ==
  CASE code = "MISMATCH" -> "asked"
    [] code \in {"CONNECTED", "SERVER_ERROR"} /\ state = "started" -> "told"
    [] OTHER -> state

(* The main queue hands its next event to the delegate. *)
Deliver ==
  /\ mainQueue # <<>>
  /\ mainQueue' = Tail(mainQueue)
  /\ client' = [client EXCEPT ![Head(mainQueue).caller] =
                  Told(@, Head(mainQueue).code)]
  /\ UNCHANGED <<idleConnection, queue, ends>>

Next ==
  \/ \E c \in Conn :
       \/ Start(c) \/ Resume(c) \/ End(c)
       \/ (Work(c) \/ SourceFires(c)) /\ UNCHANGED clientVars
  \/ Deliver

Spec == Init /\ [][Next]_vars

(* GCD runs the tasks of a queue one after the other; a task ends because  *)
(* the library calls in it do.  Nothing is assumed of the client, of the   *)
(* server or of the sources.                                               *)
FairSpec ==
  /\ Spec
  /\ \A c \in Conn : WF_vars(Work(c) /\ UNCHANGED clientVars)
  /\ WF_vars(Deliver)

----------------------------------------------------------------------------
(* The delegate is told DISCONNECTED only when the descriptor and the ssh  *)
(* session are released, and nothing still queued opens them again.        *)
ReleasedWhenReported ==
  \A c \in Conn : reported[c] => ~socketFd[c] /\ session[c] # "connected"

(* A dispatch source (and with it the keep alive timer) left armed on a    *)
(* closed session is always one that openTerminalChannel or                *)
(* openTunnelChannels armed behind closeAllChannels: the login tasks do    *)
(* not look at isClosing.  No other order of tasks leaves one behind.      *)
OnlyLateOpenLeaksSource ==
  \A c \in Conn :
    session[c] = "disconnected" /\ readSource[c] \in Armed => openedLate[c]

PurgeAt(c, i) == i \in 1..Len(queue[c]) /\ queue[c][i] = "purge"

PurgeOnce(c) ==
  \A i \in 1..Len(queue[c]) :
    PurgeAt(c, i) =>
      /\ isClosing[c] /\ ~purged[c]
      /\ i < Len(queue[c]) /\ queue[c][i + 1] = "disconnect"
      /\ \A j \in 1..Len(queue[c]) : PurgeAt(c, j) => i = j

(* closeAllChannels takes effect once: however often the client, the       *)
(* server's end of file and the failures ask for it, one purge at most is  *)
(* queued or done, and a disconnect always follows it at once.             *)
OnePurge == \A c \in Conn : PurgeOnce(c)

(* Seen from outside, a connection is a SessionLifecycle: no interleaving  *)
(* of failures, client calls and data makes it take the network again      *)
(* after it has said DISCONNECTED.                                         *)
Lifecycle == INSTANCE SessionLifecycle WITH
  phase <- [c \in Conn |-> IF reported[c] THEN "closed"
                           ELSE IF client[c] # "idle" THEN "open" ELSE "idle"],
  holds <- [c \in Conn |-> socketFd[c] \/ session[c] = "connected"]

ImplementsLifecycle == Lifecycle!Spec

(* A client that ends a connection is told DISCONNECTED, whatever tasks,   *)
(* data and failures are queued at that moment.                            *)
EndIsReported == \A c \in Conn : client[c] = "ended" ~> reported[c]

(* A login always comes to an event the client can act on: no failure path *)
(* forgets both to go on and to disconnect.                                *)
LoginIsAnswered == \A c \in Conn :
  client[c] = "started" ~> client[c] # "started" \/ reported[c]
=============================================================================
