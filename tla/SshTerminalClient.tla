-------------------------- MODULE SshTerminalClient --------------------------
(***************************************************************************)
(* The sample application (SshTerminalClient/AppDelegate.m): two buttons,  *)
(* Connect (or Resume, after a server mismatch) and Disconnect, enabled    *)
(* and disabled by the events of the terminal.                             *)
(***************************************************************************)
EXTENDS SshTerminal

CONSTANT
  Patient   \* TRUE for a user who disconnects only a terminal that is logged
            \* in or that asks about the server, not one that is logging in;
            \* the buttons allow both, as Disconnect stays enabled with Resume

ASSUME ClientAssumption == Patient \in BOOLEAN

VARIABLES
  connectEnabled,
  disconnectEnabled,
  resumeTitle,      \* the Connect button says Resume
  loggedIn,         \* history: "connected" was the last thing told
  asking,           \* history: "disconnect" was asked for and not yet answered
  fatal             \* history: this session was told SERVER_ERROR

buttons == <<connectEnabled, disconnectEnabled, resumeTitle>>
userVars == <<loggedIn, asking, fatal>>
vars == <<connVars, controlVars, buttons, userVars>>

TypeOK ==
  /\ ControlTypeOK
  /\ connectEnabled \in BOOLEAN
  /\ disconnectEnabled \in BOOLEAN
  /\ resumeTitle \in BOOLEAN
  /\ loggedIn \in BOOLEAN /\ asking \in BOOLEAN /\ fatal \in BOOLEAN

Init ==
  /\ ControlInit
  /\ connectEnabled = TRUE
  /\ disconnectEnabled = FALSE
  /\ resumeTitle = FALSE
  /\ loggedIn = FALSE /\ asking = FALSE /\ fatal = FALSE

PressConnect ==
  /\ connectEnabled /\ ~resumeTitle
  /\ sessions < Len(Connection)
  /\ \E useJump \in BOOLEAN : connect(useJump)
  /\ connectEnabled' = FALSE
  /\ loggedIn' = FALSE /\ fatal' = FALSE
  /\ UNCHANGED <<connState, mainQueue, disconnectEnabled, resumeTitle, asking>>

PressResume ==
  /\ connectEnabled /\ resumeTitle
  /\ resumePaused
  /\ connectEnabled' = FALSE
  /\ resumeTitle' = FALSE
  /\ UNCHANGED <<connState, mainQueue, disconnectEnabled, userVars>>

PressDisconnect ==
  /\ disconnectEnabled
  /\ Patient => loggedIn \/ resumeTitle
  /\ disconnect
  /\ connectEnabled' = FALSE
  /\ resumeTitle' = FALSE
  /\ asking' = TRUE
  /\ loggedIn' = FALSE
  /\ UNCHANGED <<connState, mainQueue, disconnectEnabled, fatal>>

Deliver ==
  \E told \in {"connected", "disconnected", "serverMismatch", "error", "nothing"} :
    /\ callbackFromConnection(told)
    /\ connectEnabled' =
         (connectEnabled \/ told \in {"disconnected", "serverMismatch"})
    /\ disconnectEnabled' =
         (IF told = "disconnected" THEN FALSE
          ELSE disconnectEnabled \/ told \in {"connected", "serverMismatch"})
    /\ resumeTitle' = (resumeTitle \/ told = "serverMismatch")
    /\ loggedIn' = (told # "disconnected" /\ (loggedIn \/ told = "connected"))
    /\ asking' = (asking /\ told # "disconnected")
    /\ fatal' = (fatal \/ Head(mainQueue).code = "SERVER_ERROR")

Next ==
  \/ PressConnect \/ PressResume \/ PressDisconnect \/ Deliver
  \/ \E c \in Conn : ConnectionStep(c) /\ UNCHANGED <<buttons, userVars>>

Spec == Init /\ [][Next]_vars

(* The queues are served; the user need not press anything. *)
FairSpec ==
  /\ Spec
  /\ \A c \in Conn :
       WF_vars(Work(c) /\ ThroughJump(c)
                 /\ UNCHANGED <<controlVars, buttons, userVars>>)
  /\ WF_vars(Deliver)

----------------------------------------------------------------------------
(* "disconnected" means what it says: when the terminal has let go of its  *)
(* connection and of its jump host, both have released their descriptor    *)
(* and their session, whichever of the two went down first, as long as the *)
(* user is Patient.                                                        *)
LetGoMeansReleased ==
  \A c \in Conn : c \notin {connection, jump} =>
    ~socketFd[c] /\ session[c] # "connected"

(* No event of an earlier session is still on its way when the next one    *)
(* starts: the controller would take its sender for the new jump host.     *)
(* Only a Patient user can rely on it.                                     *)
NoStrayEvent ==
  \A i \in 1..Len(mainQueue) : mainQueue[i].caller \in {connection, jump}

(* "Get ready for next session": between sessions both flags are clear, as *)
(* long as the user is Patient: an end that is asked for while the login   *)
(* still goes on may be reported twice, and the second report sets         *)
(* isJumpClosed for the next session (SshTerminal.m:451).  Without Patient *)
(* the comment quoted is wrong.                                            *)
ReadyForNextSession ==
  /\ TypeOK
  /\ connection = nil => ~isConnectionClosed /\ ~isJumpClosed

(* The jump host is taken down after the connection that runs through it,  *)
(* as long as the user is Patient.                                         *)
TunnelOutlivesTraffic ==
  \A c \in Conn : session[c] = "connected" /\ socketHost[c] # nil =>
    session[socketHost[c]] = "connected"

(* A user who asks to disconnect is told "disconnected", and the           *)
(* application never ends with both buttons disabled, but for the two      *)
(* errors of authenticateServer after which nothing happens any more.      *)
UserIsAnswered ==
  /\ asking ~> ~asking
  /\ ~connectEnabled ~> connectEnabled \/ disconnectEnabled \/ fatal
=============================================================================
