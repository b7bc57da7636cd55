-------------------------- MODULE SessionLifecycle --------------------------
(***************************************************************************)
(* What a connection object promises to the code that owns it, without     *)
(* queues, tasks or tunnels: it is opened once, takes hold of the network  *)
(* at most once and only while open, and when it says that it is closed it *)
(* has let go and stays closed.                                            *)
(***************************************************************************)
CONSTANT Conn

VARIABLES
  phase,  \* "idle", "open" or "closed", as the owner can tell
  holds   \* TRUE while a descriptor or an ssh session is held

vars == <<phase, holds>>

TypeOK ==
  /\ phase \in [Conn -> {"idle", "open", "closed"}]
  /\ holds \in [Conn -> BOOLEAN]

Init ==
  /\ phase = [c \in Conn |-> "idle"]
  /\ holds = [c \in Conn |-> FALSE]

Open(c) ==
  /\ phase[c] = "idle"
  /\ phase' = [phase EXCEPT ![c] = "open"]
  /\ UNCHANGED holds

Acquire(c) ==
  /\ phase[c] = "open" /\ ~holds[c]
  /\ holds' = [holds EXCEPT ![c] = TRUE]
  /\ UNCHANGED phase

Close(c) ==
  /\ phase[c] = "open"
  /\ phase' = [phase EXCEPT ![c] = "closed"]
  /\ holds' = [holds EXCEPT ![c] = FALSE]

Next == \E c \in Conn : Open(c) \/ Acquire(c) \/ Close(c)

Spec == Init /\ [][Next]_vars
=============================================================================
