----------------------------- MODULE TelnetLine -----------------------------
(***************************************************************************)
(* A telnet connection without its bytes: the tasks of its private queue,  *)
(* what each leaves behind it there, and the events it notifies.  Steps is *)
(* the step relation of one connection, a record; TelnetConnection is      *)
(* shown to keep to it, and TelnetTerminal is built on it.                 *)
(***************************************************************************)
EXTENDS Naturals, Sequences

CONSTANTS
  MaxFailures,   \* the most failures of one read: of its answers, or its own
  MaxQueue,      \* bound: the user types nothing behind a longer queue,
  MaxEvents      \* bound: ... nor when its connection notified so many events

ASSUME LineAssumption ==
  MaxFailures \in Nat \ {0} /\ MaxQueue \in Nat /\ MaxEvents \in Nat

LineTask == {"connect", "source", "write", "writePassword", "disconnect"}
Code == {"CONNECTED", "DISCONNECTED"}

LineType == [queue : Seq(LineTask), fd : BOOLEAN, source : BOOLEAN, events : Seq(Code)]

Allocated == [queue |-> <<>>, fd |-> FALSE, source |-> FALSE, events |-> <<>>]

Has(s, code) == \E i \in DOMAIN s.events : s.events[i] = code

Dispatched(s, task) == [s EXCEPT !.queue = Append(@, task)]

\* The running task ends; it dispatched tasks and notified codes.
Ran(s, tasks, codes) ==
  [s EXCEPT !.queue = Tail(@) \o tasks, !.events = @ \o codes]

Disconnects(n) == [i \in 1..n |-> "disconnect"]

\* Connected, or refused with or without a socket.
Connects(s) ==
  {[Ran(s, <<>>, <<>>) EXCEPT !.fd = TRUE, !.source = TRUE]} \cup
  {[Ran(s, <<"disconnect">>, <<>>) EXCEPT !.fd = open] : open \in BOOLEAN}

\* CONNECTED, at most once.
MayTell(s) == {<<>>} \cup (IF Has(s, "CONNECTED") THEN {} ELSE {<<"CONNECTED">>})

\* A read that sent the user name asks for the password.
MayNeedPassword == {<<>>, <<"writePassword">>}

\* Nothing for a cancelled source.  Otherwise every answer that cannot be sent,
\* and a read that fails, asks for a disconnect.
Reads(s) ==
  IF ~s.source THEN {Ran(s, <<>>, <<>>)}
  ELSE {Ran(s, Disconnects(n) \o password, codes) :
          n \in 0..MaxFailures, password \in MayNeedPassword, codes \in MayTell(s)}

\* What is typed is sent or not; an empty string closes the socket besides.
Writes(s) ==
  {Ran(s, <<"disconnect">>, <<>>), [Ran(s, <<"disconnect">>, <<>>) EXCEPT !.fd = FALSE]}
    \cup (IF s.fd THEN {Ran(s, <<>>, <<>>)} ELSE {})

\* Told whether or not it was sent.
WritesPassword(s) ==
  {Ran(s, tasks, codes) : tasks \in {<<"disconnect">>} \cup (IF s.fd THEN {<<>>} ELSE {}),
                          codes \in MayTell(s)} \cup {Ran(s, <<>>, <<>>)}

\* However often it is asked for.
Ends(s) == {[Ran(s, <<>>, <<"DISCONNECTED">>) EXCEPT !.fd = FALSE, !.source = FALSE]}

Tasks(s) ==
  IF s.queue = <<>> THEN {}
  ELSE CASE Head(s.queue) = "connect" -> Connects(s)
         [] Head(s.queue) = "source" -> Reads(s)
         [] Head(s.queue) = "write" -> Writes(s)
         [] Head(s.queue) = "writePassword" -> WritesPassword(s)
         [] Head(s.queue) = "disconnect" -> Ends(s)

\* Variant: the source fires again before its handler ran.
FiresAgain(s) == IF s.source /\ s.fd THEN {Dispatched(s, "source")} ELSE {}

Fires(s) ==
  IF s.source /\ s.fd /\ \A i \in DOMAIN s.queue : s.queue[i] # "source"
  THEN {Dispatched(s, "source")} ELSE {}

\* The calls of the main thread.
Calls(s) == {Dispatched(s, "write"), Dispatched(s, "disconnect")}

Steps(s) == Tasks(s) \cup Fires(s) \cup Calls(s)
=============================================================================
