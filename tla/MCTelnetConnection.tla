------------------------ MODULE MCTelnetConnection ------------------------
(***************************************************************************)
(* The messages of a small server: text, an escaped 255, a command without *)
(* argument, requests for a standard option, for the window size and for   *)
(* an option the client does not know, and the request for the user name.  *)
(***************************************************************************)
EXTENDS TelnetConnection

Echo == 1
Authentication == 37
Letter == 65
GoAhead == 249

Texts == {<<Letter>>, <<IAC, IAC>>, <<IAC, GoAhead>>}
Requests ==
  {<<IAC, verb, Echo>> : verb \in Verb}
    \cup {<<IAC, verb, optionNegotiateAboutWindowSize>> : verb \in {DO, DONT}}
    \cup {<<IAC, verb, Authentication>> : verb \in {DO}}
SubOptions == {<<IAC, SB, optionNewEnvironment, optionSend, IAC, SE>>}

\* Both settings, none, or a password without a user.
MCLogin == {[user |-> u, password |-> p] : u, p \in BOOLEAN}
             \ {[user |-> TRUE, password |-> FALSE]}
Named == {[user |-> TRUE, password |-> TRUE]}

MCMessage == Texts \cup Requests \cup SubOptions
SubOptionMessage == {<<Letter>>} \cup SubOptions
=============================================================================
