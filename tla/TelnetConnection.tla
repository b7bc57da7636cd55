-------------------------- MODULE TelnetConnection --------------------------
(***************************************************************************)
(* One telnet connection (SshTerminal/TelnetConnection.m over              *)
(* ConnectionTcp.m): the tasks of its private queue, and the parser that   *)
(* takes the commands of the telnet protocol out of the data, whatever     *)
(* pieces TCP delivers the data in.                                        *)
(*                                                                         *)
(* Bytes are numbers.  The window size and malloc failures are left out,   *)
(* and so are optionWillRequest, optionDoRequest and their like, which     *)
(* nothing ever assigns: an option is on or off.                           *)
(***************************************************************************)
EXTENDS TelnetLine, Integers

CONSTANTS
  Message,          \* what the server may send, one at a time
  MaxMessages,      \* bound: how many of them
  Login,            \* the settings to try: is there a user name, a password
  SplitSubOptions   \* TCP may cut a sub option in two

\* A message is answered once at most.
ASSUME TelnetAssumption ==
  /\ Message \subseteq Seq(0..255)
  /\ MaxMessages \in 0..MaxFailures
  /\ Login \subseteq [user : BOOLEAN, password : BOOLEAN]
  /\ SplitSubOptions \in BOOLEAN

IAC == 255
DONT == 254
DO == 253
WONT == 252
WILL == 251
SB == 250
SE == 240
Verb == {DO, DONT, WILL, WONT}

optionTerminalType == 24
optionNewEnvironment == 39
optionNegotiateAboutWindowSize == 31
\* Binary transmission, echo, suppress go ahead and the two above.
Standard == {0, 1, 3, optionTerminalType, optionNewEnvironment}
Option == Standard \cup {optionNegotiateAboutWindowSize}
optionSend == 1
Settings == [Option -> [value : BOOLEAN, remoteValue : BOOLEAN]]

(***************************************************************************)
(* What a server of the protocol sends: text, an escaped 255, a command    *)
(* without argument, a request, a sub option.                              *)
(***************************************************************************)

IsText(m) == m # <<>> /\ \A i \in DOMAIN m : m[i] # IAC
IsCommand(m) == Len(m) = 2 /\ m[1] = IAC /\ m[2] \notin Verb \cup {SB}

\* A WILL or a WONT for the window size would be one of the "unexpected
\* requests" of parseRequest (341): it is the client's to offer.
IsRequest(m) == /\ Len(m) = 3 /\ m[1] = IAC /\ m[2] \in Verb
                /\ m[3] = optionNegotiateAboutWindowSize => m[2] \in {DO, DONT}

\* No 255 in it is followed by SE.
IsSubOption(m) == /\ Len(m) >= 4 /\ m[1] = IAC /\ m[2] = SB
                  /\ m[Len(m) - 1] = IAC /\ m[Len(m)] = SE
                  /\ \A j \in 3..(Len(m) - 2) : m[j] # IAC \/ m[j + 1] # SE

ASSUME MessageAssumption ==
  \A m \in Message : IsText(m) \/ IsCommand(m) \/ IsRequest(m) \/ IsSubOption(m)

VARIABLES
  login,            \* user and password of the settings
  queue,            \* the private serial queue: tasks not yet started
  fd,               \* the socket: FALSE for -1
  readSource,       \* FALSE for NULL
  inBuffer,         \* the bytes received and not parsed
  options,          \* value and remoteValue of each option: TRUE for On
  userNameSent, needsSendingPassword, isConnectedSent,
  wire,             \* bytes the server sent and TCP has not delivered
  eof,              \* the server closed
  shown,            \* the text handed to the screen
  messages,         \* history: how many messages the server sent
  said,             \* history: the text in them
  told,             \* history: the options the server takes to be on, by side
  broken,           \* history: a send failed
  promptSeen,       \* history: data arrived after the user name was sent
  passwordSent,     \* history: the password was sent
  endAsked,         \* history: endConnection was called
  events            \* history: the events notified

flags == <<userNameSent, needsSendingPassword, isConnectedSent>>
serverVars == <<wire, eof, messages, said>>
parserVars == <<inBuffer, options, shown, told>>
history == <<login, broken, promptSeen, passwordSent, endAsked>>
connVars == <<queue, fd, readSource, flags, serverVars, parserVars, events, history>>

Task == {"connect", "source", "write", "writeNothing", "writePassword", "disconnect"}

ConnInit ==
  /\ login \in Login
  /\ queue = <<"connect">>
  /\ fd = FALSE /\ readSource = FALSE
  /\ inBuffer = <<>>
  /\ options = [o \in Option |-> [value |-> FALSE, remoteValue |-> FALSE]]
  /\ userNameSent = FALSE /\ needsSendingPassword = FALSE /\ isConnectedSent = FALSE
  /\ wire = <<>> /\ eof = FALSE
  /\ shown = <<>>
  /\ messages = 0 /\ said = <<>>
  /\ told = [o \in Option |-> [value |-> FALSE, remoteValue |-> FALSE]]
  /\ broken = FALSE /\ promptSeen = FALSE /\ passwordSent = FALSE /\ endAsked = FALSE
  /\ events = <<>>

(***************************************************************************)
(* The parser.  A state s of it holds the position i, the text taken out,  *)
(* the options, what the server was told of them, the flags, and the       *)
(* number of sends.                                                        *)
(***************************************************************************)

ParserState == [i : Nat, text : Seq(0..255), options : Settings, told : Settings,
                named : BOOLEAN, password : BOOLEAN, sends : Nat]

Answered(s, o, side, on) ==
  [s EXCEPT !.told[o][side] = on, !.sends = @ + 1]

\* Variant: an option is turned on without an acknowledgement.
parseRequestUnanswered(request, o, s) ==
  LET side == IF request \in {DO, DONT} THEN "value" ELSE "remoteValue"
      on   == request \in {DO, WILL}
  IN IF o \in Standard THEN [s EXCEPT !.options[o][side] = on] ELSE s

\* parseRequest.  A request that changes nothing is not answered, but for the
\* window size; a DONT or a WONT is known to the server without an answer.
parseRequest(request, o, s) ==
  LET side == IF request \in {DO, DONT} THEN "value" ELSE "remoteValue"
      on   == request \in {DO, WILL}
  IN IF o = optionNegotiateAboutWindowSize
     THEN IF request = DO
          THEN Answered([s EXCEPT !.options[o].value = TRUE], o, "value", TRUE)
          ELSE [s EXCEPT !.options[o].value = FALSE,
                         !.told[o].value = @ /\ request # DONT]
     ELSE IF o \in Standard
     THEN IF s.options[o][side] # on
          THEN Answered([s EXCEPT !.options[o][side] = on], o, side, on)
          ELSE [s EXCEPT !.told[o][side] = @ /\ on]
     ELSE [s EXCEPT !.sends = @ + (IF on THEN 1 ELSE 0)]

\* writeNewEnvironment: the user name is sent once.
writeNewEnvironment(s) ==
  [s EXCEPT !.sends = @ + 1,
            !.named = TRUE,
            !.password = @ \/ (login.user /\ ~s.named)]

\* Variant: the length is one short.
SubOptionEndShort(buffer, i) ==
  LET ends == {j \in (i + 2)..(Len(buffer) - 1) :
                 buffer[j] = IAC /\ buffer[j + 1] = SE}
  IN IF ends = {} THEN i
     ELSE (CHOOSE j \in ends : \A k \in ends : j <= k) - 1

\* The end of the sub option that begins at i, i itself if it is not there.
SubOptionEnd(buffer, i) ==
  LET ends == {j \in (i + 2)..(Len(buffer) - 1) :
                 buffer[j] = IAC /\ buffer[j + 1] = SE}
  IN IF ends = {} THEN i
     ELSE CHOOSE j \in ends : \A k \in ends : j <= k

\* parseSubOption.  Bytes past the end of the buffer are what an earlier read
\* left there: any.
parseSubOption(buffer, s, left) ==
  LET at(j)   == IF j <= Len(buffer) THEN buffer[j] ELSE left
      next    == [s EXCEPT !.i = SubOptionEnd(buffer, s.i) + 2]
  IN IF at(s.i + 3) # optionSend THEN next
     ELSE IF at(s.i + 2) = optionNewEnvironment THEN writeNewEnvironment(next)
     ELSE IF at(s.i + 2) = optionTerminalType THEN [next EXCEPT !.sends = @ + 1]
     ELSE next

\* One round of the loop: s stays as it is when the data is at an end or with a
\* command that is not complete.
Round(buffer, s, left) ==
  LET more(n) == s.i + n <= Len(buffer)
      c       == buffer[s.i]
      command == buffer[s.i + 1]
      skip(n) == [s EXCEPT !.i = @ + n]
      text(n) == [s EXCEPT !.i = @ + n, !.text = Append(@, c)]
  IN IF ~more(0) THEN s
     ELSE IF c # IAC THEN text(1)
     ELSE IF ~more(1) THEN s
     ELSE IF command = IAC THEN text(2)
     ELSE IF command = SB THEN parseSubOption(buffer, s, left)
     ELSE IF command \notin Verb THEN skip(2)
     ELSE IF ~more(2) THEN s
     ELSE parseRequest(command, buffer[s.i + 2], skip(3))

\* The loop: a round that is not the last takes a byte at least.
Parsed(buffer, s, left) ==
  LET round == [t \in ParserState |-> Round(buffer, t, left)]
      after[n \in 0..Len(buffer)] == IF n = 0 THEN s ELSE round[after[n - 1]]
  IN after[Len(buffer)]

(***************************************************************************)
(* The tasks.                                                              *)
(***************************************************************************)

Starts(task) == queue # <<>> /\ Head(queue) = task

connectTask ==
  /\ Starts("connect")
  /\ \/ fd' = TRUE /\ readSource' = TRUE /\ queue' = Tail(queue)
     \/ \E open \in BOOLEAN :   \* the socket, or the source, is refused
          /\ fd' = open /\ readSource' = FALSE
          /\ queue' = Append(Tail(queue), "disconnect")
  /\ UNCHANGED <<flags, serverVars, parserVars, events, history>>

\* send of n pieces: each that fails asks for a disconnect.
Sent(rest, n, ok) ==
  /\ queue' = (IF ok THEN rest ELSE rest \o Disconnects(n))
  /\ broken' = (broken \/ ~ok)

\* A handler whose source was cancelled does not run.
SourceCancelled ==
  /\ Starts("source") /\ ~readSource
  /\ queue' = Tail(queue)
  /\ UNCHANGED <<fd, readSource, flags, serverVars, parserVars, events, history>>

\* Variant: what recv returns is taken for "try again".
ReceiveFailedIgnored ==
  /\ Starts("source") /\ readSource
  /\ queue' = Tail(queue)
  /\ UNCHANGED <<fd, readSource, flags, serverVars, parserVars, events, history>>

\* recv fails, also before all that was sent is read, or the server closed.
ReceiveFailed ==
  /\ Starts("source") /\ readSource
  /\ queue' = Append(Tail(queue), "disconnect")
  /\ UNCHANGED <<fd, readSource, flags, serverVars, parserVars, events, history>>

\* What a read may take: it ends within a sub option only where TCP cuts them.
Readable(n) ==
  SplitSubOptions \/
  ~\E i \in 1..n : /\ i < Len(wire) /\ wire[i] = IAC /\ wire[i + 1] = SB
                   /\ SubOptionEnd(wire, i) + 1 > n

\* Variant: the memmove of an incomplete command is one byte off.
UnparsedEarly(buffer, s) ==
  SubSeq(buffer, IF s.i > 1 THEN s.i - 1 ELSE 1, Len(buffer))

\* What a read leaves for the next one.
Unparsed(buffer, s) == SubSeq(buffer, s.i, Len(buffer))

Received(n, left, ok) ==
  LET buffer == inBuffer \o SubSeq(wire, 1, n)
      begin  == [i |-> 1, text |-> <<>>, options |-> options, told |-> told,
                 named |-> userNameSent, password |-> needsSendingPassword,
                 sends |-> 0]
      s      == Parsed(buffer, begin, left)
      anonymous == ~isConnectedSent /\ ~login.user /\ ~login.password
  IN /\ ok \/ s.sends > 0
     /\ wire' = SubSeq(wire, n + 1, Len(wire))
     /\ inBuffer' = Unparsed(buffer, s)
     /\ shown' = shown \o s.text
     /\ options' = s.options
     /\ told' = s.told
     /\ userNameSent' = s.named
     /\ needsSendingPassword' = FALSE
     /\ isConnectedSent' = (isConnectedSent \/ anonymous)
     /\ events' = (IF anonymous THEN Append(events, "CONNECTED") ELSE events)
     /\ promptSeen' = (promptSeen \/ (userNameSent /\ login.user))
     \* The sends come before the check of needsSendingPassword.
     /\ queue' = (IF ok THEN Tail(queue) ELSE Tail(queue) \o Disconnects(s.sends))
                 \o (IF s.password THEN <<"writePassword">> ELSE <<>>)
     /\ broken' = (broken \/ ~ok)

newTerminalDataAvailable ==
  /\ Starts("source") /\ readSource /\ fd /\ wire # <<>>
  /\ \E n \in 1..Len(wire), left \in {0, optionSend}, ok \in BOOLEAN :
       Readable(n) /\ Received(n, left, ok)
  /\ UNCHANGED <<fd, readSource, eof, messages, said, login, passwordSent, endAsked>>

\* writePassword reports CONNECTED whether or not the password went out.
writePassword ==
  /\ Starts("writePassword")
  /\ IF login.password
     THEN /\ \E ok \in {FALSE, fd} : Sent(Tail(queue), 1, ok) /\ passwordSent' = (passwordSent \/ ok)
          /\ events' = Append(events, "CONNECTED")
     ELSE queue' = Tail(queue) /\ UNCHANGED <<broken, passwordSent, events>>
  /\ UNCHANGED <<fd, readSource, flags, serverVars, parserVars,
                 login, promptSeen, endAsked>>

\* What the user typed.
writeFrom ==
  /\ Starts("write")
  /\ \E ok \in {FALSE, fd} : Sent(Tail(queue), 1, ok)
  /\ UNCHANGED <<fd, readSource, flags, serverVars, parserVars, events,
                 login, promptSeen, passwordSent, endAsked>>

\* An empty string: send of no bytes returns 0, which ConnectionTcp takes for a
\* closed socket.
writeNothing ==
  /\ Starts("writeNothing")
  /\ fd' = FALSE
  /\ Sent(Tail(queue), 1, FALSE)
  /\ UNCHANGED <<readSource, flags, serverVars, parserVars, events,
                 login, promptSeen, passwordSent, endAsked>>

\* Variant: the read source is not cancelled.
disconnectKeepsSource ==
  /\ Starts("disconnect")
  /\ queue' = Tail(queue)
  /\ fd' = FALSE
  /\ events' = Append(events, "DISCONNECTED")
  /\ UNCHANGED <<readSource, flags, serverVars, parserVars, history>>

disconnectTask ==
  /\ Starts("disconnect")
  /\ queue' = Tail(queue)
  /\ readSource' = FALSE /\ fd' = FALSE
  /\ events' = Append(events, "DISCONNECTED")
  /\ UNCHANGED <<flags, serverVars, parserVars, history>>

RunTask ==
  \/ connectTask
  \/ SourceCancelled \/ ReceiveFailed \/ newTerminalDataAvailable
  \/ writePassword \/ writeFrom \/ writeNothing
  \/ disconnectTask

(***************************************************************************)
(* The read source, the server and the client.                             *)
(***************************************************************************)

SourceReady ==
  /\ readSource /\ fd /\ (wire # <<>> \/ eof)
  /\ \A i \in DOMAIN queue : queue[i] # "source"
  /\ queue' = Append(queue, "source")
  /\ UNCHANGED <<fd, readSource, flags, serverVars, parserVars, events, history>>

\* The text of a message: a data byte, or an escaped IAC; commands have none.
TextOf(m) ==
  IF m[1] # IAC THEN m
  ELSE IF m[2] = IAC THEN <<IAC>>
  ELSE <<>>

ServerSends ==
  /\ fd /\ ~eof /\ messages < MaxMessages
  /\ messages' = messages + 1
  /\ \E m \in Message : wire' = wire \o m /\ said' = said \o TextOf(m)
  /\ UNCHANGED <<queue, fd, readSource, flags, eof, parserVars, events, history>>

ServerCloses ==
  /\ fd /\ ~eof /\ eof' = TRUE
  /\ UNCHANGED <<queue, fd, readSource, flags, wire, messages, said, parserVars,
                 events, history>>

\* The view sends what is typed to its connection, also to one that has ended.
TypeKey ==
  /\ Len(queue) < MaxQueue /\ Len(events) < MaxEvents
  /\ \E task \in {"write", "writeNothing"} : queue' = Append(queue, task)
  /\ UNCHANGED <<fd, readSource, flags, serverVars, parserVars, events, history>>

\* TelnetTerminal asks at most once; the events it was told may be behind those
\* that were notified.
endConnection ==
  /\ ~endAsked /\ endAsked' = TRUE
  /\ queue' = Append(queue, "disconnect")
  /\ UNCHANGED <<fd, readSource, flags, serverVars, parserVars, events,
                 login, broken, promptSeen, passwordSent>>

ConnNext ==
  \/ RunTask \/ SourceReady
  \/ ServerSends \/ ServerCloses \/ TypeKey \/ endConnection

ConnSpec == ConnInit /\ [][ConnNext]_connVars

\* The queue is served and the source fires; nothing is asked of the server.
ConnFairSpec == ConnSpec /\ WF_connVars(RunTask) /\ WF_connVars(SourceReady)

-----------------------------------------------------------------------------

\* A read leaves at most the two bytes of a request that is not complete, so
\* the buffer never fills.
ConnTypeOK ==
  /\ login \in Login
  /\ queue \in Seq(Task)
  /\ fd \in BOOLEAN /\ readSource \in BOOLEAN
  /\ inBuffer \in Seq(0..255) /\ Len(inBuffer) <= 2
  /\ options \in Settings /\ told \in Settings
  /\ wire \in Seq(0..255) /\ shown \in Seq(0..255) /\ said \in Seq(0..255)
  /\ \A flag \in {userNameSent, needsSendingPassword, isConnectedSent, eof,
                   broken, promptSeen, passwordSent, endAsked} : flag \in BOOLEAN
  /\ messages \in 0..MaxMessages
  /\ events \in Seq({"CONNECTED", "DISCONNECTED"})

\* The screen gets the text the server sent, nothing else and nothing twice,
\* however TCP cuts it (newTerminalDataAvailable, 570-643); "Return the sub
\* otion length, zero if incomplete" (514) is what that takes of a sub option.
TextIntact ==
  /\ Len(shown) <= Len(said) /\ shown = SubSeq(said, 1, Len(shown))
  /\ wire = <<>> => shown = said

\* As long as the sends succeed the server takes an option to be on exactly
\* when the client does (parseRequest, 320-460).
ServerKnows == ~broken => told = options

\* "The next time data will be received, it will be time to send the password"
\* (302): the password waits for the prompt.
PasswordAfterPrompt == passwordSent => promptSeen

\* A connection that is asked to end, or that the server closes, reports
\* DISCONNECTED, whatever is queued before it (649-662).
EndIsReported ==
  endAsked \/ eof ~> \E i \in DOMAIN events : events[i] = "DISCONNECTED"

\* What the rest of the program sees of a connection, and all that the model of
\* the controller assumes of it: every task leaves in the queue, on the socket
\* and among the events what TelnetLine says, whatever the bytes were.
LineNow ==
  [queue  |-> [i \in DOMAIN queue |-> IF queue[i] = "writeNothing" THEN "write"
                                                               ELSE queue[i]],
   fd     |-> fd,
   source |-> readSource,
   events |-> events]
KeepsToLine ==
  /\ LineNow = Dispatched(Allocated, "connect")
  /\ [][LineNow' \in Steps(LineNow)]_LineNow
=============================================================================
