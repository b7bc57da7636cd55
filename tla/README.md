# SshTerminal: models, model checks and proofs

SshTerminal is an Objective-C framework for OS X: an SSH and a telnet client
around one terminal view. This directory holds TLA+ models of its state
machines, the TLC configurations that check them on small instances, and proofs
checked by TLAPS. Paths below are relative to `SshTerminal/` in the repository
unless they say otherwise; every definition that models code has an entry in
`PROJECT.json` (`map`) with the file and the lines it stands for.

Contents: 1 the system, 2 the plan, 3 the modules, 4 the runs, 5 fairness,
6 the proofs, 7 what the checks found, 8 what is not modelled.

## 1. The system

```
 application (AppDelegate)              main thread
      | connect resume disconnect send      ^ connected, disconnected,
      v                                     | serverMismatch, error
 SshTerminal / TelnetTerminal (controller, main thread)
      | dispatch_async(private queue)       ^ dispatch_async(main queue): eventNotify
      v                                     |
 SshConnection --- SshTunnel, SshTunnelConnection      TelnetConnection
      |  libssh, agent (SshAgent)                          | ConnectionTcp, proxies
      v                                                    v
 VT100ScreenBuffer (screenQueue)  --- lock / dispatch_sync --- VT100TerminalView (main thread)
```

Threads: the main (user interface) thread, one serial queue per connection
object, and one screen queue per screen buffer. GCD dispatch sources put a task
on a connection's queue when a descriptor becomes readable. Nothing but these
queues, the screen's `NSLock` and `dispatch_sync` synchronises them.

| Component | State | Operations | What is hard about it | What makes it correct |
|---|---|---|---|---|
| SSH connection `SshConnection.m` | private queue, libssh session, descriptor, read source, terminal channel, `isClosing`, arrays of tunnels and tunnel connections | connect, authenticateServer, authenticateUser, openTerminalChannel, openTunnelChannels, the data handlers, closeAllChannels, disconnect; resume and endConnection from the main thread | every task is queued behind others decided earlier; closing may be asked for by the user, the server and any failure, at once; login tasks never look at `isClosing` | what was taken is released before DISCONNECTED is told, once; nothing is opened afterwards; a login and an end are always answered |
| Tunnels `SshTunnel.m`, `SshTunnelConnection.m` | listening descriptor, list of addresses; a descriptor and a channel per connection | listen, accept, transfer, disconnect | channels belong to a session that is freed elsewhere | tunnel connections end before the session they use |
| Terminal controller `SshTerminal.m` | `state`, `connection`, `jumpConnection`, `pausedConnection`, two closed flags | connect, resume, resumeAndRememberServer, disconnect, send, callbackFromConnection | two connections (one through a tunnel of the other) whose events arrive in any order, and who is told apart from the other only by not being it | both are taken down, the one behind first; a session inherits nothing from the last |
| Sample application `../SshTerminalClient/AppDelegate.m` | two buttons | press, delegate methods | buttons follow events, not the state | it never ends with both disabled |
| Screen buffer `VT100ScreenBuffer.m` (flush, lock, resize) | rows, `screenOffset`, invalid range, the pending block; the text view's storage | newDataAvailableIn, flushScreen, addLine, setContent, setWidth, resetScreen | the parser gives up its lock in the middle of a command to wait for the main thread, which may be resizing | no line is lost or shown wrong; no deadlock; no access outside the screen |
| VT100 emulator `VT100ScreenBuffer.m` (sequences) | cursor, margins, saved cursor and margins, modes, one string of rows * columns characters | some forty sequences and control characters | every command computes ranges of one string from six numbers that other commands set | the string keeps its length; an edit touches the rows it names, and marks them |
| Telnet connection `TelnetConnection.m`, `ConnectionTcp.m` | queue, buffer, options, login flags | connect, parse, answer requests, user name and password, disconnect | data is cut anywhere; requests cross | text intact, both sides agree on the options, the password follows its prompt |
| Telnet controller, sample `TelnetTerminal.m` | `state`, `connection`, settings | connect, disconnect, send, signalError | events are not attributed to a connection | as for the terminal controller |
| Agent `SshAgent.c`, with `authenticateUser` and the agent channel of `SshConnection.m` | identities, lock and its passphrase; the length of the request under way (`agentBuffer`), one channel object | load and add a key, list, sign, lock, unlock, refuse | requests are cut anywhere; several programs on the server share one channel object; a key has an owner on every failing path | one answer per request, to who asked; locked means no key and no signature; a signature can be read |
| PuTTY key files `PuttyKey.c` | none between calls | detect type, parse, decrypt, check the MAC | line counts that need not agree with the file; three formats of digest | what was written is loaded, and nothing else |
| Proxies `Proxy*.m`, the choice of one in `TelnetTerminal.m`, `NetworkHelpers.m` | a descriptor; the two indices of the HTTP reply | isProxyNeeded, isMatch, resolveHost, connect, receiveReply | replies in pieces, cut or refused; HTTP reply over a sliding buffer | a connection that succeeds is the host's, and not a byte of it is lost or added; connect ends |
| View `VT100TerminalView.m` | view, key tables | keys, size, drawing | runs while the parser waits | (its resize and reset are the main thread of the screen buffer) |
| preferences, `SyntaxColoringItem.m`, `../libssh`, `../openssl`, `../zlib` | none, or third party | | | |

How they interact:

- Controller to connection: a method that does nothing but `dispatch_async` on
  the private queue (`startConnection`, `resume`, `endConnection`).
- Connection to controller: `eventNotify:` puts `(sender, code)` on the main
  queue; the controller's `callbackFromConnection:` is the only receiver.
- Connection to itself: a task dispatches the next one (`connect` to
  `authenticateServer` to `authenticateUser` to `open...`), and
  `closeAllChannels` dispatches a block that empties the array of tunnel
  connections, then `disconnect`.
- Jump host: the controller starts the second connection when the first says
  CONNECTED, to the port on which the jump host's forward tunnel listens.
- Connection to agent: `authenticateUser` loads the key and adds it; the
  callback libssh runs when the server opens an agent channel returns the
  connection's one channel object; `newTerminalDataAvailable` reads a request
  from it, asks `SshAgentReplyFromRequest`, and writes the reply back.
- Telnet connection to proxy: `connect` runs to its end on the private queue
  with blocking calls; nothing times out.
- Parser to view: `flushScreen` stores a block, unlocks, has the main queue run
  `flushScreenOnUI` with `dispatch_sync`, locks again. `getLock`, on the main
  thread, runs a block it finds before anything else.

`PROJECT.json` lists the behaviours that tests would hardly reach
(`hazards`), each at its line, with the properties that watch it, or the reason
there is none yet.

## 2. The plan

In order of importance; an entry says what it composes.

| # | Modules | State |
|---|---|---|
| 1 | `SshConnection` (the tasks), `SshSession` (with a client that calls it at any time), `SessionLifecycle` (abstract promise), `SshConnectionProofs`, `SshSessionProofs` | done |
| 2 | `SshTerminal` over several `SshConnection`s, `SshTerminalClient` over `SshTerminal`, `SshTerminalClientProofs` | done |
| 3 | `ScreenBuffer`: the parser against the main thread; `ScreenBufferProofs` | done |
| 4 | `TelnetConnection` (bytes), `TelnetLine` (its abstraction), `TelnetTerminal` (controller and application over several `TelnetLine`s), `TelnetProofs` | done |
| 5 | `Emulator`: sequences against cursor, margins and the string; `EmulatorProofs` | done |
| 6 | `PuttyKey`, `SignatureBlob`, `SshAgent` over both, `AgentService` (abstract promise), `SshAgentProofs` | done |
| 7 | `Proxy`: the choice of a proxy, the resolver, the dialogues; `ProxyProofs` | done |
| 8 | ownership: who closes each descriptor and channel of a tunnel connection, and which channel a late write, keep alive or `setWidth` from another thread meets; the array of forward tunnels with its index, and the second address of a host | to do |
| 9 | two parsers over one screen (a session and its successor); the bytes of a sequence in `inBuffer` | to do |

Abstract specifications: `SessionLifecycle` for an ssh connection, `TelnetLine`
for a telnet connection and `AgentService` for the forwarded agent (done); for
the screen, an append-only text of which the view is a copy (its content is today
the history variable `text` of `ScreenBuffer`); for the telnet parser, the text
without the commands (today the history variable `said`).

Theorems, done (section 6): the safety of an ssh connection and its refinement;
what is open and armed on it; the screen, its history and its marks; the agent's
refinement; the sessions and the queues of the telnet controller; the two
connections of the ssh controller; what a connect through a proxy leaves to read;
what the sequences do to the screen string; the text, the options and the
refinement of a telnet connection.
Next: entries 8 and 9 of the table, each with its modules, runs and theorems.

## 3. The modules

### SshConnection, SshSession, SessionLifecycle

`SshConnection` has one action per task of the private queue. A task is the
whole method: `Connect` stands for `connect` with its three outcomes (refused
before the handshake, handshake failed, accepted), `OpenTunnelChannels` for the
loops over the configured tunnels, and so on. `Work(c)` runs the task at the
head of `queue[c]`; `Finish(c, tasks)` removes it and appends what it
dispatched. Sources append a task (`SourceFires`); the handler of a source that
was cancelled in between is `Dropped`, while the same method dispatched by
`dispatch_async` runs whatever happened since, as in GCD.

| Variable | Code |
|---|---|
| `queue` | the tasks of `queue` (serial) not yet started |
| `session`, `socketFd` | `ssh_is_connected`, `socketFd >= 0` |
| `readSource` | `readSource`: NULL, suspended, or resumed with the terminal's or the tunnels' handler; the keep alive timer is armed with it |
| `channel` | `channel`: NULL, open, or stale after `ssh_disconnect` freed it |
| `isClosing`, `forwardTunnels`, `reverseTunnels`, `tunnelConnections` | the variables of that name |
| `listening`, `alive` | the tunnels with an armed listen source; the tunnel connections that hold a descriptor and a channel |
| `mainQueue` | the blocks of `eventNotify` on the main queue |
| `purged`, `reported`, `openedLate` | history: the block of `closeAllChannels` ran; DISCONNECTED was told; a login task opened a channel behind `closeAllChannels` |

libssh enters as outcomes: each call the code tests may succeed (only with a
connected session where the library needs one) or fail. Error codes the
controller only passes on are one, `"ERROR"`; those that ask the user are
`"MISMATCH"`; the two after which nothing is queued are `"SERVER_ERROR"`.

`SshSession` adds the most general legal client: it starts each connection
once, answers a mismatch by resuming, and ends it at any time and repeatedly.
`SessionLifecycle` is what such a client may rely on: a connection takes the
network only while open, and once it says it is closed it holds nothing and
stays closed. `SshSession!Lifecycle` is the refinement mapping: `closed` when
DISCONNECTED was told, `holds` when there is a descriptor or a session.

### SshTerminal, SshTerminalClient

`SshTerminal` is the controller: `connect`, `resumePaused` (both resume
methods), `disconnect`, and `callbackFromConnection`, which takes the next
event of the main queue and names the delegate method it calls. `connect`
allocates new connection objects: here the n-th session takes the n-th elements
of `Connection` and `Jump`, and no object is in them twice
(`AllocationAssumption`). A connection behind a jump host can be reached only
while that host's tunnel listens (`ThroughJump`). `SshTerminalClient` is the
sample application. A button may be pressed only while it is enabled.
`Patient` restricts the user to pressing Disconnect once logged in or asked.
Nothing in the application does: `AppDelegate` leaves Disconnect enabled when
Resume is pressed, and the login goes on. For a user who is not patient
`ReadyForNextSession`, `NoStrayEvent`, `LetGoMeansReleased` and
`TunnelOutlivesTraffic` all fail (`Patient = FALSE` in
`SshTerminalClient.cfg`; section 7 says how).

### ScreenBuffer

Two processes. The parser (`pc`): holds the lock while it takes commands from a
buffer (`parse`); hands the block over and waits in `dispatch_sync` (`flush`);
takes the lock again (`relock`). The main thread (`ui`): idle, or waiting in
`getLock` to resize or reset. `Flushed` is the block of `flushScreen` as the
record of what it assigns; `AfterBlock` is the part of `getLock` and
`flushScreenOnUI` that runs it. A line is one value and columns are left out,
so the module speaks of rows: which of them the view has, where they are, and
which are marked. An access outside the screen raises `NSRangeException`;
`raised` stops the model. `text` records, for each line since the last reset,
what was last written on it.

Two more history variables say from where on the screen may go wrong. `exposed`:
the main thread took the screen while the parser was in the middle of something
(or rebuilt it), or `addLine` was called with 0. `displaced`: a flush found only
rows below the screen invalid (`Unlocked.newline`); it then leaves the text with
a line feed at its end, and the row the view takes for the first of the screen
is no longer the screen's. `ScreenIsWindow` says that neither an exception nor a
displacement comes before the first exposure, and that until one does the screen
is a window on what was written.

### Emulator

The complement of `ScreenBuffer`: columns, margins, arguments and modes, with
the threads left out. No branch of the emulator depends on a character of the
screen, so each command is applied to a screen whose cells are numbered
(`Cells`) and the properties compare the result with it cell by cell; of the
screen the state keeps only whether it still is one (`intact`). What the other
end may set freely and what only chooses a branch (wrap modes, insert mode, tab
stops) is a choice inside the commands that look at it. One action per sequence
or group; the letter that ends the sequence is beside it.

The last argument of `Do` names, for each command, the condition under which it
damages the screen. `DamageIsNamed` says that these conditions are exact: in
every reachable state, damage if and only if named. The list is a result in
itself and stands in section 7.

### TelnetConnection

The tasks of the private queue and the parser `newTerminalDataAvailable` with
`parseRequest`, `parseSubOption`, `writeNewEnvironment` and `writePassword`,
over bytes. The server writes whole messages to `wire`; the source delivers any
prefix of it. `said` is the text in the messages, `shown` what reached the
screen, `told` what the server must take each option to be. A send may fail at
any piece of a reply, and a `recv` at any time, whatever is still on the wire.
`SplitSubOptions = FALSE` keeps a sub option in one read
(see section 7 for the other case).

`Round` is one round of the loop over the buffer, and `Parsed` the loop: as many
rounds as there are bytes, for a round that is not the last takes one at least.
`MessageAssumption` says what a server of the protocol sends (text, an escaped
255, a command, a request, a sub option that ends where its IAC SE is); it leaves
out a WILL or a WONT for the window size, which `parseRequest` calls unexpected.

### TelnetLine, TelnetTerminal

`TelnetLine` has no variables: a connection is a record (queue, descriptor,
source, events notified) and `Steps(s)` the set of records it may become. It is
used twice. `KeepsToLine` of `TelnetConnection` is the refinement: seen as such a
record (`LineNow`), every step of the detailed connection is in `Steps`.
`TelnetTerminal` composes several of them with the controller and the sample
application; its main queue holds codes only, as `signalError:` gets no sender,
and a key goes to the last connection the view was given, ended or not, as in
`VT100TerminalView`.

### PuttyKey, SignatureBlob, SshAgent, AgentService

`PuttyKey` has no variables. A file is the sequence of its lines; a line of
base64 text is the list of the fields it decodes to, a field remembers the
passphrase it is encrypted with, and a MAC is the record of what it is computed
from, so that two are equal only when all of that is. `PuttyKeyParseData` makes
the checks in the order of the code, and the first that fails decides.
`KeyFiles` are what PuTTYgen writes (both formats, both types, with or without
a passphrase, MAC or, in format 1, plain digest) and every file that one piece
of damage makes of it: a line removed, doubled, cut off, swapped with the next,
or edited.

`SignatureBlob` has the layout of a signature as the list of writes the code
makes, each with its offset and size, and says when a reader finds each field.

`SshAgent` is the state machine. `login` goes through the key branch of
`authenticateUser`; each action is the code between two library calls.
`agent` is `SshAgentContext`, with two counts beside it for who owns the key
(`inHand`: the local variable `key`; `freed`: `ssh_key_free` was called).
`channel` is the one channel object of the connection and what is unread in it;
`agentBuffer` the length the reader waits for. A request is sent as cells, two
of header and one or two of body, which arrive one by one; the reader
(`ReadClosed`, `ReadPart`, `ReadRequest`) is the agent part of
`newTerminalDataAvailable` and may run between any two. A program may open the
channel while another has it, or leave in the middle of a request; the code
gives all of them one channel object and one `agentBuffer`, so that headers and
bodies are then read out of pieces of several requests. `LengthsIn` and
`RequestsIn` say what the reader makes of such cells: a header whose halves were
not sent together has any of `JoinedLengths`, or a number that is negative as
an `int` (`ReadRaises`), and a body that nobody sent as one is any request that
its first cell allows.

`AgentService` is the promise: each request has one answer, decided by the
request and by whether the agent is locked. It covers programs that come one
after the other and go with their requests answered (`orderly`). Once they mix,
who is answered is not promised any more; that an answer is one the lock calls
for, and that the lock changes with an answer only, still is (`AnswerMixed`,
`BreakMixed`).

### Proxy

One connect of a telnet connection, from the choice of the proxy to the result.
`isMatch` and `isProxyNeeded` are translated loop by loop (`MatchRound` is one round,
the function over `excludedLocation` the loop) and compared with a
definition of matching (`Matches`), which lets a wild card stand for any text. The dialogues run as in the code, one
`recv` or one round of a loop per step, over a stream whose bytes arrive one by
one (`Arrives`); the proxy may answer in any way its protocol has, never, or
break off (`ProxyCloses`), and any `recv` may fail (`ReceiveFails`). Behind a reply that grants comes the text of the
host, by which `ConnectedIsTheHost` tells whether a byte was lost or left.
`search` is `searchIndex` and `receiveIndex` of `ProxyHttp`; the contents of
its buffer are always the beginning of the socket. `ProxyAssumption` says what a
reply of HTTP that grants is (`GrantsHttp`): behind the first space the first
digit is a 2, and the first line that is empty ends the reply, which has no body
(RFC 7230, as `ProxyHttp.m:66` quotes it). The buffer has room for six cells at
least; the code's has 256 bytes.

## 4. The runs

| Run | Module, configuration | Shows |
|---|---|---|
| `terminal_session` | `MCSshSession`, `SshTerminalSession.cfg` | a connection with X11 forwarding, or with a forward and a reverse tunnel: everything is released before it is reported; nothing is added to a purged connection; tunnel connections never outlive the session; no listener once closing; a source is left armed only by a login task behind `closeAllChannels`; implements `SessionLifecycle`; an end is reported, a login answered |
| `terminal_client` | `MCSshTerminalClient`, `SshTerminalClient.cfg` | two sessions in a row, each with or without a jump host, of a user who is `Patient`: nothing leaks from one to the next, the jump host goes down last, a disconnect is answered and the application never stuck |
| `screen_buffer` | `ScreenBuffer`, `ScreenBuffer.cfg` | no line lost, view and screen agree outside the marked rows and nothing leaves the screen before a resize, the block never outlives its frame, neither thread waits for ever |
| `screen_resize` | same, `ScreenBufferResize.cfg` | finding 1 |
| `telnet_connection` | `MCTelnetConnection`, `TelnetConnection.cfg` | text intact over any cutting, options agreed, the end reported; keeps to `TelnetLine` |
| `telnet_split`, `telnet_password` | same, `TelnetSplit.cfg`, `TelnetPassword.cfg` | findings 2 and 3 |
| `telnet_client` | `TelnetTerminal`, `TelnetTerminal.cfg` | a session is lost to the controller, or a disconnect unanswered, only where a connection notified something after its end |
| `emulator` | `Emulator`, `Emulator.cfg` | the exact list of damaging commands; scrolling stays between the margins, line edits in the line and to the right of the cursor; changed rows are marked; only commands that name a row leave the margins |
| `key_agent` | `MCSshAgent`, `SshAgent.cfg` | a key file loads as written or not at all; the key has one owner; a signature can be read, but for ECDSA; no request loses its frame as long as programs come one after the other; implements `AgentService`, also once programs mix; a program that waits is answered, and what the reader has the whole of does not stay unread |
| `proxies` | `MCProxy`, `Proxy.cfg` | exactly the excluded hosts go round the proxy; a connection that succeeds was granted, for the host, and begins with its first byte; connect ends |
| `proxy_complete` | same, `ProxyComplete.cfg` | finding 4 |

Every property of a passing run has a variant of the code under which it fails
(`mutants` in `PROJECT.json`; the variant stands above the definition it
replaces).

Bounds, and why they are enough for the questions asked:

- Sessions: two kinds of connection of which one is used in a behaviour
  (`OneUsed`; they share nothing but the main queue, and `terminal_client` has
  four), two identities for tunnel connections, so that
  one can die while the other is opened, `MaxQueue` 4: a source adds no
  task to a longer queue, which leaves room for a source's task and for a task
  dispatched by the method itself around `purge` and `disconnect`. `MaxEvents`
  2: an error and DISCONNECTED, or two errors before it. `MaxEnds` 2: the second
  call is the one that must do nothing. The bounds hold back sources and the
  server only; no task of the connection is cut.
- Client: two sessions, since what is asked is what the second inherits;
  connections without X11 and one tunnel on the jump hosts, as the controller
  sets them up.
- Screen: 2 to 3 rows, resizes by one row, histories of 4 lines (more than one
  screenful scrolls off), buffers of two commands (a flush falls before,
  between and after them), scrolls by two lines and by none: CSI S without an
  argument calls `addLine` with 0, which marks a row below the screen. What holds
  for all bounds is proved (section 6). Before it was proved the invariant was
  also checked with 1 to 3 rows and resizes by two (111600 states), 1 to 4 rows,
  resizes by three, scrolls of 0, 1 and 3, 3 lines (348307 states), and 5 lines
  (110089 states); the liveness property with 5 lines (480844 states).
- Telnet: two messages out of text, an escaped 255, a command, every request
  for a standard option, the window size, an unknown option and the request for
  the user name; every way to cut them. `MaxEvents` holds back the user's keys
  only: each key after the end is one more DISCONNECTED.
- Telnet client: two sessions, the first of which may disturb the second, with
  one failing answer per read (`MaxFailures`; two events after the end take no
  more than that and a key or the user's own disconnect).
- Emulator: 2 columns (first, last; one and two past the end), 1 to 3 rows (one
  row is where the margins are degenerate; three has an inside), arguments
  absent and 0 to 3, one more than the columns and as many as the rows. The
  commands behind a damaging one are not explored.

- Agent: two programs, two passphrases of which one begins the other, three
  requests between them: a lock, one that finds it locked, and an unlock. Once
  the programs have mixed two requests, and with one type of key (`MixedShort`):
  the type decides nothing but the form of a signature. A joined header gives 0
  (no body), 3 (one that the cells of two requests fill) or 9 (more than ever
  comes), or a negative number (`ReadRaises`). Keys of OpenSSH stand for ECDSA
  and Ed25519, which PuTTY files do not have. A blob
  has at most two lines, so that a count can be one too low, right, and one or
  two too high; 65536 and 65538 are the counts that the 16 bits of
  `getNumeric` turn into 0 and 2.
- Proxies: hosts of one to three letters (and the local ones, shortened)
  against patterns with up to two wild cards in every place; no to two
  addresses of each family; an HTTP reply that fits in the buffer of
  `BufferSize` 6 and one twice as long with a line end and a half inside,
  across the place where the buffer slides (with 256 bytes the same loop
  slides by the same three).

`CHECK_DEADLOCK FALSE` where a system ends: sessions that were closed for good,
a server that has nothing to say. The screen and the emulator run for ever.

## 5. Fairness

- `WF(Work(c))`: GCD runs the tasks of a serial queue one after the other, and
  each returns when its library calls do. `WF(Deliver)`: the main thread serves
  its queue. Nothing is assumed of the user, of the server or of the sources,
  so `EndIsReported`, `LoginIsAnswered` and `UserIsAnswered` do not rest on any
  of them.
- Telnet: `WF` of the tasks; and of the source while there is data, which GCD
  level-triggers. In `TelnetTerminal` `WF` of the tasks and of the main queue
  only: the source need not fire.
- Screen: `WF(Parse)`: a buffer of data is finite and its thread runs on.
  `SF(flushScreenOnUI)` because the main thread may handle other events (every
  resize and reset) between any two, but serves the main queue in between.
  `SF(setWidth \/ resetScreen)`: the lock is free only between two buffers and
  during a flush, so weak fairness would allow the main thread to wait for
  ever. `NSLock` promises no fairness; this is an assumption about the
  scheduler, without which `NobodyWaitsForEver` is not to be had from this code.
- Agent: `WF(Reader)`, the queue; `WF(Deliver)`, a request that was sent
  arrives. Nothing is assumed of the server and the programs.
- Proxies: `WF(Connect)`, the queue; `WF(Arrives)`, the network delivers;
  `WF(ProxyAnswers)`: a proxy answers or closes. The last one is an assumption
  about the other end that the code makes too: no call has a timeout, and
  before a silent proxy `connect` waits for ever.
- `Emulator` has safety properties only.

## 6. The proofs

`SshConnectionProofs` has no theorem
of its own but the lemmas on `SshConnection` that three modules cite: the types
(`ConnectionType` and one lemma per group of tasks), what the queue operations
do to positions (`FinishAt`, `DispatchAt`), and that a task of one connection
leaves the others alone (`OthersUndisturbed`).

`SshSessionProofs` proves for any set of connections, any tunnels, any
configuration of them and any bounds, from `ConnAssumption` and
`SessionAssumption` (the constants have their types) alone:

| Theorem | States |
|---|---|
| `TypeCorrect` | `[]TypeOK` |
| `SessionInvariant` | `[]SessionInv`, the inductive invariant |
| `ReleasedSafe` | `[]ReleasedWhenReported` |
| `OnePurgeSafe` | `[]OnePurge` |
| `PurgeSafe` | `[]PurgeIsFinal` |
| `NoListenerSafe` | `[]NoListenerOnceClosing` |
| `LifecycleImplemented` | `Spec => Lifecycle!Spec` |

The argument. None of the properties is inductive, because each depends on what
is still queued. `SessionInv` adds where three tasks can be:

- `ConnectFirst`: `connect` is only ever the first task of a queue, on a
  connection that holds nothing and has reported nothing. So no task can take
  the network after DISCONNECTED, which gives `Released` and the step
  `Acquire` of the refinement.
- `PurgeOnce`: a queued purge means `isClosing`, has `disconnect` right behind
  it, and is the only one. With `PurgedForGood` (after the purge the arrays are
  empty, and `disconnect` is next or has been) no data handler runs between the
  purge and the disconnect, so nothing can be added to the arrays unseen.
- `Pristine`: nothing happens to a connection before its client starts it,
  which is why `connect` is queued to an empty queue.
- `NoListener`: closing empties the arrays of tunnels, and `open...` cannot
  fill them again, because it only keeps members of them.

Lemmas `PlainFinish`, `CloseFinish` and `PurgeFinish` follow the queue
operations; then each action has its lemma (`LoginInv`, `OpenInv`, `CloseInv`,
...), and the invariant of the other connections is kept by `OthersUndisturbed`. The refinement maps
`Connect` to `Acquire`, `Disconnect` to `Close`, the client's first call to
`Open`, and everything else to a stutter.

The second half of `SshSessionProofs` is about the login, from the same
assumptions:

| Theorem | States |
|---|---|
| `LoginsInvariant` | `[]LoginsInv`, the inductive invariant |
| `TunnelsNeedSessionSafe` | `[]TunnelsNeedSession` |
| `LateOpenSafe` | `[]OnlyLateOpenLeaksSource` |

A session is freed by two kinds of `disconnect`: that of a purge, which comes
behind the block that ends the tunnel connections, and that of a failed login,
which looks at nothing. The second is harmless only because there is no tunnel
connection yet, and that is known because a connection has one login at a time:
one login task in its queue, or one MISMATCH on its way to the user, or one
answer of the user, never two (`OneLogin`). While there is one, nothing is
armed, alive or being read (`OpenedAfterLogin`). `FinishMoves` and `QuietFinish`
follow this token through the queue operations. A source is armed on a closing
connection only by the login task that was still under way when
`closeAllChannels` came (`ClosedSource`).

`ScreenBufferProofs` proves for screens of any height, any history, any resize,
any lines and any arguments of CSI S, from `ScreenAssumption`:

| Theorem | States |
|---|---|
| `TypesKept` | `[]TypeOK`: the screen has `rowCount` rows, whatever the order of resizes, resets, blocks and scrolls |
| `InvariantKept` | `[]ScreenInvariant` |
| `ScrollbackIsKept` | `[]ScrollbackKept` |
| `WindowIsKept` | `[]ScreenIsWindow` |
| `StaleIsMarked` | `[]StaleIsInvalid` |

The invariant: the screen is a window on the text (`Window`), with nothing below
it (`Beyond`); a line the view shows wrong is a row of the screen that the next
flush copies (`Stale`), and when the parser lets the main thread in there is none
(`Agree`), which is why a resize may build the screen again from the view; the
block and the scroll that waits for it live no longer than their frame
(`InFrame`); the history fits, the scroll that is due included (`Fits`). The key
lemma is `FlushAgrees`: the block of `flushScreen`, run by whoever comes first,
makes view and text agree. While the main thread leaves the screen alone the
marks and the cursor are rows of the screen (`Undisturbed`); the rest does not
depend on it, so it holds after a resize too. The attempt to prove it found the
displacement (section 7), which the bounds of the earlier run could not reach.

`SshAgentProofs` proves `KeyOwnerSafe`, `Spec => []KeyHasOneOwner`, for any
clients, passphrases, flags, types of keys and number of requests, from
`SshAgentAssumption` alone. "One owner" does not follow from itself: that a
login which ends with a loaded key still has it to free, and that an agent has
none before, is known only from the phase. `KeyInv` says where the key is in
each phase (`Owner`), that `login` and the context are records, so that writing
one field leaves the others (`LoginPhase`, `ContextKeys`, ...), and that what
is unread on the channel is made of requests (`Wires`): the reader replaces the
context by what the reply leaves of it, and only of a request is it known that
this leaves the keys alone (`ReplyKeepsKeys`). `LoadReturnsKey` says that
`PuttyKeyLoadPrivate` returns a key exactly when it reports success, whatever
the file.

It also proves, about `SignatureBlob` and for signatures of every length:

| Theorem | States |
|---|---|
| `ReadableSignatures` | those of DSS, of RSA with SHA-1 and of Ed25519 can be read, and no write leaves the buffer |
| `OverwrittenSignatures` | those of ECDSA and of RSA with SHA-2 never can: their length is not where a reader looks for it |

These need no invariant: the sizes of all fields but the last are constants, and
the last one ends the buffer.

About the service it proves, from the same assumption:

| Theorem | States |
|---|---|
| `ServiceInvariant` | `[](KeyInv /\ ServiceInv)` |
| `AgentTypes` | `[]TypeOK` |
| `FramingKept` | `[]Framed` |
| `GivenSignaturesReadable` | `[]SignatureIsReadable`, from `ReadableSignatures` |
| `ServiceImplemented` | `Spec => ImplementsService` |

The answer of the abstract service is decided when the request is made; that of
the agent is computed from whatever the reader finds on a channel where bytes
arrive one by one and where the object may belong to the next program. The
invariant connects the two: one request at most is under way (`OneSender`), and
as long as the programs come one after the other (`orderly`) what is unread is
exactly the part of that request that arrived, without its header once the
reader knows its length (`OneAsks`, `Pending`). Only then does the reader answer
the request that was made, to who made it. `Framed` is what this comes to at the
reader: no length of an earlier read or of an earlier program is ever taken for
that of the request under way. When programs overlap or leave a request behind,
which the code does not prevent, the types and the readable signatures still
hold, and each answer is one that the lock calls for: the reply is computed from
some request whatever the cells were, and the lock changes with it.

`TelnetProofs` proves of `TelnetTerminal`, for any number of sessions and any
bounds, from `LineAssumption` and `TerminalAssumption`:

| Theorem | States |
|---|---|
| `ConnectionInvariant` | `[](Typed /\ OwnInv)` |
| `SessionsOwned` | `[]SessionsAreOwned` |
| `QueuesBounded` | `[]TypeOK`, with the bound on the queues |

The main queue does not say who sent an event. The invariant is therefore about
the whole of it: as long as no earlier connection notified something after its
end, what is on its way is the rest of what the current one notified, from some
place `k` on (`Heard`), and the application allows the next connect only when
DISCONNECTED is in front of that place; so every earlier connection has ended
(`Ended`). The bound on a queue rests on its order: a source is armed once and
re-armed by the task that reads, so one read is queued at most (`InOrder`), and
behind a `disconnect` that comes before it nothing is read any more (`Doomed`),
which leaves room for one failing answer of the read, the user's own disconnect
and those of the password and the keys (`Bounded`).

The same module proves of `TelnetConnection`, for any messages of any length, any
number of them, any settings and every way to cut the stream, from
`TelnetAssumption`, `MessageAssumption` and `LineAssumption`:

| Theorem | States |
|---|---|
| `ConnectionTypes` | `[]ConnTypeOK`, with the two bytes a read leaves at most |
| `TextArrives` | `[]TextIntact` |
| `OptionsAgree` | `[]ServerKnows` |
| `LineKept` | `KeepsToLine`: the refinement of `TelnetLine` |

The first holds as it stands. Each of the others has a hypothesis that neither
the code nor TCP ensures:

- `TextArrives`: no sub option is cut between two reads (`~SplitSubOptions`). The
  run `telnet_split` refutes `TextIntact` otherwise (finding 2). It is what a
  server can see to by keeping a sub option, a few bytes, in one segment.
- `OptionsAgree`: that, or `NeverOffered`: nothing the server sends, the bytes of
  texts and of sub options included, holds WILL or WONT followed by 31 (the
  window size), within a message or where two join. The rest of a sub option
  that was cut is parsed as anything; whatever request it is taken for is
  answered in a way that leaves both sides with the same options, but for the
  two that `parseRequest` calls unexpected.
- `LineKept`: that, or `BytesCounted`: `MaxFailures` is no less than the number of
  bytes the server can send. `TelnetLine` allows a read that many disconnects;
  with whole sub options an answer needs a message, with cut ones only bytes.

- The loop. Nothing is proved by induction over the buffer. What every round
  keeps holds after all of them, a round that does not end the loop takes a
  byte, and the number of rounds is a function over the natural numbers
  (`Turns`), so the induction is over those; it goes through `CountedUp`, a
  consequence of the well-foundedness of `<`.
- The stream. A parser position is right when it is the beginning of an item (a
  byte of text, a command, a request, a sub option), and what has to be known of
  such a place is how much of the text is in front of it and how many answers
  the items in front of it can have asked for. A `Trail` is a set of such marks
  from which the items lead to the end of the stream and of the text. That is
  enough: every message appends to the trail (`MessageTrail`), the rounds of a
  read follow it from the first byte, and what a read leaves begins at a mark.
- `Flow` is the invariant made of it: there is a trail over the buffer and what
  TCP has not delivered, `said` its text, and it has a mark at the first byte
  that stands for what was shown; what is in the buffer is an item that is not
  complete, and not a sub option; the options agree. `TextIntact` says what this
  comes to at its two ends and is not inductive.
- `KeepsToLine` needs two more. CONNECTED is notified once because a read
  notifies it for an anonymous session only, and `writePassword` only if it was
  queued, which happens once, for the user name is sent once (`PasswordOnce`). A
  connect that is refused leaves the source alone because there is none before
  it ran (`ConnectFirst`). And a read asks for no more disconnects than there are
  messages, since an answer needs a message (`asked`, in the marks).

- Where sub options are cut there is no trail, and what is left is counted in
  bytes. `RoundCounts` and `ReadCounts`: a round that sends takes a byte, so a
  read sends no more often than it has bytes, and it keeps the options in step
  unless it finds an offer of the window size. `Unoffered` (there is none in the
  buffer and on the wire) and `Counted` (how many bytes these are) are invariants
  wherever TCP cuts; `FewSends` is what `LineKept` needs of either case.

With `LineKept`, under its hypothesis, the theorems about the controller are
about connections with bytes as far as `TelnetLine` speaks of them.

`SshTerminalClientProofs` proves for any number of sessions, any tunnels, X11 or
not, and any bounds, from `ConnAssumption`, `TerminalAssumption` and
`AllocationAssumption`, for a user who is `Patient`:

| Theorem | States |
|---|---|
| `ClientInvariant` | `[]ClientInv`, the inductive invariant |
| `LetGoMeansReleasedHolds` | `[]LetGoMeansReleased` |
| `NoStrayEventHolds` | `[]NoStrayEvent` |
| `ReadyForNextSessionHolds` | `[]ReadyForNextSession` |
| `TunnelOutlivesTrafficHolds` | `[]TunnelOutlivesTraffic` |

The controller knows little of its connections: two flags, and which of the two
an event came from. What it does with an event is right only because of what
that connection can still say, and this depends on its queue. So the invariant
has three layers:

- a connection is in a part of its life, by what its queue may hold and what is
  armed: `Resting`, `LoggingIn`, `Waiting`, `Failing`, `Stopping`, `Serving`
  (or `Carrying`, while it is a jump host nobody has asked to end), `Closing`,
  `Ended`. The lemmas `LoggingInSteps`, `ServingSteps`, `ClosingSteps`, ... say
  from which part a task leads to which, and what it notifies;
- for each part, which events of it may be on their way (`Live`; `Stoppable`
  when it may be asked to close; `Stopped` when it was). DISCONNECTED is the last
  event of a connection (`Orderly`), so that when it is delivered nothing of
  that connection is left on the main queue;
- a session is in one of seven stages, by the parts its one or two connections
  are in: `Between`, `Alone` (no jump host), `Before` (the jump host logs in),
  `Through` (the connection runs in the tunnel), `Asked`, `JumpGone`,
  `ConnectionGone`. In `ConnectionGone` the jump host can no longer say
  CONNECTED, which would have started the other connection again; in `Through`
  the jump host is `Carrying`, which is `TunnelOutlivesTraffic`.

Connections of earlier sessions are over and silent (`Others`), those of later
ones untouched (`Unused`); this is where every connect having its own objects is
needed.

`Patient` is a hypothesis of all five, and the application does not see to it:
Disconnect stays enabled when Resume is pressed. A user who disconnects during
the login queues an end behind tasks that may fail by themselves, so that
DISCONNECTED is told twice, or comes before the CONNECTED of another
connection. Each theorem is false without it; with `Patient = FALSE` TLC shows

- `NoStrayEvent`: the second DISCONNECTED is delivered when the session of its
  sender is over;
- `ReadyForNextSession`: it is then taken for that of a jump host, and sets
  `isJumpClosed` (`SshTerminal.m:451`) between two sessions;
- `LetGoMeansReleased`: with `isJumpClosed` set the next session is over for the
  controller when its connection has ended, and it lets go of a jump host that
  is still up;
- `TunnelOutlivesTraffic`: a connection that was ended while its jump host logs
  in is started when the jump host says CONNECTED (403-412), after its own end;
  its DISCONNECTED, already on its way, ends the jump host under it (419-438).

The invariant was checked with TLC before it was proved, in the
instance of the run (24907 states) and with `MaxQueue` and `MaxEvents` 2, X11
and reverse tunnels and a tunnel connection (1593826 states); the attempt to
prove it showed that a question to the user excludes being logged in
(`Resumes`), which the first form left out.

`ProxyProofs` proves for any hosts, lists of addresses and excluded patterns, any
size of the buffer from six cells on and any replies of HTTP that grant, from
`ProxyAssumption`:

| Theorem | States |
|---|---|
| `ProxyInvariant` | `[]ProxyInv`, the inductive invariant |
| `ConnectedIsTheHostHolds` | `[]ConnectedIsTheHost` |
| `isMatchIsExact` | `isMatch` finds a match exactly when there is one |
| `BypassAlways` | `[]BypassIsExact` |

A `recv` may get any part of what the proxy sent, may fail, and may be the last
one. So the
invariant speaks of the whole answer, `All(r)`, and of a position in it: what is
in the socket and on the wire is what is left of `All(r)` from there on, but for
an end that a broken connection may have lost (`Left`). `ReadLeaves`,
`ArrivalLeaves` and `LossLeaves` say how the three things that can happen to a
stream move that position; each dialogue then only has to know how many cells its
replies have (`Socks4Replies`, `Socks5Replies`, ...). HTTP has no such count. There the
invariant says how far the search has come in the reply: not beyond the digit
of the status, not beyond the first space before that was found (`Passed`);
then not beyond the empty line, which the text of the host cannot make a second
of (`EndAhead`, `OneEnd`). What makes room in a full buffer takes three cells at most,
all of them before the place where the search goes on, and this is why the
buffer must have more than a few.

`isMatch` takes the first place of every piece between two wild cards and never
goes back; `isMatchIsExact` says that this loses nothing. The reference
(`Rests`) gives, for every place in the pattern, the places of the host from
which the rest matches. Behind a wild card the loop returns YES from a place
exactly when one of those is there or further on (`From`, `RoundBehind`): the
first place of a piece leaves the most text for what comes behind it. In front
of the first wild card there is no choice (`RoundFirst`). Both are recursive
functions; that they exist (`RestsExist`, `LoopsExist`) and what the loop
returns (`LoopsAre`) goes from the end of the pattern to its beginning through
`CountedDown`, as above for the telnet parser from its beginning through
`CountedUp`. Before it was proved, TLC compared the two for every host of up to
four and every pattern of up to five characters out of two letters and the wild
card.

`EmulatorProofs` proves for every width from two columns on, every height, every
argument of a command and any tab stops, from `EmulatorAssumption`:

| Theorem | States |
|---|---|
| `Damage` | `[]DamageIsNamed` |
| `InPlaceAlways` | `[]EditsStayInPlace` |
| `MarkedAlways` | `[]ChangedIsMarked` |
| `WithinMargins` | `OnlyPositioningLeavesMargins` |

The screen is one string, and every edit of it a deletion and an insertion, or a
replacement, of ranges computed from the cursor, the margins and the argument.
The proof has four layers:

- `Deleted`, `Inserted`, `Replaced` and `Filled`: how long the string is
  afterwards and which cells are where they were. `IsWhole` says that a string is
  the screen, `AgreeOutside` that two of them differ between two cells at most.
  A command that raises an exception leaves no whole string (`IsBroken`);
- the methods (`scrollBackIs`, `deleteInLineIs`, `insertInLineIs`, `writeIs`, ...):
  what each does to a whole string, and which rows it marks;
- the commands: each leaves a screen (`Stays`), and outside its condition of damage
  does not take the cursor over a margin (`Kept`); under that condition the
  screen is not sound any more. That is both halves of `DamageIsNamed`;
- `ChangedIs`: where cells agree, rows did not change; `ChangedIsMarked` then
  compares the rows that may have changed with the marks.

`DamageIsNamed` is not inductive: restoring the cursor puts it on the row that
was saved, and what keeps that row on the screen is that it was the cursor's on a
sound screen, and that whatever changes the height resets it to 0. So the
invariant is `Inv`: the types, `DamageIsNamed`, and `saved.y < rowCount`. The saved
margins have no such invariant, which is why leaving the alternate screen is on
the list of section 7. `Inv` was checked with TLC in the instance of the run
before it was proved (30688 states).

Only model-checked, and why:

- all liveness (`EndIsReported`, `LoginIsAnswered`, `UserIsAnswered`,
  `NobodyWaitsForEver`, ...), which the prover cannot do;
- `KeyLoadsAsWritten`: the files are enumerated in full by the run; there is
  nothing left to generalise but the parser itself.

## 7. What the checks found

With a run that exhibits it:

1. `VT100ScreenBuffer.m:1935`: after exactly a screenful of new lines since the
   last flush the cursor is looked for in the scrollback; the next resize by
   one row leaves it below the screen (`CursorOnScreen`).
2. `TelnetConnection.m:515`: a sub option that arrives in two pieces is not
   taken for incomplete, and its rest is shown as text (`TextIntact`).
3. `TelnetConnection.m:633`: the password goes out with the read that asked for
   the user name, before any prompt (`PasswordAfterPrompt`).
4. `ProxySocks4.m:76`: a reply is refused only if both of its bytes are wrong,
   so that a SOCKS4 proxy that refuses counts as connected, and
   `ConnectionIsComplete` fails. With one other type in `MCTypes` the same
   property fails as well: of an HTTP reply the last byte, a line feed, is left
   to the terminal (`ProxyHttp.m:137`); of a SOCKS5 reply with an IPv6 address
   19 bytes are asked for where 17 remain (`ProxySocks5.m:191`), so that two
   bytes of the host's text go with it and, if they do not come, the connect
   fails; of a host with two IPv6 addresses four bytes are sent to a SOCKS4
   proxy as an IPv4 address (`ProxySocks4.m:42`).

Exceptions that the properties of `SshAgent` and `Proxy` have to name, besides
those of finding 4; each fails its property when it is left out:

- `PuttyKey.c:414`: the result of `EVP_DecryptFinal` is 1 for success and is
  taken for a failure. A key loads because its padding is not the one the
  library expects; one whose last block happens to look padded is corrupted.
- `PuttyKey.c:435`: in format 1 the digest covers the private numbers only.
- `SshAgent.c:386`: the length of an ECDSA signature is written over its name,
  against the form the comment gives (367). `OverwrittenSignatures` proves that
  none of them can be read.
- `SshConnection.m:1231`: a header of two halves that were not sent together
  makes any length. If it is more than what is sent, the reader waits for it,
  and with something unread the task reschedules itself for ever (1271): not "to
  be sure the channel is completely emptied", as the comment there has it. If it
  is negative as an `int`, no buffer has it, and the program ends on an exception.
- `ProxyHttp.m:75, 129`: a reply that is cut is peeked at for ever.
- `ProxyHttp.m:201`: a host that cannot be resolved here, when it is to be, is
  asked for by no name at all.
- `TelnetTerminal.m:148`: an empty piece of the exclusion list (a comma at its
  end) excludes every host.

Established by `DamageIsNamed`, and proved for every size and argument, the
commands after which the screen string has the wrong length, an exception was
raised, the cursor is off the screen, or the margins are illegal, and when:

- CSI E, CSI F past a margin: the distance is computed with the wrong sign
  (1296, 1313), negative for most cursors.
- CSI @ and insert mode where the characters do not fit in the line: a whole
  line takes the place of fewer or more characters.
- CSI 1 K with a wrap pending; CSI 0 K, 0 J, 1 J two columns out, behind a
  surrogate pair written in the last column; a tab stop past the last column.
- A surrogate pair in the last cell of the screen.
- Backspace with back wrap on the first row, above the top margin.
- CSI r on a screen of one row, or with bottom 1 and a top above it: margins
  outside the screen, against "the top and bottom margins must be within the
  terminal screen" (1873).
- Leaving the alternate screen (1049, or 1015, which falls through) with
  margins nobody saved or saved for another height.
- A resize to fewer rows when the cursor is not found in the view.

Established by `SessionsAreOwned` and `DisconnectIsAnswered` of
`TelnetTerminal`, whose conditions the code does meet: a telnet connection says
DISCONNECTED again for each failure queued behind the first and for each key
typed after the end, and CONNECTED when its password was queued behind the end.
`signalError:` takes a second DISCONNECTED for one of the current connection
and lets go of it (`TelnetTerminal.m:512`); nobody can end that connection any
more. After a late CONNECTED the application offers Disconnect with nothing to
disconnect, and then disables Connect.

Established by the invariant of `ScreenBuffer`, with `exposed` and `displaced`:

- `VT100ScreenBuffer.m:176`: CSI S with no argument calls `addLine` with 0, which
  marks the row below the screen. If no other is marked, the next flush copies
  nothing and leaves the text with a line feed at its end (1957); the one after
  it puts its rows one line too low. A resize that takes marked rows away can
  leave only marks below the screen as well.

Established on `SshTerminalClient`:

- `SshTerminal.m:281`: after a paused jump host is resumed the terminal stays
  `sshTerminalPaused` although nothing waits; `send` drops what is typed.
- `SshTerminal.m:451`: a connection that is refused while an end is queued
  behind its login says DISCONNECTED twice; the second sets `isJumpClosed`
  for the next session. So it is with `Patient = FALSE`, a user who disconnects
  during the login, against "Get ready for next session." (378); what else
  fails then is in section 6.

Read, modelled as the code has it, and not the object of a run:

- CSI L and CSI M scroll the whole region between the margins wherever the
  cursor is, against the comments at 1363 and 1375.
- CSI 1 J erases the cursor's row from the cursor to its end, against the
  comment at 567.
- A source (and the keep alive timer) that a login task arms behind
  `closeAllChannels` is never cancelled; `OnlyLateOpenLeaksSource` says that it
  is the only way.
- After SERVER_FILE_NOT_FOUND and SERVER_ERROR (`SshConnection.m:614`), under
  "Fatal errors.", nothing is queued: unlike on every other path that fails the
  connection stays as it is until its client ends it. `LoginIsAnswered` takes the
  event for an answer and `UserIsAnswered` excepts it; a client that waits for
  DISCONNECTED waits for ever.
- `SshAgentRelease` is never called: the agent's keys are freed with the
  process (`KeyHasOneOwner` counts owners, not releases).
- `PuttyKeyDetectType` tests for EEXIST where a missing file says ENOENT
  (698), and returns the type of another enumeration for an unknown file
  (728), which then goes to the parser of PuTTY files.

## 8. What is not modelled

- The rest of the plan: descriptor ownership of tunnels, two parsers over one
  screen, the bytes of a sequence (section 2).
- Access from the main thread to a connection's channel and arrays
  (`setWidth`, `jumpPort`, `writeFrom`): in the models the queue's tasks are
  steps.
- Contents: texts of errors, attributes and colours, character sets, replies of
  the emulator to queries, window size in telnet.
- Malloc failures except where a module names them. So a channel for the agent
  that cannot be allocated ends an `SshAgent` session, but is not among the
  failures of `TerminalFailed` (`SshConnection.m:322-341`): it queues the same
  blocks as an end that comes at that moment, with one event more.
- A change of the number of columns (`VT100ScreenBuffer.m:2493`): the screen of
  `Emulator` keeps its width, and a resize changes its height.
- A SOCKS5 reply with a bound name of 128 bytes or more, whose length
  `ProxySocks5.m:183` reads as negative: the model's names have one byte.
- The text of the HTTP request, the directives in the command of
  `ProxyTelnet`, base64 and the digests themselves.
- Keyboard translation and drawing, preferences: no state between calls.
- libssh, OpenSSL and zlib: their headers are in the repository and make up
  nearly all of its C files; only the outcomes the code tests for are modelled.
  The program's own C is `SshAgent.c` and `PuttyKey.c`; the rest of it is
  Objective-C.
