------------------------------ MODULE SshAgent ------------------------------
(***************************************************************************)
(* The private key of a connection: read from its file and shown to the    *)
(* server (SshConnection.m, authenticateUser), handed to the agent         *)
(* (SshAgent.c) and used for the requests that arrive on the agent channel *)
(* (newTerminalDataAvailable).                                             *)
(*                                                                         *)
(* The channel carries cells: HeaderSize cells of a header and those of    *)
(* the body, of which the first one holds the type of the request.  Cells  *)
(* arrive one by one, the reader may run in between.  What libssh does:    *)
(* the server may open an agent channel at any time and gets the one       *)
(* channel object of the connection; what is unread stays in it.           *)
(***************************************************************************)
EXTENDS PuttyKey, SignatureBlob

CONSTANTS
  Client,       \* the programs on the server that open the agent channel
  Passphrase,   \* the passphrases of lock and unlock requests
  MaxRequests,  \* how many requests the clients send
  ImportedTypes, \* the types of the OpenSSH keys
  Flags,        \* the flags of sign requests
  SignedSize,   \* the length of a signature
  JoinedLengths \* the lengths that two joined halves of headers may give

KeyTypes == {"ssh-rsa", "ssh-dss", "ecdsa-256", "ecdsa-384", "ecdsa-521",
             "ssh-ed25519"}

ASSUME SshAgentAssumption ==
    /\ MaxRequests \in Nat /\ SignedSize \in Nat
    /\ JoinedLengths \subseteq Nat
    /\ ImportedTypes \subseteq KeyTypes /\ Flags \subseteq {0, 2, 4}

VARIABLES
  login,     \* phase of authenticateUser, the file, its outcome, the event
  agent,     \* SshAgentContext, and the owners of the loaded key
  channel,   \* agentChannel: the client it is bound to, is it open, unread
  agentBuffer, \* agentBuffer.length
  clients,   \* the state of each client
  scheduled  \* newTerminalDataAvailable is in the queue
vars == <<login, agent, channel, agentBuffer, clients, scheduled>>

HeaderSize == 2
Nobody == "nobody"
NoRequest == [type |-> "none"]
Request ==
    {[type |-> "REQUEST_IDENTITIES"], [type |-> "unsupported"],
     [type |-> "unknown"], NoRequest}
    \cup [type : {"SIGN_REQUEST"}, mine : BOOLEAN, flags : Flags]
    \cup [type : {"LOCK", "UNLOCK"}, pass : Passphrase]
BodySize(r) == IF r.type \in {"SIGN_REQUEST", "LOCK", "UNLOCK"} THEN 2 ELSE 1
Cells(c, r) == [i \in 1..(HeaderSize + BodySize(r)) |->
                   [from |-> c, req |-> r, at |-> i]]

NoReply == [kind |-> "none"]
Failure == [kind |-> "FAILURE"]
Success == [kind |-> "SUCCESS"]

Init ==
    /\ login \in [phase : {"detect"}, file : KeyFiles, forwarding : BOOLEAN,
                  outcome : {Outcome("FAIL")}, keyType : {"none"},
                  event : {"none"}]
    /\ agent = [keys |-> <<>>, isLocked |-> FALSE, lockPassword |-> <<>>,
                inHand |-> 0, freed |-> 0]
    /\ channel = [client |-> Nobody, isOpen |-> FALSE, unread |-> <<>>,
                  orderly |-> TRUE, left |-> MaxRequests]
    /\ agentBuffer = 0
    /\ clients = [c \in Client |-> [state |-> "new", asked |-> NoRequest,
                     arrived |-> 0, given |-> NoReply]]
    /\ scheduled = FALSE

-----------------------------------------------------------------------------
(* authenticateUser.                                                       *)

\* eventNotify with the block that closes the channels.
Closed(event) == login' = [login EXCEPT !.phase = "closed", !.event = event]

\* SshAgentNew returns NULL.
NoAgent == /\ login.phase = "detect" /\ login.forwarding
           /\ Closed("OUT_OF_MEMORY_ERROR")
           /\ UNCHANGED <<agent, channel, agentBuffer, clients, scheduled>>

DetectEvent(detected) ==
    IF detected = "KEY_TYPE_ACCESS_DENIED" THEN "KEY_FILE_NOT_FOUND_OR_DENIED"
    ELSE "FATAL_ERROR"

DetectFails ==
    LET detected == PuttyKeyDetectType(login.file)
    IN  /\ login.phase = "detect"
        /\ detected \in {"KEY_TYPE_ERROR", "KEY_TYPE_UNKNOWN",
                         "KEY_TYPE_ACCESS_DENIED"}
        /\ Closed(DetectEvent(detected))
        /\ UNCHANGED <<agent, channel, agentBuffer, clients, scheduled>>

\* ssh_pki_import_privkey_file: any type of key, or an error.
ImportOpenSsh ==
    /\ login.phase = "detect"
    /\ PuttyKeyDetectType(login.file) = "KEY_TYPE_OPEN_SSH"
    /\ \/ \E t \in ImportedTypes :
             /\ login' = [login EXCEPT !.phase = "loaded", !.keyType = t]
             /\ agent' = [agent EXCEPT !.inHand = 1]
       \/ /\ Closed("KEY_FILE_NOT_FOUND_OR_DENIED") \/ Closed("FATAL_ERROR")
          /\ UNCHANGED agent
    /\ UNCHANGED <<channel, agentBuffer, clients, scheduled>>

LoadEvent(code) ==
    CASE code = "FAIL_OUT_OF_MEMORY" -> "OUT_OF_MEMORY_ERROR"
      [] code = "FAIL_WRONG_PASSWORD" -> "PASSWORD_AUTHENTICATION_DENIED"
      [] OTHER -> "FATAL_ERROR"

\* PuttyKeyLoadPrivate may also find no memory at any of its allocations.
LoadOutcomes(file) == {PuttyKeyLoadPrivate(file, whole) : whole \in BOOLEAN}
                      \cup {Outcome("FAIL_OUT_OF_MEMORY")}

\* Whatever is no OpenSSH key goes to PuttyKeyLoadPrivate.
LoadPutty ==
    /\ login.phase = "detect"
    /\ PuttyKeyDetectType(login.file) \in {"KEY_TYPE_PUTTY",
                                           "SSH_KEYTYPE_UNKNOWN"}
    /\ \E o \in LoadOutcomes(login.file) :
          LET loaded == o.code = "SUCCESS"
          IN  /\ login' = [login EXCEPT !.outcome = o,
                    !.phase = IF loaded THEN "loaded" ELSE "refused",
                    !.keyType = o.key.type,
                    !.event = IF loaded THEN "none" ELSE LoadEvent(o.code)]
              /\ agent' = [agent EXCEPT !.inHand = IF loaded THEN 1 ELSE 0]
    /\ UNCHANGED <<channel, agentBuffer, clients, scheduled>>

\* key == NULL: close.
KeyRefused == /\ login.phase = "refused"
              /\ login' = [login EXCEPT !.phase = "closed"]
              /\ UNCHANGED <<agent, channel, agentBuffer, clients, scheduled>>

\* The file and what was made of it are no longer of interest.
Forget(l) == [l EXCEPT !.file = CHOOSE f \in KeyFiles : f.opens = "openssh",
                       !.outcome = Outcome("FAIL")]

SshAgentAddKey(a) == [a EXCEPT !.keys = Append(@, login.keyType),
                               !.inHand = @ - 1]
\* Variant: the key is forgotten and not freed.
FreeKeyForgotten(a) == [a EXCEPT !.inHand = @ - 1]
FreeKey(a) == [a EXCEPT !.inHand = @ - 1, !.freed = @ + 1]

\* ssh_userauth_publickey answered: the key goes to the agent or is freed.
Authenticated ==
    /\ login.phase = "loaded"
    /\ \/ /\ login.forwarding
          /\ agent' = SshAgentAddKey(agent)
          /\ login' = [Forget(login) EXCEPT !.phase = "serving"]
       \/ /\ ~login.forwarding
          /\ agent' = FreeKey(agent)
          /\ login' = [Forget(login) EXCEPT !.phase = "serving"]
       \/ /\ agent' = FreeKey(agent)     \* no room in the agent, or denied
          /\ \E e \in {"OUT_OF_MEMORY_ERROR", "FATAL_ERROR",
                       "PASSWORD_AUTHENTICATION_DENIED"} :
                /\ e = "OUT_OF_MEMORY_ERROR" => login.forwarding
                /\ login' = [Forget(login) EXCEPT !.phase = "closed",
                                                  !.event = e]
    /\ UNCHANGED <<channel, agentBuffer, clients, scheduled>>

-----------------------------------------------------------------------------
(* SshAgentReplyFromRequest: the reply and the context after it.           *)

\* Variant: a locked agent shows its keys.
KeysAlways(a) == a.keys
Keys(a) == IF a.isLocked THEN <<>> ELSE a.keys

Identities(a) ==
    [kind |-> IF Keys(a) = <<>> THEN "no identities" ELSE "identities"]

\* SshAgentSign and SshAgentSignRsa: the algorithm for a type and flags.
SshAgentSign(type, flags) ==
    CASE type = "ssh-dss" -> "ssh-dss"
      [] type = "ssh-rsa" /\ flags = 2 -> "rsa-sha2-256"
      [] type = "ssh-rsa" /\ flags = 4 -> "rsa-sha2-512"
      [] type = "ssh-rsa" /\ flags = 0 -> "ssh-rsa"
      [] type = "ecdsa-256" -> "ecdsa-sha2-nistp256"
      [] type = "ecdsa-384" -> "ecdsa-sha2-nistp384"
      [] type = "ecdsa-521" -> "ecdsa-sha2-nistp521"
      [] type = "ssh-ed25519" -> "ssh-ed25519"

SignRefused(a, r) == a.isLocked \/ r.flags # 0 \/ ~r.mine \/ a.keys = <<>>

\* signs: SshAgentSign makes a signature and the reply finds its memory.
MakeSignatureReply(a, r, signs) ==
    IF SignRefused(a, r) \/ ~signs THEN Failure
    ELSE LET algorithm == SshAgentSign(a.keys[1], r.flags)
         IN  [kind |-> "SIGN_RESPONSE", algorithm |-> algorithm]

ProcessLockRequest(a, r) ==
    IF a.isLocked THEN <<Failure, a>>
    ELSE <<Success, [a EXCEPT !.isLocked = TRUE, !.lockPassword = r.pass]>>

\* strncmp over the length of the request.
Unlocks(a, r) == a.isLocked /\ IsPrefix(r.pass, a.lockPassword)

ProcessUnlockRequest(a, r) ==
    IF ~Unlocks(a, r) THEN <<Failure, a>>
    ELSE <<Success, [a EXCEPT !.isLocked = FALSE, !.lockPassword = <<>>]>>

ReplyFromRequest(a, r, signs) ==
    CASE r.type = "REQUEST_IDENTITIES" -> <<Identities(a), a>>
      [] r.type = "SIGN_REQUEST" -> <<MakeSignatureReply(a, r, signs), a>>
      [] r.type = "LOCK" -> ProcessLockRequest(a, r)
      [] r.type = "UNLOCK" -> ProcessUnlockRequest(a, r)
      [] r.type = "unsupported" -> <<Failure, a>>
      [] r.type = "unknown" -> <<NoReply, a>>

\* What the cells of agentBuffer may be taken for: the request of which they
\* are the body; a request of that type if they only begin one; no known
\* type if they begin a header, whose first byte is zero; anything else if
\* they begin in the middle, what lies behind them included.
RequestsIn(cells) ==
    LET first == cells[1]
        body == SubSeq(Cells(first.from, first.req), HeaderSize + 1,
                       HeaderSize + BodySize(first.req))
    IN  {r \in Request \ {NoRequest} :
            /\ cells = body => r = first.req
            /\ first.at = HeaderSize + 1 => r.type = first.req.type
            /\ first.at = 1 => r.type = "unknown"}

\* Two halves of different headers, or a half and the start of a body: the
\* four bytes of it are any number.
Joined(cells) ==
    ~(cells[1].at = 1 /\ cells[2].at = 2 /\ cells[1].from = cells[2].from)
\* Variant: the length is taken to include the header.
LengthsWithHeader(cells) ==
    IF Joined(cells) THEN JoinedLengths
    ELSE {HeaderSize + BodySize(cells[1].req)}
LengthsIn(cells) ==
    IF Joined(cells) THEN JoinedLengths ELSE {BodySize(cells[1].req)}

-----------------------------------------------------------------------------
(* The agent part of newTerminalDataAvailable.                             *)

HeaderCells == IF agentBuffer = 0 /\ Len(channel.unread) >= HeaderSize
               THEN HeaderSize ELSE 0
Lengths == IF HeaderCells = 0 THEN {agentBuffer} ELSE LengthsIn(channel.unread)
AfterHeader == SubSeq(channel.unread, HeaderCells + 1, Len(channel.unread))
\* Variant: a request waits for a cell more than it has.
CompleteBeyond(n) == Len(AfterHeader) > n
Complete(n) == Len(AfterHeader) >= n

Serving == login.phase = "serving" /\ scheduled

\* The channel is not open: nothing is read, nothing is rescheduled.
ReadClosed == /\ Serving /\ ~channel.isOpen
              /\ scheduled' = FALSE
              /\ UNCHANGED <<login, agent, channel, agentBuffer, clients>>

\* The request is not complete; the task comes again if there was data.
ReadPart ==
    /\ Serving /\ channel.isOpen
    /\ \E n \in Lengths :
          /\ n = 0 \/ ~Complete(n)
          /\ agentBuffer' = n
    /\ channel' = [channel EXCEPT !.unread = AfterHeader]
    /\ scheduled' = (channel.unread # <<>>)
    /\ UNCHANGED <<login, agent, clients>>

\* The request is complete: the reply goes to the client the channel is
\* bound to; a request that makes no reply closes the connection.
TakeRequest(n, r, signs) ==
    LET reply == ReplyFromRequest(agent, r, signs)
    IN  /\ channel' = [channel EXCEPT !.unread =
                          SubSeq(AfterHeader, n + 1, Len(AfterHeader))]
        /\ agent' = reply[2]
        /\ IF reply[1] = NoReply
           THEN /\ login' = [login EXCEPT !.phase = "broken",
                                  !.event = "OUT_OF_MEMORY_ERROR"]
                /\ agentBuffer' = n
                /\ scheduled' = FALSE
                /\ UNCHANGED clients
           ELSE /\ clients' = [clients EXCEPT
                                  ![channel.client].given = reply[1]]
                /\ agentBuffer' = 0
                /\ scheduled' = TRUE
                /\ UNCHANGED login

ReadRequest ==
    /\ Serving /\ channel.isOpen
    /\ \E n \in Lengths \ {0} :
          /\ Complete(n)
          /\ \E r \in RequestsIn(SubSeq(AfterHeader, 1, n)),
                signs \in BOOLEAN : TakeRequest(n, r, signs)

\* The number in a joined header is negative as an int: no buffer has that
\* length, and the exception ends the program.
ReadRaises ==
    /\ Serving /\ channel.isOpen
    /\ HeaderCells # 0 /\ Joined(channel.unread)
    /\ login' = [login EXCEPT !.phase = "ended"]
    /\ UNCHANGED <<agent, channel, agentBuffer, clients, scheduled>>

\* The terminal channel is at its end: closeAllChannels.
TerminalEnds == /\ login.phase = "serving"
                /\ login' = [login EXCEPT !.phase = "ended"]
                /\ UNCHANGED <<agent, channel, agentBuffer, clients, scheduled>>

-----------------------------------------------------------------------------
(* The server, its clients and libssh.                                     *)

Up == login.phase = "serving" /\ login.forwarding
Owed(c) == clients[c].asked # NoRequest /\ clients[c].given = NoReply

\* authAgentCallback returns the channel of the connection.
OpenAgentChannel(c) ==
    /\ Up /\ clients[c].state = "new"
    /\ clients' = [clients EXCEPT ![c].state = "open"]
    /\ channel' = [channel EXCEPT !.client = c, !.isOpen = TRUE,
                                  !.orderly = @ /\ ~channel.isOpen]
    /\ UNCHANGED <<login, agent, agentBuffer, scheduled>>

\* The first channel cannot be allocated.
NoChannel == /\ Up /\ channel.client = Nobody
             /\ Closed("OUT_OF_MEMORY_ERROR")
             /\ UNCHANGED <<agent, channel, agentBuffer, clients, scheduled>>

SendRequest(c, r) ==
    /\ Up /\ clients[c].state = "open" /\ ~Owed(c) /\ r # NoRequest
    /\ channel.left > 0
    /\ clients' = [clients EXCEPT ![c].asked = r, ![c].arrived = 0,
                                  ![c].given = NoReply]
    /\ channel' = [channel EXCEPT !.left = @ - 1]
    /\ UNCHANGED <<login, agent, agentBuffer, scheduled>>

\* One more cell arrives and wakes the reader; the cells of a client whose
\* channel was bound to another one go nowhere, which nobody here sees.
Deliver(c) ==
    LET cells == Cells(c, clients[c].asked)
        i == clients[c].arrived + 1
    IN  /\ Up /\ clients[c].state = "open" /\ channel.client = c
        /\ clients[c].asked # NoRequest /\ i <= Len(cells)
        /\ clients' = [clients EXCEPT ![c].arrived = i]
        /\ channel' = [channel EXCEPT !.unread = Append(@, cells[i])]
        /\ scheduled' = TRUE
        /\ UNCHANGED <<login, agent, agentBuffer>>

CloseAgentChannel(c) ==
    /\ Up /\ clients[c].state = "open"
    /\ clients' = [clients EXCEPT ![c].state = "gone"]
    /\ channel' = [channel EXCEPT
            !.isOpen = IF channel.client = c THEN FALSE ELSE @,
            !.orderly = @ /\ ~Owed(c)]
    /\ scheduled' = TRUE
    /\ UNCHANGED <<login, agent, agentBuffer>>

Reader == ReadClosed \/ ReadPart \/ ReadRequest \/ ReadRaises
LoginStep == NoAgent \/ DetectFails \/ ImportOpenSsh \/ LoadPutty
             \/ KeyRefused \/ Authenticated
Next == \/ LoginStep \/ Reader \/ TerminalEnds \/ NoChannel
        \/ \E c \in Client :
              \/ OpenAgentChannel(c) \/ Deliver(c) \/ CloseAgentChannel(c)
              \/ \E r \in Request : SendRequest(c, r)

Spec == Init /\ [][Next]_vars

\* A dispatch queue runs what is in it, and what a client sent arrives.
Fairness == WF_vars(Reader) /\ \A c \in Client : WF_vars(Deliver(c))
FairSpec == Spec /\ Fairness

-----------------------------------------------------------------------------
(* Properties.                                                             *)

\* The types.
TypeOK ==
    /\ login.phase \in {"detect", "loaded", "refused", "serving", "broken",
                        "ended", "closed"}
    /\ login.outcome.code \in KeyLoadReturns
    /\ login.keyType \in KeyTypes \cup {"none"}
    /\ PuttyKeyDetectType(login.file) \in KeyTypeReturns
    /\ agent.keys \in Seq(KeyTypes) /\ agent.isLocked \in BOOLEAN
    /\ agent.lockPassword \in Passphrase \cup {<<>>}
    /\ agent.inHand \in 0..1 /\ agent.freed \in 0..1
    /\ channel.client \in Client \cup {Nobody}
    /\ channel.isOpen \in BOOLEAN /\ channel.orderly \in BOOLEAN
    /\ \A i \in DOMAIN channel.unread :
          channel.unread[i].req \in Request \ {NoRequest}
    /\ agentBuffer \in 0..2 \cup JoinedLengths /\ scheduled \in BOOLEAN
    /\ \A c \in Client : clients[c].asked \in Request

\* A file that PuTTYgen wrote loads to the key it was written for when the
\* right passphrase is configured, whatever the format, the type and the
\* number of lines; the exception is a key whose decrypted text happens to
\* end like a padded block: EVP_DecryptFinal then succeeds, which
\* PuttyKeyParseData takes for the failure (PuttyKey.c:414).
KeyOf(w) == [type |-> w.type,
             public |-> Fields(PublicNumbers(w.type), Plain),
             private |-> Fields(PrivateNumbers(w.type), Plain)]
Undamaged(file) == file.opens = "read" /\ file.lines = Written(file.of)
WrittenKeyLoads ==
    LET f == login.file
    IN  /\ login.phase = "refused" /\ Undamaged(f)
        /\ f.of.password \in {Plain, f.password}
        => login.outcome.code \in {"FAIL", "FAIL_OUT_OF_MEMORY"}
           \/ (f.of.password # Plain /\ f.looksPadded)

\* A file that is damaged anywhere loads to no key but the one it was
\* written for; in format 1 the digest covers the private numbers only, and
\* a changed public blob passes.
LoadedKeyIsWritten ==
    LET k == login.outcome.key
        w == login.file.of
    IN  login.outcome.code = "SUCCESS" =>
            /\ k.type = w.type /\ k.private = KeyOf(w).private
            /\ w.format = 2 => k = KeyOf(w)

\* Both: what a login gets out of a file of PuTTYgen is what is in it.
KeyLoadsAsWritten == WrittenKeyLoads /\ LoadedKeyIsWritten

\* The loaded key has one owner at any time: authenticateUser, then the
\* agent, or ssh_key_free, on every path that fails as well.
KeyHasOneOwner ==
    /\ agent.inHand + Len(agent.keys) + agent.freed =
          (IF login.keyType = "none" THEN 0 ELSE 1)
    /\ login.phase \notin {"detect", "loaded"} => agent.inHand = 0

\* The reader never loses the frame of a request while programs come one
\* after the other and leave none behind: without a program that waits
\* nothing is unread and no length is kept from an earlier read or an
\* earlier program, and with one, what is unread is what arrived of its
\* request, without the header once agentBuffer has the length of the body.
\* Once they do (~orderly), the next header may be read out of the rest of
\* another request: SshConnection.m:1218 has one agentBuffer and one channel
\* for all of them.
Frame(c) ==
    LET r == clients[c].asked
        k == IF agentBuffer = 0 THEN 0 ELSE HeaderSize
    IN  /\ agentBuffer \in {0, BodySize(r)}
        /\ channel.unread = SubSeq(Cells(c, r), k + 1, clients[c].arrived)
Framed ==
    channel.orderly /\ login.phase # "broken" =>
        /\ \A c \in Client : Owed(c) => Frame(c)
        /\ (\A c \in Client : ~Owed(c)) =>
              channel.unread = <<>> /\ agentBuffer = 0

\* A signature the agent gives can be read in the form the comments of
\* SshAgent.c state; not so those of ECDSA keys, whose length is written
\* over the name of the algorithm (SshAgent.c:386).
SignatureIsReadable ==
    \A c \in Client : clients[c].given.kind = "SIGN_RESPONSE" =>
        LET a == clients[c].given.algorithm
        IN  a \in Ecdsa \/ Readable(SignatureWrites(a, SignedSize), a, SignedSize)

\* However a request is cut into pieces it gets one answer, the one the
\* state of the agent calls for, and it is the client that asked who gets
\* it; nothing but a request of an unknown type ends the session.  Once
\* programs mix, the one that has the channel may get the answer to what
\* the reader makes of several requests; but also then every answer is one
\* that the lock calls for, and the lock changes with an answer only.
Session == CASE login.phase = "broken" -> "broken"
             [] login.phase \in {"ended", "closed"} -> "ended"
             [] OTHER -> "serving"
Promise == INSTANCE AgentService WITH
    locked <- agent.isLocked, secret <- agent.lockPassword,
    asked <- [c \in Client |-> clients[c].asked],
    given <- [c \in Client |-> clients[c].given.kind],
    session <- Session, orderly <- channel.orderly
ImplementsService == Promise!Service

\* A client that waits is answered, as long as the session lasts and no
\* other client opens the channel or leaves a request behind.  Also when they
\* do, the reader leaves nothing unread that it has the whole of: once there
\* is something it comes again until a header or a body is missing cells.
\* These may never come: where a joined header gives a length beyond all that
\* is sent, the task comes again for ever and reads nothing more
\* (SshConnection.m:1231, 1271).
MissingCells ==
    Len(channel.unread) < (IF agentBuffer = 0 THEN HeaderSize ELSE agentBuffer)
RequestIsAnswered ==
    /\ \A c \in Client :
          Owed(c) ~> (~Owed(c) \/ clients[c].state = "gone"
                      \/ ~channel.orderly \/ login.phase # "serving")
    /\ scheduled /\ channel.unread # <<>> ~>
          (MissingCells \/ ~channel.isOpen \/ login.phase # "serving")
=============================================================================
