--------------------------- MODULE SshAgentProofs ---------------------------
(***************************************************************************)
(* Who owns the private key, for any clients, passphrases, flags and       *)
(* bounds.  The invariant has three parts: where the key is, by phase of   *)
(* the login; that the context is one, so that an update of one field      *)
(* leaves the others; and that what is unread is made of requests, without *)
(* which nothing would be known of the context after a reply.              *)
(***************************************************************************)
EXTENDS SshAgent, TLAPS

\* No owner yet; authenticateUser; the agent, or nobody any more.
NowhereYet == /\ login.keyType = "none"
              /\ agent.keys = <<>> /\ agent.inHand = 0 /\ agent.freed = 0
InHand == /\ login.keyType # "none"
          /\ agent.keys = <<>> /\ agent.inHand = 1 /\ agent.freed = 0
GivenAway == /\ login.keyType # "none" /\ agent.inHand = 0
             /\ \/ agent.keys = <<>> /\ agent.freed = 1
                \/ agent.keys = <<login.keyType>> /\ agent.freed = 0

Owner == CASE login.phase \in {"detect", "refused"} -> NowhereYet
           [] login.phase = "loaded" -> InHand
           [] login.phase \in {"serving", "broken", "ended"} -> GivenAway
           [] OTHER -> NowhereYet \/ GivenAway

IsLogin(l) == l = [phase |-> l.phase, file |-> l.file,
                   forwarding |-> l.forwarding, outcome |-> l.outcome,
                   keyType |-> l.keyType, event |-> l.event]
IsContext(a) == a = [keys |-> a.keys, isLocked |-> a.isLocked,
                     lockPassword |-> a.lockPassword, inHand |-> a.inHand,
                     freed |-> a.freed]

IsClient(d) == /\ DOMAIN d = {"state", "asked", "arrived", "given"}
               /\ d.asked \in Request /\ d.arrived \in Nat
Asked == Request \ {NoRequest}
Cell == [from : Client, req : Asked, at : Nat]
Wires ==
    /\ channel \in [client : Client \cup {Nobody}, isOpen : BOOLEAN,
                    unread : Seq(Cell), orderly : BOOLEAN, left : Int]
    /\ agentBuffer \in Nat
    /\ DOMAIN clients = Client
    /\ \A c \in Client : IsClient(clients[c])

KeyInv == IsLogin(login) /\ IsContext(agent) /\ Owner /\ Wires

-----------------------------------------------------------------------------
(* The operators.                                                          *)

\* PuttyKeyLoadPrivate returns a key exactly when it succeeds, and then one
\* of a type the program knows (PuttyKey.c:637).
LEMMA LoadReturnsKey ==
    ASSUME NEW file, NEW o \in LoadOutcomes(file)
    PROVE  IF o.code = "SUCCESS" THEN o.key.type \in {"ssh-dss", "ssh-rsa"}
           ELSE o.key.type = "none"
<1> DEFINE loaded(whole) == PuttyKeyLoadPrivate(file, whole)
           type == file.lines[1].val.type
<1>1. \A code : Outcome(code).code = code /\ Outcome(code).key.type = "none"
  BY DEF Outcome, NoKey
<1>2. ASSUME NEW whole
      PROVE  \/ \E code \in {"FAIL", "FAIL_CORRUPTED", "FAIL_INVALID_ARG",
                             "FAIL_WRONG_PASSWORD"} :
                    loaded(whole) = Outcome(code)
             \/ /\ type \in {"ssh-dss", "ssh-rsa"}
                /\ \E public, private :
                      loaded(whole) = [code |-> "SUCCESS",
                          key |-> [type |-> type, public |-> public,
                                   private |-> private]]
  BY Zenon DEF PuttyKeyLoadPrivate, PuttyKeyParseData
<1>3. CASE o = Outcome("FAIL_OUT_OF_MEMORY")
  BY <1>1, <1>3
<1>4. CASE \E whole \in BOOLEAN : o = loaded(whole)
  <2> HIDE DEF loaded, type
  <2> QED
    BY <1>1, <1>2, <1>4
<1> QED
  BY <1>3, <1>4 DEF LoadOutcomes

\* A request changes the lock and its passphrase at most (SshAgent.c:712).
LEMMA ReplyKeepsKeys ==
    ASSUME NEW a, IsContext(a), NEW r \in Asked, NEW signs
    PROVE  LET b == ReplyFromRequest(a, r, signs)[2]
           IN  /\ IsContext(b) /\ b.keys = a.keys
               /\ b.inHand = a.inHand /\ b.freed = a.freed
<1>1. r.type \in {"REQUEST_IDENTITIES", "unsupported", "unknown",
                  "SIGN_REQUEST", "LOCK", "UNLOCK"}
  BY DEF Asked, Request, NoRequest
<1>2. /\ ProcessLockRequest(a, r)[2] \in
            {a, [a EXCEPT !.isLocked = TRUE, !.lockPassword = r.pass]}
      /\ ProcessUnlockRequest(a, r)[2] \in
            {a, [a EXCEPT !.isLocked = FALSE, !.lockPassword = <<>>]}
  BY DEF ProcessLockRequest, ProcessUnlockRequest
<1>3. ReplyFromRequest(a, r, signs)[2] \in
          {a, ProcessLockRequest(a, r)[2], ProcessUnlockRequest(a, r)[2]}
  BY <1>1 DEF ReplyFromRequest
<1> DEFINE b == ReplyFromRequest(a, r, signs)[2]
<1>4. CASE b = a
  BY <1>4
<1>5. ASSUME NEW locked, NEW pass,
             b = [a EXCEPT !.isLocked = locked, !.lockPassword = pass]
      PROVE  b = [keys |-> a.keys, isLocked |-> locked, lockPassword |-> pass,
                  inHand |-> a.inHand, freed |-> a.freed]
  <2> HIDE DEF b
  <2>1. ASSUME NEW k, NEW i, NEW w, NEW h, NEW f
        PROVE  [[keys |-> k, isLocked |-> i, lockPassword |-> w, inHand |-> h,
                 freed |-> f] EXCEPT !.isLocked = locked,
                                     !.lockPassword = pass]
               = [keys |-> k, isLocked |-> locked, lockPassword |-> pass,
                  inHand |-> h, freed |-> f]
    <3>1. [[keys |-> k, isLocked |-> i, lockPassword |-> w, inHand |-> h,
            freed |-> f] EXCEPT !.isLocked = locked]
          = [keys |-> k, isLocked |-> locked, lockPassword |-> w,
             inHand |-> h, freed |-> f]
      OBVIOUS
    <3>2. [[keys |-> k, isLocked |-> locked, lockPassword |-> w, inHand |-> h,
            freed |-> f] EXCEPT !.lockPassword = pass]
          = [keys |-> k, isLocked |-> locked, lockPassword |-> pass,
             inHand |-> h, freed |-> f]
      OBVIOUS
    <3> QED
      BY <3>1, <3>2, Zenon
  <2> QED
    BY <2>1, <1>5 DEF IsContext
<1>6. CASE b # a
  <2>1. \E locked, pass :
           b = [a EXCEPT !.isLocked = locked, !.lockPassword = pass]
    BY <1>2, <1>3, <1>6
  <2>2. PICK locked, pass :
           b = [keys |-> a.keys, isLocked |-> locked, lockPassword |-> pass,
                inHand |-> a.inHand, freed |-> a.freed]
    <3> HIDE DEF b
    <3> QED
      BY <2>1, <1>5
  <2> HIDE DEF b
  <2>3. /\ IsContext(b) /\ b.keys = a.keys
        /\ b.inHand = a.inHand /\ b.freed = a.freed
    BY <2>2 DEF IsContext
  <2> QED
    BY <2>3 DEF b
<1> QED
  BY <1>4, <1>6

\* Whatever the reader takes for a request is one that was sent, or one of an
\* unknown type.
LEMMA ReadsRequests ==
    ASSUME NEW cells
    PROVE  RequestsIn(cells) \subseteq Asked
BY DEF RequestsIn, Asked

LEMMA LengthIsNat ==
    ASSUME NEW cells, cells[1] \in Cell
    PROVE  LengthsIn(cells) \subseteq Nat
BY SshAgentAssumption DEF LengthsIn, BodySize

-----------------------------------------------------------------------------
(* Init and the actions.                                                   *)

\* authenticateUser starts without a key and without an unread cell.
LEMMA KeyInit == Init => KeyInv
<1> SUFFICES ASSUME Init PROVE KeyInv
  OBVIOUS
<1>1. IsLogin(login) /\ login.phase = "detect" /\ login.keyType = "none"
  BY DEF Init, IsLogin
<1>2. IsContext(agent) /\ Owner
  BY <1>1 DEF Init, IsContext, Owner, NowhereYet
<1>3. Wires
  BY SshAgentAssumption DEF Init, Wires, IsClient, Request, NoRequest
<1> QED
  BY <1>1, <1>2, <1>3 DEF KeyInv

\* An update of one field of login leaves the others.
LEMMA LoginPhase ==
    ASSUME NEW l, IsLogin(l), NEW x
    PROVE  LET m == [l EXCEPT !.phase = x]
           IN  IsLogin(m) /\ m.phase = x /\ m.keyType = l.keyType
<1>1. PICK p, f, w, o, t, e :
         l = [phase |-> p, file |-> f, forwarding |-> w,
              outcome |-> o, keyType |-> t, event |-> e]
  BY DEF IsLogin
<1> QED
  BY <1>1 DEF IsLogin

\* The same for the type of the key.
LEMMA LoginKeyType ==
    ASSUME NEW l, IsLogin(l), NEW x
    PROVE  LET m == [l EXCEPT !.keyType = x]
           IN  IsLogin(m) /\ m.phase = l.phase /\ m.keyType = x
<1>1. PICK p, f, w, o, t, e :
         l = [phase |-> p, file |-> f, forwarding |-> w,
              outcome |-> o, keyType |-> t, event |-> e]
  BY DEF IsLogin
<1> QED
  BY <1>1 DEF IsLogin

\* The same for the event.
LEMMA LoginEvent ==
    ASSUME NEW l, IsLogin(l), NEW x
    PROVE  LET m == [l EXCEPT !.event = x]
           IN  IsLogin(m) /\ m.phase = l.phase /\ m.keyType = l.keyType
<1>1. PICK p, f, w, o, t, e :
         l = [phase |-> p, file |-> f, forwarding |-> w,
              outcome |-> o, keyType |-> t, event |-> e]
  BY DEF IsLogin
<1> QED
  BY <1>1 DEF IsLogin

\* The same for the outcome.
LEMMA LoginOutcome ==
    ASSUME NEW l, IsLogin(l), NEW x
    PROVE  LET m == [l EXCEPT !.outcome = x]
           IN  IsLogin(m) /\ m.phase = l.phase /\ m.keyType = l.keyType
<1>1. PICK p, f, w, o, t, e :
         l = [phase |-> p, file |-> f, forwarding |-> w,
              outcome |-> o, keyType |-> t, event |-> e]
  BY DEF IsLogin
<1> QED
  BY <1>1 DEF IsLogin

\* The same for the file.
LEMMA LoginFile ==
    ASSUME NEW l, IsLogin(l), NEW x
    PROVE  LET m == [l EXCEPT !.file = x]
           IN  IsLogin(m) /\ m.phase = l.phase /\ m.keyType = l.keyType
<1>1. PICK p, f, w, o, t, e :
         l = [phase |-> p, file |-> f, forwarding |-> w,
              outcome |-> o, keyType |-> t, event |-> e]
  BY DEF IsLogin
<1> QED
  BY <1>1 DEF IsLogin

\* An update of one field of the agent leaves the others: its keys.
LEMMA ContextKeys ==
    ASSUME NEW l, IsContext(l), NEW x
    PROVE  LET m == [l EXCEPT !.keys = x]
           IN  IsContext(m) /\ m.keys = x /\ m.inHand = l.inHand
               /\ m.freed = l.freed
<1>1. PICK k, i, w, h, f :
         l = [keys |-> k, isLocked |-> i, lockPassword |-> w,
              inHand |-> h, freed |-> f]
  BY DEF IsContext
<1> QED
  BY <1>1 DEF IsContext

\* The key that authenticateUser holds.
LEMMA ContextInHand ==
    ASSUME NEW l, IsContext(l), NEW x
    PROVE  LET m == [l EXCEPT !.inHand = x]
           IN  IsContext(m) /\ m.keys = l.keys /\ m.inHand = x
               /\ m.freed = l.freed
<1>1. PICK k, i, w, h, f :
         l = [keys |-> k, isLocked |-> i, lockPassword |-> w,
              inHand |-> h, freed |-> f]
  BY DEF IsContext
<1> QED
  BY <1>1 DEF IsContext

\* What ssh_key_free was called with.
LEMMA ContextFreed ==
    ASSUME NEW l, IsContext(l), NEW x
    PROVE  LET m == [l EXCEPT !.freed = x]
           IN  IsContext(m) /\ m.keys = l.keys /\ m.inHand = l.inHand
               /\ m.freed = x
<1>1. PICK k, i, w, h, f :
         l = [keys |-> k, isLocked |-> i, lockPassword |-> w,
              inHand |-> h, freed |-> f]
  BY DEF IsContext
<1> QED
  BY <1>1 DEF IsContext

\* Closing the channels leaves the key where it is.
LEMMA ClosedKeepsKeyType ==
    ASSUME IsLogin(login), NEW e, Closed(e)
    PROVE  /\ IsLogin(login') /\ login'.phase = "closed"
           /\ login'.keyType = login.keyType
<1> DEFINE m == [login EXCEPT !.phase = "closed"]
<1>1. IsLogin(m) /\ m.phase = "closed" /\ m.keyType = login.keyType
  BY LoginPhase, Zenon
<1>2. login' = [m EXCEPT !.event = e]
  BY Zenon DEF Closed
<1> QED
  <2> HIDE DEF m
  <2> QED
    BY <1>1, <1>2, LoginEvent, Zenon

\* authenticateUser: every path hands the key over or frees it.
LEMMA LoginKeepsOwner == KeyInv /\ LoginStep => KeyInv'
<1> SUFFICES ASSUME KeyInv, LoginStep PROVE KeyInv'
  OBVIOUS
<1> USE DEF KeyInv
<1>1. Wires'
  <2>1. UNCHANGED <<channel, agentBuffer, clients>>
    BY DEF LoginStep, NoAgent, DetectFails, ImportOpenSsh, LoadPutty,
           KeyRefused, Authenticated
  <2> QED
    BY <2>1 DEF Wires
<1>2. CASE NoAgent
  <2>1. NowhereYet
    BY <1>2 DEF NoAgent, Owner
  <2>2. IsLogin(login') /\ login'.phase = "closed"
        /\ login'.keyType = login.keyType
    BY <1>2, ClosedKeepsKeyType DEF NoAgent
  <2> QED
    BY <1>1, <1>2, <2>1, <2>2 DEF NoAgent, Owner, NowhereYet
<1>3. CASE DetectFails
  <2>1. NowhereYet
    BY <1>3 DEF DetectFails, Owner
  <2>2. IsLogin(login') /\ login'.phase = "closed"
        /\ login'.keyType = login.keyType
    BY <1>3, ClosedKeepsKeyType DEF DetectFails
  <2> QED
    BY <1>1, <1>3, <2>1, <2>2 DEF DetectFails, Owner, NowhereYet
<1>4. CASE ImportOpenSsh
  <2>1. NowhereYet
    BY <1>4 DEF ImportOpenSsh, Owner
  <2>2. CASE \E t \in ImportedTypes :
                /\ login' = [login EXCEPT !.phase = "loaded", !.keyType = t]
                /\ agent' = [agent EXCEPT !.inHand = 1]
    <3>1. PICK t \in ImportedTypes :
                /\ login' = [login EXCEPT !.phase = "loaded", !.keyType = t]
                /\ agent' = [agent EXCEPT !.inHand = 1]
      BY <2>2
    <3>2. t # "none"
      BY SshAgentAssumption DEF KeyTypes
    <3> DEFINE m == [login EXCEPT !.phase = "loaded"]
    <3>3. IsLogin(m) /\ m.phase = "loaded"
      BY LoginPhase, Zenon
    <3>4. login' = [m EXCEPT !.keyType = t]
      BY <3>1, Zenon
    <3>5. IsLogin(login') /\ login'.phase = "loaded" /\ login'.keyType = t
      <4> HIDE DEF m
      <4> QED
        BY <3>3, <3>4, LoginKeyType, Zenon
    <3>6. IsContext(agent') /\ agent'.keys = agent.keys
          /\ agent'.inHand = 1 /\ agent'.freed = agent.freed
      BY <3>1, ContextInHand, Zenon
    <3> QED
      BY <1>1, <2>1, <3>2, <3>5, <3>6 DEF Owner, NowhereYet, InHand
  <2>3. CASE /\ Closed("KEY_FILE_NOT_FOUND_OR_DENIED")
                \/ Closed("FATAL_ERROR")
             /\ UNCHANGED agent
    <3>1. IsLogin(login') /\ login'.phase = "closed"
          /\ login'.keyType = login.keyType
      BY <2>3, ClosedKeepsKeyType
    <3> QED
      BY <1>1, <2>1, <2>3, <3>1 DEF Owner, NowhereYet
  <2> QED
    BY <1>4, <2>2, <2>3 DEF ImportOpenSsh
<1>5. CASE LoadPutty
  <2>1. NowhereYet
    BY <1>5 DEF LoadPutty, Owner
  <2>2. PICK o \in LoadOutcomes(login.file) :
          LET loaded == o.code = "SUCCESS"
          IN  /\ login' = [login EXCEPT !.outcome = o,
                    !.phase = IF loaded THEN "loaded" ELSE "refused",
                    !.keyType = o.key.type,
                    !.event = IF loaded THEN "none" ELSE LoadEvent(o.code)]
              /\ agent' = [agent EXCEPT !.inHand = IF loaded THEN 1 ELSE 0]
    BY <1>5 DEF LoadPutty
  <2> DEFINE loaded == o.code = "SUCCESS"
             phase == IF loaded THEN "loaded" ELSE "refused"
             held == IF loaded THEN 1 ELSE 0
             m1 == [login EXCEPT !.outcome = o]
             m2 == [m1 EXCEPT !.phase = phase]
             m3 == [m2 EXCEPT !.keyType = o.key.type]
  <2>3. IF loaded THEN o.key.type \in {"ssh-dss", "ssh-rsa"}
        ELSE o.key.type = "none"
    BY LoadReturnsKey
  <2>4. login' = [m3 EXCEPT
                    !.event = IF loaded THEN "none" ELSE LoadEvent(o.code)]
    BY <2>2, Zenon
  <2>5. agent' = [agent EXCEPT !.inHand = held]
    BY <2>2, Zenon
  <2>6. IsLogin(m1)
    BY LoginOutcome, Zenon
  <2>7. IsLogin(m2) /\ m2.phase = phase
    <3> HIDE DEF m1, phase
    <3> QED
      BY <2>6, LoginPhase, Zenon
  <2>8. IsLogin(m3) /\ m3.phase = phase /\ m3.keyType = o.key.type
    <3> HIDE DEF m2, phase
    <3> QED
      BY <2>7, LoginKeyType, Zenon
  <2>9. IsLogin(login') /\ login'.phase = phase
        /\ login'.keyType = o.key.type
    <3> HIDE DEF m3, phase
    <3> QED
      BY <2>4, <2>8, LoginEvent, Zenon
  <2>10. IsContext(agent') /\ agent'.keys = agent.keys
         /\ agent'.inHand = held /\ agent'.freed = agent.freed
    <3> HIDE DEF held
    <3> QED
      BY <2>5, ContextInHand, Zenon
  <2>11. Owner'
    <3>1. CASE loaded
      BY <2>1, <2>3, <2>9, <2>10, <3>1 DEF Owner, NowhereYet, InHand
    <3>2. CASE ~loaded
      BY <2>1, <2>3, <2>9, <2>10, <3>2 DEF Owner, NowhereYet
    <3> QED
      BY <3>1, <3>2
  <2> QED
    BY <1>1, <2>9, <2>10, <2>11
<1>6. CASE KeyRefused
  <2>1. NowhereYet
    BY <1>6 DEF KeyRefused, Owner
  <2>2. IsLogin(login') /\ login'.phase = "closed"
        /\ login'.keyType = login.keyType
    BY <1>6, LoginPhase, Zenon DEF KeyRefused
  <2> QED
    BY <1>1, <1>6, <2>1, <2>2 DEF KeyRefused, Owner, NowhereYet
<1>7. CASE Authenticated
  <2>1. InHand
    BY <1>7 DEF Authenticated, Owner
  <2> DEFINE forgot == Forget(login)
  <2>2. IsLogin(forgot) /\ forgot.keyType = login.keyType
    <3> DEFINE m == [login EXCEPT
                       !.file = CHOOSE f \in KeyFiles : f.opens = "openssh"]
    <3>1. IsLogin(m) /\ m.keyType = login.keyType
      BY LoginFile, Zenon
    <3>2. forgot = [m EXCEPT !.outcome = Outcome("FAIL")]
      BY Zenon DEF Forget
    <3> HIDE DEF m, forgot
    <3> QED
      BY <3>1, <3>2, LoginOutcome, Zenon
  <2>3. /\ IsLogin(login') /\ login'.keyType = login.keyType
        /\ login'.phase \in {"serving", "closed"}
    <3>1. CASE login' = [forgot EXCEPT !.phase = "serving"]
      <4> HIDE DEF forgot
      <4> QED
        BY <2>2, <3>1, LoginPhase, Zenon
    <3>2. CASE \E e : login' = [forgot EXCEPT !.phase = "closed", !.event = e]
      <4> HIDE DEF forgot
      <4>1. PICK e : login' = [forgot EXCEPT !.phase = "closed", !.event = e]
        BY <3>2
      <4> DEFINE m == [forgot EXCEPT !.phase = "closed"]
      <4>2. IsLogin(m) /\ m.phase = "closed" /\ m.keyType = login.keyType
        BY <2>2, LoginPhase, Zenon
      <4>3. login' = [m EXCEPT !.event = e]
        BY <4>1, Zenon
      <4> HIDE DEF m
      <4> QED
        BY <4>2, <4>3, LoginEvent, Zenon
    <3> QED
      BY <1>7, <3>1, <3>2, Zenon DEF Authenticated
  <2>4. CASE agent' = SshAgentAddKey(agent)
    <3> DEFINE m == [agent EXCEPT !.keys = Append(agent.keys, login.keyType)]
    <3>1. IsContext(m) /\ m.keys = Append(agent.keys, login.keyType)
          /\ m.inHand = agent.inHand /\ m.freed = agent.freed
      BY ContextKeys, Zenon
    <3>2. agent' = [m EXCEPT !.inHand = m.inHand - 1]
      BY <2>4, Zenon DEF SshAgentAddKey
    <3>3. IsContext(agent') /\ agent'.keys = m.keys
          /\ agent'.inHand = m.inHand - 1 /\ agent'.freed = m.freed
      <4> HIDE DEF m
      <4> QED
        BY <3>1, <3>2, ContextInHand, Zenon
    <3> HIDE DEF m
    <3>4. agent'.keys = <<login.keyType>>
      BY <2>1, <3>1, <3>3 DEF InHand
    <3> QED
      BY <1>1, <2>1, <2>3, <3>1, <3>3, <3>4 DEF Owner, InHand, GivenAway
  <2>5. CASE agent' = FreeKey(agent)
    <3> DEFINE m == [agent EXCEPT !.inHand = agent.inHand - 1]
    <3>1. IsContext(m) /\ m.keys = agent.keys
          /\ m.inHand = agent.inHand - 1 /\ m.freed = agent.freed
      BY ContextInHand, Zenon
    <3>2. agent' = [m EXCEPT !.freed = m.freed + 1]
      BY <2>5, Zenon DEF FreeKey
    <3>3. IsContext(agent') /\ agent'.keys = m.keys
          /\ agent'.inHand = m.inHand /\ agent'.freed = m.freed + 1
      <4> HIDE DEF m
      <4> QED
        BY <3>1, <3>2, ContextFreed, Zenon
    <3> HIDE DEF m
    <3> QED
      BY <1>1, <2>1, <2>3, <3>1, <3>3 DEF Owner, InHand, GivenAway
  <2> QED
    BY <1>7, <2>4, <2>5 DEF Authenticated
<1> QED
  BY <1>2, <1>3, <1>4, <1>5, <1>6, <1>7 DEF LoginStep

\* A client keeps its shape, whatever it does.
LEMMA ClientField ==
    ASSUME NEW d, IsClient(d), NEW x
    PROVE  /\ IsClient([d EXCEPT !.state = x])
           /\ IsClient([d EXCEPT !.given = x])
           /\ x \in Nat => IsClient([d EXCEPT !.arrived = x])
           /\ x \in Request => IsClient([d EXCEPT !.asked = x])
BY DEF IsClient

-----------------------------------------------------------------------------
(* The reader.                                                             *)

\* The terminal channel or an exception in the reader ends the connection.
Ends == /\ login.phase = "serving"
        /\ login' = [login EXCEPT !.phase = "ended"]
        /\ UNCHANGED <<agent, channel, agentBuffer, clients, scheduled>>
LEMMA EndsEnd == TerminalEnds \/ ReadRaises => Ends
BY DEF TerminalEnds, ReadRaises, Serving, Ends

\* The end of the connection leaves the key where it is.
LEMMA EndKeepsOwner == KeyInv /\ (Ends \/ NoChannel) => KeyInv'
<1> SUFFICES ASSUME KeyInv, Ends \/ NoChannel PROVE KeyInv'
  OBVIOUS
<1> USE DEF KeyInv
<1>1. GivenAway
  BY DEF Ends, NoChannel, Up, Owner
<1>2. UNCHANGED <<agent, channel, agentBuffer, clients>>
  BY DEF Ends, NoChannel
<1>3. /\ IsLogin(login') /\ login'.phase \in {"ended", "closed"}
      /\ login'.keyType = login.keyType
  <2>1. CASE Ends
    <3>1. login' = [login EXCEPT !.phase = "ended"]
      BY <2>1 DEF Ends
    <3> QED
      BY <3>1, LoginPhase, Zenon
  <2>2. CASE NoChannel
    BY <2>2, ClosedKeepsKeyType DEF NoChannel
  <2> QED
    BY <2>1, <2>2
<1> QED
  BY <1>1, <1>2, <1>3 DEF Owner, GivenAway, Wires

\* The reader moves no key: what it takes from the channel are requests.
LEMMA ReaderKeepsOwner == KeyInv /\ Reader => KeyInv'
<1> SUFFICES ASSUME KeyInv, Reader PROVE KeyInv'
  OBVIOUS
<1> USE DEF KeyInv
<1>1. CASE ReadClosed
  BY <1>1 DEF ReadClosed, Owner, NowhereYet, InHand, GivenAway, Wires
<1>2. channel.unread \in Seq(Cell) /\ HeaderCells \in Nat
      /\ HeaderCells <= Len(channel.unread)
  BY DEF Wires, HeaderCells, HeaderSize
<1>3. AfterHeader \in Seq(Cell)
  <2> HIDE DEF HeaderCells
  <2> QED
    BY <1>2 DEF AfterHeader
<1>4. Lengths \subseteq Nat
  <2>1. CASE HeaderCells = 0
    BY <2>1 DEF Lengths, Wires
  <2>2. CASE HeaderCells # 0
    <3>1. channel.unread[1] \in Cell
      BY <1>2, <2>2 DEF HeaderCells, HeaderSize
    <3> QED
      BY <2>2, <3>1, LengthIsNat DEF Lengths
  <2> QED
    BY <2>1, <2>2
<1>5. CASE ReadPart
  <2>1. Owner'
    BY <1>5 DEF ReadPart, Owner, NowhereYet, InHand, GivenAway
  <2>2. agentBuffer' \in Nat
    BY <1>4, <1>5 DEF ReadPart
  <2>3. channel' = [channel EXCEPT !.unread = AfterHeader]
    BY <1>5 DEF ReadPart
  <2> HIDE DEF AfterHeader
  <2>4. Wires'
    BY <1>3, <1>5, <2>2, <2>3 DEF Wires, ReadPart
  <2> QED
    BY <1>5, <2>1, <2>4 DEF ReadPart
<1>6. CASE ReadRequest
  <2>1. PICK n \in Lengths \ {0} :
          /\ Complete(n)
          /\ \E r \in RequestsIn(SubSeq(AfterHeader, 1, n)), signs \in BOOLEAN :
                TakeRequest(n, r, signs)
    BY <1>6, Zenon DEF ReadRequest
  <2>2. n \in Nat \ {0} /\ n <= Len(AfterHeader)
    BY <1>4, <2>1 DEF Complete
  <2>3. PICK r \in Asked, signs \in BOOLEAN : TakeRequest(n, r, signs)
    BY <2>1, ReadsRequests
  <2> DEFINE reply == ReplyFromRequest(agent, r, signs)
  <2>10. /\ channel' = [channel EXCEPT !.unread =
                            SubSeq(AfterHeader, n + 1, Len(AfterHeader))]
         /\ agent' = reply[2]
         /\ IF reply[1] = NoReply
            THEN /\ login' = [login EXCEPT !.phase = "broken",
                                   !.event = "OUT_OF_MEMORY_ERROR"]
                 /\ agentBuffer' = n
                 /\ UNCHANGED clients
            ELSE /\ clients' = [clients EXCEPT
                                   ![channel.client].given = reply[1]]
                 /\ agentBuffer' = 0
                 /\ UNCHANGED login
    BY <2>3, Zenon DEF TakeRequest
  <2>4. /\ IsContext(agent') /\ agent'.keys = agent.keys
        /\ agent'.inHand = agent.inHand /\ agent'.freed = agent.freed
    <3>1. /\ IsContext(reply[2]) /\ reply[2].keys = agent.keys
          /\ reply[2].inHand = agent.inHand
          /\ reply[2].freed = agent.freed
      BY ReplyKeepsKeys, Zenon
    <3> HIDE DEF reply
    <3> QED
      BY <2>10, <3>1
  <2>5. GivenAway /\ login.phase = "serving"
    BY <1>6 DEF ReadRequest, Serving, Owner
  <2>6. /\ IsLogin(login') /\ login'.phase \in {"serving", "broken"}
        /\ login'.keyType = login.keyType
    <3>1. CASE UNCHANGED login
      BY <2>5, <3>1
    <3>2. CASE login' = [login EXCEPT !.phase = "broken",
                                      !.event = "OUT_OF_MEMORY_ERROR"]
      <4> DEFINE m == [login EXCEPT !.phase = "broken"]
      <4>1. IsLogin(m) /\ m.phase = "broken" /\ m.keyType = login.keyType
        BY LoginPhase, Zenon
      <4>2. login' = [m EXCEPT !.event = "OUT_OF_MEMORY_ERROR"]
        BY <3>2, Zenon
      <4> HIDE DEF m
      <4> QED
        BY <4>1, <4>2, LoginEvent, Zenon
    <3> QED
      BY <2>10, <3>1, <3>2, Zenon
  <2>7. Owner'
    BY <2>4, <2>5, <2>6 DEF Owner, GivenAway
  <2>8. SubSeq(AfterHeader, n + 1, Len(AfterHeader)) \in Seq(Cell)
    <3> HIDE DEF AfterHeader
    <3> QED
      BY <1>3, <2>2
  <2>9. Wires'
    <3> DEFINE rest == SubSeq(AfterHeader, n + 1, Len(AfterHeader))
               answer == reply[1]
    <3>1. channel' = [channel EXCEPT !.unread = rest] /\ rest \in Seq(Cell)
      BY <2>8, <2>10, Zenon
    <3>2. agentBuffer' \in Nat
      BY <2>2, <2>10
    <3>3. \/ clients' = clients
          \/ clients' = [clients EXCEPT ![channel.client].given = answer]
      BY <2>10, Zenon
    <3> HIDE DEF rest, answer
    <3>4. DOMAIN clients' = Client
      BY <3>3 DEF Wires
    <3>5. ASSUME NEW c \in Client
          PROVE  IsClient(clients'[c])
      <4>1. \/ clients'[c] = clients[c]
            \/ clients'[c] = [clients[c] EXCEPT !.given = answer]
        BY <3>3 DEF Wires
      <4>2. IsClient(clients[c])
        BY DEF Wires
      <4>3. IsClient([clients[c] EXCEPT !.given = answer])
        BY <4>2, ClientField, Zenon
      <4> QED
        BY <4>1, <4>2, <4>3
    <3>6. channel' \in [client : Client \cup {Nobody}, isOpen : BOOLEAN,
                        unread : Seq(Cell), orderly : BOOLEAN, left : Int]
      BY <3>1 DEF Wires
    <3> QED
      BY <3>2, <3>4, <3>5, <3>6 DEF Wires
  <2> QED
    BY <2>4, <2>6, <2>7, <2>9
<1> QED
  BY <1>1, <1>5, <1>6, EndsEnd, EndKeepsOwner DEF Reader, KeyInv

-----------------------------------------------------------------------------
(* The server.                                                             *)

\* A client that opens, asks or leaves touches the channel and itself.
LEMMA ClientKeepsOwner ==
    ASSUME KeyInv, NEW c \in Client, NEW q \in Request,
           \/ OpenAgentChannel(c) \/ Deliver(c) \/ CloseAgentChannel(c)
           \/ SendRequest(c, q)
    PROVE  KeyInv'
<1> USE DEF KeyInv
<1>1. UNCHANGED <<login, agent, agentBuffer>>
  BY DEF OpenAgentChannel, Deliver, CloseAgentChannel, SendRequest
<1>2. Owner'
  BY <1>1 DEF Owner, NowhereYet, InHand, GivenAway
<1> DEFINE Channel == [client : Client \cup {Nobody}, isOpen : BOOLEAN,
                       unread : Seq(Cell), orderly : BOOLEAN, left : Int]
<1>3. channel \in Channel /\ IsClient(clients[c])
  BY DEF Wires
<1>4. CASE OpenAgentChannel(c)
  <2>1. channel' \in Channel
    BY <1>3, <1>4 DEF OpenAgentChannel
  <2>2. IsClient([clients[c] EXCEPT !.state = "open"])
    BY <1>3, ClientField, Zenon
  <2>3. clients' = [clients EXCEPT ![c] = [clients[c] EXCEPT !.state = "open"]]
    BY <1>4 DEF OpenAgentChannel
  <2> QED
    BY <1>1, <1>2, <2>1, <2>2, <2>3 DEF Wires
<1>5. CASE CloseAgentChannel(c)
  <2>1. channel' \in Channel
    BY <1>3, <1>5 DEF CloseAgentChannel, Owed
  <2>2. IsClient([clients[c] EXCEPT !.state = "gone"])
    BY <1>3, ClientField, Zenon
  <2>3. clients' = [clients EXCEPT ![c] = [clients[c] EXCEPT !.state = "gone"]]
    BY <1>5 DEF CloseAgentChannel
  <2> QED
    BY <1>1, <1>2, <2>1, <2>2, <2>3 DEF Wires
<1>6. CASE Deliver(c)
  <2> DEFINE cells == Cells(c, clients[c].asked)
             i == clients[c].arrived + 1
  <2>1. clients[c].asked \in Asked /\ i \in Nat \ {0}
    BY <1>3, <1>6 DEF Deliver, Asked, IsClient
  <2>2. cells[i] \in Cell
    <3>1. i \in 1..(HeaderSize + BodySize(clients[c].asked))
      BY <1>6, <2>1 DEF Deliver, Cells, HeaderSize, BodySize
    <3> QED
      BY <2>1, <3>1 DEF Cells, Cell
  <2>3. channel' = [channel EXCEPT !.unread = Append(@, cells[i])]
    BY <1>6, Zenon DEF Deliver
  <2>4. channel' \in Channel
    <3>1. channel.unread \in Seq(Cell)
      BY <1>3
    <3> DEFINE unread == Append(channel.unread, cells[i])
    <3>2. unread \in Seq(Cell)
      <4> HIDE DEF cells, i
      <4> QED
        BY <2>2, <3>1
    <3>3. channel' = [channel EXCEPT !.unread = unread]
      BY <2>3
    <3> HIDE DEF unread
    <3> QED
      BY <1>3, <3>2, <3>3
  <2>5. IsClient([clients[c] EXCEPT !.arrived = i])
    <3> HIDE DEF i
    <3> QED
      BY <1>3, <2>1, ClientField, Zenon
  <2>6. clients' = [clients EXCEPT ![c] = [clients[c] EXCEPT !.arrived = i]]
    BY <1>6 DEF Deliver
  <2> HIDE DEF i
  <2> QED
    BY <1>1, <1>2, <2>4, <2>5, <2>6 DEF Wires
<1>7. CASE SendRequest(c, q)
  <2>1. channel' \in Channel
    BY <1>3, <1>7 DEF SendRequest
  <2> DEFINE d1 == [clients[c] EXCEPT !.asked = q]
             d2 == [d1 EXCEPT !.arrived = 0]
             d3 == [d2 EXCEPT !.given = NoReply]
  <2>2. IsClient(d1)
    BY <1>3, ClientField, Zenon
  <2>3. IsClient(d2)
    <3> HIDE DEF d1
    <3> QED
      BY <2>2, ClientField
  <2>4. IsClient(d3)
    <3> HIDE DEF d2
    <3> QED
      BY <2>3, ClientField, Zenon
  <2>5. clients' = [clients EXCEPT ![c] = d3]
    BY <1>7 DEF SendRequest
  <2> HIDE DEF d3
  <2> QED
    BY <1>1, <1>2, <2>1, <2>4, <2>5 DEF Wires
<1> QED
  BY <1>4, <1>5, <1>6, <1>7

-----------------------------------------------------------------------------
\* Every step keeps the invariant.
LEMMA KeyNext == KeyInv /\ [Next]_vars => KeyInv'
<1> SUFFICES ASSUME KeyInv, [Next]_vars PROVE KeyInv'
  OBVIOUS
<1>1. CASE UNCHANGED vars
  BY <1>1 DEF vars, KeyInv, Owner, NowhereYet, InHand, GivenAway, Wires
<1>2. CASE LoginStep \/ Reader \/ TerminalEnds \/ NoChannel
  BY <1>2, LoginKeepsOwner, ReaderKeepsOwner, EndsEnd, EndKeepsOwner
<1>3. ASSUME NEW c \in Client,
             OpenAgentChannel(c) \/ Deliver(c) \/ CloseAgentChannel(c)
      PROVE  KeyInv'
  <2>1. NoRequest \in Request
    BY DEF Request
  <2> QED
    BY <1>3, <2>1, ClientKeepsOwner
<1>4. ASSUME NEW c \in Client, NEW r \in Request, SendRequest(c, r)
      PROVE  KeyInv'
  BY <1>4, ClientKeepsOwner
<1> QED
  BY <1>1, <1>2, <1>3, <1>4 DEF Next

\* The key that authenticateUser loads has one owner at any time: the
\* function, then the agent or ssh_key_free, on every path, for any number of
\* clients and of requests and however these are cut (SshConnection.m:637).
THEOREM KeyOwnerSafe == Spec => []KeyHasOneOwner
<1>1. KeyInv => KeyHasOneOwner
  <2> SUFFICES ASSUME Owner PROVE KeyHasOneOwner
    BY DEF KeyInv
  <2>1. Len(<<>>) = 0 /\ Len(<<login.keyType>>) = 1
    OBVIOUS
  <2>2. CASE NowhereYet
    BY <2>1, <2>2 DEF NowhereYet, KeyHasOneOwner
  <2>3. CASE login.phase = "loaded" /\ InHand
    BY <2>1, <2>3 DEF InHand, KeyHasOneOwner
  <2>4. CASE GivenAway
    <3>1. /\ login.keyType # "none" /\ agent.inHand = 0
          /\ agent.freed \in {0, 1} /\ Len(agent.keys) = 1 - agent.freed
      <4>1. CASE agent.keys = <<>> /\ agent.freed = 1
        BY <2>1, <2>4, <4>1 DEF GivenAway
      <4>2. CASE agent.keys = <<login.keyType>> /\ agent.freed = 0
        <5>1. Len(agent.keys) = 1
          BY <2>1, <4>2, Zenon
        <5> QED
          BY <2>4, <4>2, <5>1 DEF GivenAway
      <4> QED
        BY <2>4, <4>1, <4>2 DEF GivenAway
    <3> QED
      BY <3>1 DEF KeyHasOneOwner
  <2>5. NowhereYet \/ (login.phase = "loaded" /\ InHand) \/ GivenAway
    BY DEF Owner
  <2> QED
    BY <2>2, <2>3, <2>4, <2>5
<1> QED
  BY <1>1, KeyNext, KeyInit, PTL DEF Spec

-----------------------------------------------------------------------------
(* Which signatures a reader can take apart, for every length of them.     *)

\* The functions of SshAgent.c state the form of their blobs in a comment
\* ("signatureBlobLength[ signatureTypeLength[ signatureType ]
\* signatureLength[ signature ] ]", 197).  The length of the signature is
\* written at offset 15 by all but Ed25519 (174, 214, 263, 312, 386): it is
\* where a reader looks for it when the name of the algorithm has seven
\* letters, whatever the length of the signature is.
THEOREM ReadableSignatures ==
    ASSUME NEW n \in Nat, NEW a \in {"ssh-dss", "ssh-rsa", "ssh-ed25519"}
    PROVE  Readable(SignatureWrites(a, n), a, n)
<1> DEFINE writes == SignatureWrites(a, n)
<1>1. CASE a \in {"ssh-dss", "ssh-rsa"}
  <2>1. TypeLength(a) = 7
    BY <1>1 DEF TypeLength, RsaSha2, Ecdsa
  <2>2. writes = <<Write(0, 4, "blobLength"), Write(4, 4, "typeLength"),
                   Write(8, 7, "type"), Write(15, 4, "signatureLength"),
                   Write(19, n, "signature")>>
    BY <1>1, <2>1 DEF SignatureWrites, IndexedWrites
  <2>3. Field(a, n) = {writes[i] : i \in 1..5}
    BY <2>1, <2>2 DEF Field
  <2>4. \A i, j \in 1..5 : j > i => Apart(writes[j], writes[i])
    BY <2>2 DEF Apart, Write
  <2>5. \A i \in 1..5 : writes[i].at + writes[i].size <= BlobSize(a, n)
    BY <2>1, <2>2 DEF BlobSize, Write
  <2> QED
    BY <2>2, <2>3, <2>4, <2>5 DEF Readable
<1>2. CASE a = "ssh-ed25519"
  <2>1. TypeLength(a) = 11
    BY <1>2 DEF TypeLength, RsaSha2, Ecdsa
  <2>2. writes = <<Write(23, n, "signature"), Write(0, 4, "blobLength"),
                   Write(4, 4, "typeLength"), Write(8, 11, "type"),
                   Write(19, 4, "signatureLength")>>
    BY <1>2 DEF SignatureWrites, Ed25519Writes
  <2>3. Field(a, n) = {writes[i] : i \in 1..5}
    BY <2>1, <2>2 DEF Field
  <2>4. \A i, j \in 1..5 : j > i => Apart(writes[j], writes[i])
    BY <2>2 DEF Apart, Write
  <2>5. \A i \in 1..5 : writes[i].at + writes[i].size <= BlobSize(a, n)
    BY <2>1, <2>2 DEF BlobSize, Write
  <2> QED
    BY <2>2, <2>3, <2>4, <2>5 DEF Readable
<1> QED
  BY <1>1, <1>2

\* Of all others, ECDSA and RSA with SHA-2, no signature can be taken apart:
\* the place of the length is never written (SshAgent.c:263, 312, 386).
THEOREM OverwrittenSignatures ==
    ASSUME NEW n \in Nat, NEW a \in Ecdsa \cup RsaSha2
    PROVE  ~Readable(SignatureWrites(a, n), a, n)
<1> DEFINE writes == SignatureWrites(a, n)
           t == TypeLength(a)
           f == Write(8 + t, 4, "signatureLength")
<1>1. t \in {12, 19}
  BY DEF TypeLength, Ecdsa, RsaSha2
<1>2. writes = <<Write(0, 4, "blobLength"), Write(4, 4, "typeLength"),
                 Write(8, t, "type"), Write(15, 4, "signatureLength"),
                 Write(12 + t, n, "signature")>>
  BY DEF SignatureWrites, IndexedWrites, Ecdsa, RsaSha2
<1>3. \A i \in 1..5 : writes[i] # f
  <2>1. /\ Write(0, 4, "blobLength") # f /\ Write(4, 4, "typeLength") # f
        /\ Write(8, t, "type") # f /\ Write(12 + t, n, "signature") # f
    BY DEF Write
  <2>2. Write(15, 4, "signatureLength") # f
    BY <1>1 DEF Write
  <2> QED
    BY <1>2, <2>1, <2>2
<1>4. DOMAIN writes = 1..5 /\ f \in Field(a, n)
  BY <1>2 DEF Field
<1> QED
  BY <1>3, <1>4 DEF Readable

(***************************************************************************)
(* What a program gets from the forwarded agent.  The invariant says what  *)
(* the pieces of requests that are on the channel are: as long as the      *)
(* programs come one after the other (orderly), exactly what arrived of    *)
(* the one request that is not answered, with or without its header.       *)
(***************************************************************************)

Phases == {"detect", "loaded", "refused", "serving", "broken", "ended",
           "closed"}
Events == {"none", "OUT_OF_MEMORY_ERROR", "KEY_FILE_NOT_FOUND_OR_DENIED",
           "FATAL_ERROR", "PASSWORD_AUTHENTICATION_DENIED"}
Outcomes == (UNION {LoadOutcomes(f) : f \in KeyFiles})
            \cup {Outcome("FAIL")}
LoginType == [phase : Phases, file : KeyFiles, forwarding : BOOLEAN,
              outcome : Outcomes, keyType : KeyTypes \cup {"none"},
              event : Events]
ContextType == [keys : Seq(KeyTypes), isLocked : BOOLEAN,
                lockPassword : Passphrase \cup {<<>>},
                inHand : Int, freed : Int]
ChannelType == [client : Client \cup {Nobody}, isOpen : BOOLEAN,
                unread : Seq(Cell), orderly : BOOLEAN, left : 0..MaxRequests]
GivenAlgorithms == Ecdsa \cup {"ssh-dss", "ssh-rsa", "ssh-ed25519"}
Replies == {NoReply, Failure, Success}
           \cup [kind : {"identities", "no identities"}]
           \cup [kind : {"SIGN_RESPONSE"}, algorithm : GivenAlgorithms]
ClientType == [state : {"new", "open", "gone"}, asked : Request,
               arrived : Nat, given : Replies]

\* The lengths of no body, of a body, and those of joined headers.
BufferLengths == 0..2 \cup JoinedLengths

Typed == /\ login \in LoginType /\ agent \in ContextType
         /\ channel \in ChannelType /\ agentBuffer \in BufferLengths
         /\ clients \in [Client -> ClientType] /\ scheduled \in BOOLEAN

\* A program reaches an agent that has the key.
HasKey == /\ Up => agent.keys # <<>>
          /\ \A c \in Client : clients[c].state # "new" => login.forwarding
          /\ \A c \in Client : clients[c].state = "new" =>
                                   clients[c].asked = NoRequest
          /\ channel.isOpen => channel.client \in Client /\ login.forwarding

Size(c) == HeaderSize + BodySize(clients[c].asked)
Undelivered(c) == clients[c].asked # NoRequest /\ clients[c].arrived < Size(c)

\* What is unread is what arrived of the request of c behind the first k cells.
Holds(c, k) ==
    /\ Len(channel.unread) = clients[c].arrived - k
    /\ \A i \in 1..Len(channel.unread) : channel.unread[i] =
           [from |-> c, req |-> clients[c].asked, at |-> i + k]
Pending(c) ==
    /\ clients[c].arrived <= Size(c)
    /\ agentBuffer \in {0, BodySize(clients[c].asked)}
    /\ Holds(c, IF agentBuffer = 0 THEN 0 ELSE HeaderSize)

\* One program at most has the channel, and it alone may wait for an answer.
OneAsks ==
    /\ channel.isOpen => channel.client \in Client
    /\ \A c \in Client : /\ clients[c].state = "open" <=>
                                (channel.isOpen /\ c = channel.client)
                         /\ Owed(c) => clients[c].state = "open" /\ Pending(c)
                         /\ ~Owed(c) => ~Undelivered(c)
    /\ (\A c \in Client : ~Owed(c)) => channel.unread = <<>> /\ agentBuffer = 0

ServiceInv == /\ Typed /\ HasKey
              /\ channel.orderly /\ login.phase # "broken" => OneAsks

-----------------------------------------------------------------------------
(* The operators.                                                          *)

\* PuttyKeyLoadPrivate returns one of the codes of PuttyKey.h.
LEMMA OutcomeCodes ==
    ASSUME NEW o \in Outcomes
    PROVE  o.code \in KeyLoadReturns
<1>1. \A code : Outcome(code).code = code
  BY DEF Outcome
<1>2. ASSUME NEW f, NEW w
      PROVE  PuttyKeyLoadPrivate(f, w).code \in KeyLoadReturns
  <2> DEFINE p == PuttyKeyLoadPrivate(f, w)
  <2>1. \/ \E code \in {"FAIL", "FAIL_CORRUPTED", "FAIL_INVALID_ARG",
                        "FAIL_WRONG_PASSWORD"} : p = Outcome(code)
        \/ \E key : p = [code |-> "SUCCESS", key |-> key]
    BY Zenon DEF PuttyKeyLoadPrivate, PuttyKeyParseData
  <2> HIDE DEF p
  <2>2. p.code \in {"FAIL", "FAIL_CORRUPTED", "FAIL_INVALID_ARG",
                    "FAIL_WRONG_PASSWORD", "SUCCESS"}
    BY <1>1, <2>1
  <2> QED
    BY <2>2 DEF p, KeyLoadReturns
<1>3. CASE o \in {Outcome("FAIL"), Outcome("FAIL_OUT_OF_MEMORY")}
  BY <1>1, <1>3 DEF KeyLoadReturns
<1> QED
  BY <1>2, <1>3 DEF Outcomes, LoadOutcomes

\* A file opens in one of five ways, and each has its type.
LEMMA FileOpens ==
    ASSUME NEW f \in KeyFiles
    PROVE  f.opens \in {"read", "ENOENT", "EACCES", "other", "short",
                        "openssh"}
BY DEF KeyFiles

LEMMA FilesHaveType ==
    ASSUME NEW f \in KeyFiles
    PROVE  PuttyKeyDetectType(f) \in KeyTypeReturns
BY FileOpens DEF PuttyKeyDetectType, KeyTypeReturns

\* Forget leaves a file of KeyFiles: there is one that opens as OpenSSH's.
LEMMA SomeOpenSsh == (CHOOSE f \in KeyFiles : f.opens = "openssh") \in KeyFiles
<1>1. \E f \in KeyFiles : f.opens = "openssh"
  <2> DEFINE g == [opens |-> "openssh", lines |-> <<>>,
                   of |-> CHOOSE w \in Writings : TRUE,
                   password |-> "secret", looksPadded |-> FALSE]
  <2>1. g \in KeyFiles
    BY SMT DEF KeyFiles
  <2>2. g.opens = "openssh"
    OBVIOUS
  <2> QED
    BY <2>1, <2>2
<1> QED
  BY <1>1

LEMMA RequestTypes ==
    ASSUME NEW r \in Request
    PROVE  /\ r.type \in {"REQUEST_IDENTITIES", "unsupported", "unknown",
                          "SIGN_REQUEST", "LOCK", "UNLOCK", "none"}
           /\ r.type = "none" <=> r = NoRequest
           /\ r.type \in {"LOCK", "UNLOCK"} => r.pass \in Passphrase
           /\ r.type = "SIGN_REQUEST" => r.mine \in BOOLEAN /\ r.flags \in Flags
BY DEF Request, NoRequest

LEMMA BodySizes == ASSUME NEW r PROVE BodySize(r) \in 1..2
BY DEF BodySize

LEMMA ReplyKinds ==
    ASSUME NEW a \in Replies
    PROVE  /\ a.kind = "none" <=> a = NoReply
           /\ a.kind = "SIGN_RESPONSE" => a.algorithm \in GivenAlgorithms
<1>1. CASE a = NoReply
  BY <1>1 DEF NoReply
<1>2. CASE a \in {Failure, Success}
  <2>1. a.kind \in {"FAILURE", "SUCCESS"} /\ NoReply.kind = "none"
    BY <1>2 DEF NoReply, Failure, Success
  <2> QED
    BY <2>1
<1>3. CASE a \in [kind : {"identities", "no identities"}]
  <2>1. a.kind \in {"identities", "no identities"} /\ NoReply.kind = "none"
    BY <1>3 DEF NoReply
  <2> QED
    BY <2>1
<1>4. CASE a \in [kind : {"SIGN_RESPONSE"}, algorithm : GivenAlgorithms]
  <2>1. /\ a.kind = "SIGN_RESPONSE" /\ a.algorithm \in GivenAlgorithms
        /\ NoReply.kind = "none"
    BY <1>4 DEF NoReply
  <2> QED
    BY <2>1
<1> QED
  BY <1>1, <1>2, <1>3, <1>4 DEF Replies

\* An unlocked agent signs with the algorithm of its key, and only requests
\* without flags (SshAgent.c:560).
LEMMA SignsWithKey ==
    ASSUME NEW type \in KeyTypes
    PROVE  SshAgentSign(type, 0) \in GivenAlgorithms
BY DEF SshAgentSign, KeyTypes, GivenAlgorithms, Ecdsa

-----------------------------------------------------------------------------
(* The types.                                                              *)

\* A field of login takes a value of its own, and the others stay.
LEMMA LoginField ==
    ASSUME NEW l \in LoginType, NEW x
    PROVE  /\ x \in Phases => /\ [l EXCEPT !.phase = x] \in LoginType
                              /\ [l EXCEPT !.phase = x].forwarding = l.forwarding
                              /\ [l EXCEPT !.phase = x].phase = x
           /\ x \in KeyFiles => /\ [l EXCEPT !.file = x] \in LoginType
                                /\ [l EXCEPT !.file = x].forwarding = l.forwarding
           /\ x \in Outcomes =>
                  /\ [l EXCEPT !.outcome = x] \in LoginType
                  /\ [l EXCEPT !.outcome = x].forwarding = l.forwarding
           /\ x \in KeyTypes \cup {"none"} =>
                  /\ [l EXCEPT !.keyType = x] \in LoginType
                  /\ [l EXCEPT !.keyType = x].phase = l.phase
                  /\ [l EXCEPT !.keyType = x].forwarding = l.forwarding
           /\ x \in Events => /\ [l EXCEPT !.event = x] \in LoginType
                              /\ [l EXCEPT !.event = x].phase = l.phase
                              /\ [l EXCEPT !.event = x].forwarding = l.forwarding
<1> DEFINE T == KeyTypes \cup {"none"}
<1> HIDE DEF T
<1>1. LoginType = [phase : Phases, file : KeyFiles, forwarding : BOOLEAN,
                   outcome : Outcomes, keyType : T, event : Events]
  BY DEF LoginType, T
<1>2. /\ x \in Phases => /\ [l EXCEPT !.phase = x] \in LoginType
                         /\ [l EXCEPT !.phase = x].forwarding = l.forwarding
                         /\ [l EXCEPT !.phase = x].phase = x
      /\ x \in KeyFiles => /\ [l EXCEPT !.file = x] \in LoginType
                           /\ [l EXCEPT !.file = x].forwarding = l.forwarding
  BY <1>1
<1>3. x \in Outcomes => /\ [l EXCEPT !.outcome = x] \in LoginType
                        /\ [l EXCEPT !.outcome = x].forwarding = l.forwarding
  BY <1>1
<1>4. x \in T => /\ [l EXCEPT !.keyType = x] \in LoginType
                 /\ [l EXCEPT !.keyType = x].phase = l.phase
                 /\ [l EXCEPT !.keyType = x].forwarding = l.forwarding
  BY <1>1
<1>5. x \in Events => /\ [l EXCEPT !.event = x] \in LoginType
                      /\ [l EXCEPT !.event = x].phase = l.phase
                      /\ [l EXCEPT !.event = x].forwarding = l.forwarding
  BY <1>1
<1> QED
  BY <1>2, <1>3, <1>4, <1>5, Zenon DEF T

\* A field of the context, too.
LEMMA ContextField ==
    ASSUME NEW a \in ContextType, NEW x
    PROVE  /\ x \in Int =>
                  /\ [a EXCEPT !.inHand = x] \in ContextType
                  /\ [a EXCEPT !.inHand = x].isLocked = a.isLocked
                  /\ [a EXCEPT !.inHand = x].lockPassword = a.lockPassword
                  /\ [a EXCEPT !.inHand = x].keys = a.keys
           /\ x \in Int =>
                  /\ [a EXCEPT !.freed = x] \in ContextType
                  /\ [a EXCEPT !.freed = x].isLocked = a.isLocked
                  /\ [a EXCEPT !.freed = x].lockPassword = a.lockPassword
           /\ x \in Seq(KeyTypes) =>
                  /\ [a EXCEPT !.keys = x] \in ContextType
                  /\ [a EXCEPT !.keys = x].isLocked = a.isLocked
                  /\ [a EXCEPT !.keys = x].lockPassword = a.lockPassword
                  /\ [a EXCEPT !.keys = x].keys = x
BY DEF ContextType

\* The two ends of a key that authenticateUser holds leave the lock alone.
LEMMA HandsOverTyped ==
    ASSUME NEW a \in ContextType, login.keyType \in KeyTypes
    PROVE  /\ FreeKey(a) \in ContextType
           /\ FreeKey(a).isLocked = a.isLocked
           /\ FreeKey(a).lockPassword = a.lockPassword
           /\ SshAgentAddKey(a) \in ContextType
           /\ SshAgentAddKey(a).isLocked = a.isLocked
           /\ SshAgentAddKey(a).lockPassword = a.lockPassword
           /\ SshAgentAddKey(a).keys # <<>>
<1>1. a.inHand - 1 \in Int
  BY DEF ContextType
<1> DEFINE m == [a EXCEPT !.inHand = a.inHand - 1]
           keys == Append(a.keys, login.keyType)
           n == [a EXCEPT !.keys = keys]
           f == m.freed + 1
           h == n.inHand - 1
           free == FreeKey(a)
           add == SshAgentAddKey(a)
<1>2. /\ m \in ContextType /\ m.isLocked = a.isLocked
      /\ m.lockPassword = a.lockPassword
  BY <1>1, ContextField, Zenon
<1>3. free = [m EXCEPT !.freed = f]
  BY Zenon DEF FreeKey
<1>4. f \in Int
  <2> HIDE DEF m
  <2> QED
    BY <1>2 DEF ContextType
<1>5. /\ free \in ContextType /\ free.isLocked = a.isLocked
      /\ free.lockPassword = a.lockPassword
  <2> HIDE DEF m, f, free
  <2> QED
    BY <1>2, <1>3, <1>4, ContextField, Zenon
<1>6. keys \in Seq(KeyTypes) /\ keys # <<>>
  BY DEF ContextType
<1>7. /\ n \in ContextType /\ n.isLocked = a.isLocked
      /\ n.lockPassword = a.lockPassword /\ n.keys = keys
  <2> HIDE DEF keys
  <2> QED
    BY <1>6, ContextField, Zenon
<1>8. add = [n EXCEPT !.inHand = h]
  BY Zenon DEF SshAgentAddKey
<1>9. h \in Int
  <2> HIDE DEF n
  <2> QED
    BY <1>7 DEF ContextType
<1>10. /\ add \in ContextType /\ add.isLocked = a.isLocked
       /\ add.lockPassword = a.lockPassword /\ add.keys = keys
  <2> HIDE DEF n, keys, h, add
  <2> QED
    BY <1>7, <1>8, <1>9, ContextField, Zenon
<1> QED
  BY <1>5, <1>6, <1>10, Zenon

\* Closing ends the login with an event.
LEMMA ClosedTyped ==
    ASSUME login \in LoginType, NEW e \in Events, Closed(e)
    PROVE  /\ login' \in LoginType /\ login'.forwarding = login.forwarding
           /\ login'.phase = "closed"
<1> DEFINE m == [login EXCEPT !.phase = "closed"]
<1>1. "closed" \in Phases
  BY DEF Phases
<1>2. m \in LoginType /\ m.phase = "closed" /\ m.forwarding = login.forwarding
  BY <1>1, LoginField, Zenon
<1>3. login' = [m EXCEPT !.event = e]
  BY Zenon DEF Closed
<1> HIDE DEF m
<1> QED
  BY <1>2, <1>3, LoginField, Zenon

\* authenticateUser changes neither whether the agent is forwarded nor the
\* lock; a login that goes on has handed a forwarded key to the agent.
LoginTypes == /\ login' \in LoginType /\ login'.forwarding = login.forwarding
              /\ agent' \in ContextType
              /\ agent'.isLocked = agent.isLocked
              /\ agent'.lockPassword = agent.lockPassword
              /\ login'.phase \notin {"broken", "ended"}
              /\ login'.phase = "serving" /\ login.forwarding =>
                     agent'.keys # <<>>
LEMMA LoginKeepsTypes == Typed /\ KeyInv /\ LoginStep => LoginTypes
<1> SUFFICES ASSUME Typed, KeyInv, LoginStep PROVE LoginTypes
  OBVIOUS
<1>1. login \in LoginType /\ agent \in ContextType
  BY DEF Typed
<1>2. \A x \in {"detect", "loaded", "refused", "serving", "closed"} :
          x \in Phases
  BY DEF Phases
<1>3. CASE NoAgent \/ DetectFails
  <2>1. UNCHANGED agent
    BY <1>3 DEF NoAgent, DetectFails
  <2>2. \E e \in Events : Closed(e)
    BY <1>3 DEF NoAgent, DetectFails, DetectEvent, Events
  <2>3. /\ login' \in LoginType /\ login'.forwarding = login.forwarding
        /\ login'.phase = "closed"
    BY <1>1, <2>2, ClosedTyped
  <2> QED
    BY <1>1, <2>1, <2>3 DEF LoginTypes
<1>4. CASE ImportOpenSsh
  <2>1. CASE /\ Closed("KEY_FILE_NOT_FOUND_OR_DENIED")
                \/ Closed("FATAL_ERROR")
             /\ UNCHANGED agent
    <3>1. \E e \in Events : Closed(e)
      BY <2>1 DEF Events
    <3>2. /\ login' \in LoginType /\ login'.forwarding = login.forwarding
          /\ login'.phase = "closed"
      BY <1>1, <3>1, ClosedTyped
    <3> QED
      BY <1>1, <2>1, <3>2 DEF LoginTypes
  <2>2. CASE \E t \in ImportedTypes :
                /\ login' = [login EXCEPT !.phase = "loaded", !.keyType = t]
                /\ agent' = [agent EXCEPT !.inHand = 1]
    <3>1. PICK t \in ImportedTypes :
                /\ login' = [login EXCEPT !.phase = "loaded", !.keyType = t]
                /\ agent' = [agent EXCEPT !.inHand = 1]
      BY <2>2
    <3> DEFINE m == [login EXCEPT !.phase = "loaded"]
    <3>2. m \in LoginType /\ m.phase = "loaded"
          /\ m.forwarding = login.forwarding
      BY <1>1, <1>2, LoginField, Zenon
    <3>3. login' = [m EXCEPT !.keyType = t]
      BY <3>1, Zenon
    <3>4. t \in KeyTypes \cup {"none"}
      BY SshAgentAssumption
    <3>5. /\ login' \in LoginType /\ login'.phase = "loaded"
          /\ login'.forwarding = login.forwarding
      <4> HIDE DEF m
      <4> QED
        BY <3>2, <3>3, <3>4, LoginField, Zenon
    <3>6. /\ agent' \in ContextType /\ agent'.isLocked = agent.isLocked
          /\ agent'.lockPassword = agent.lockPassword
      BY <1>1, <3>1 DEF ContextType
    <3> QED
      BY <3>5, <3>6 DEF LoginTypes
  <2> QED
    BY <1>4, <2>1, <2>2 DEF ImportOpenSsh
<1>5. CASE LoadPutty
  <2>1. PICK o \in LoadOutcomes(login.file) :
          LET loaded == o.code = "SUCCESS"
          IN  /\ login' = [login EXCEPT !.outcome = o,
                    !.phase = IF loaded THEN "loaded" ELSE "refused",
                    !.keyType = o.key.type,
                    !.event = IF loaded THEN "none" ELSE LoadEvent(o.code)]
              /\ agent' = [agent EXCEPT !.inHand = IF loaded THEN 1 ELSE 0]
    BY <1>5 DEF LoadPutty
  <2> DEFINE loaded == o.code = "SUCCESS"
             phase == IF loaded THEN "loaded" ELSE "refused"
             event == IF loaded THEN "none" ELSE LoadEvent(o.code)
             held == IF loaded THEN 1 ELSE 0
             m1 == [login EXCEPT !.outcome = o]
             m2 == [m1 EXCEPT !.phase = phase]
             m3 == [m2 EXCEPT !.keyType = o.key.type]
  <2>2. IF loaded THEN o.key.type \in {"ssh-dss", "ssh-rsa"}
        ELSE o.key.type = "none"
    BY LoadReturnsKey
  <2>3. o \in Outcomes
    BY <1>1 DEF Outcomes, LoginType
  <2>4. login' = [m3 EXCEPT !.event = event]
    BY <2>1, Zenon
  <2>5. agent' = [agent EXCEPT !.inHand = held]
    BY <2>1, Zenon
  <2>6. o.key.type \in KeyTypes \cup {"none"}
    BY <2>2 DEF KeyTypes
  <2>7. phase \in {"loaded", "refused"} /\ phase \in Phases
    BY <1>2
  <2>8. event \in Events
    BY DEF LoadEvent, Events
  <2>9. held \in Int
    OBVIOUS
  <2> HIDE DEF phase, event, held
  <2>10. m1 \in LoginType /\ m1.forwarding = login.forwarding
    BY <1>1, <2>3, LoginField, Zenon
  <2>11. m2 \in LoginType /\ m2.phase = phase
         /\ m2.forwarding = login.forwarding
    <3> HIDE DEF m1
    <3> QED
      BY <2>7, <2>10, LoginField, Zenon
  <2>12. m3 \in LoginType /\ m3.phase = phase
         /\ m3.forwarding = login.forwarding
    <3> HIDE DEF m2
    <3> QED
      BY <2>6, <2>11, LoginField, Zenon
  <2>13. login' \in LoginType /\ login'.phase = phase
         /\ login'.forwarding = login.forwarding
    <3> HIDE DEF m3
    <3> QED
      BY <2>4, <2>8, <2>12, LoginField, Zenon
  <2>14. /\ agent' \in ContextType /\ agent'.isLocked = agent.isLocked
         /\ agent'.lockPassword = agent.lockPassword
    BY <1>1, <2>5, <2>9 DEF ContextType
  <2> QED
    BY <2>7, <2>13, <2>14 DEF LoginTypes
<1>6. CASE KeyRefused
  <2>1. login' = [login EXCEPT !.phase = "closed"] /\ UNCHANGED agent
    BY <1>6 DEF KeyRefused
  <2>2. /\ login' \in LoginType /\ login'.forwarding = login.forwarding
        /\ login'.phase = "closed"
    BY <1>1, <1>2, <2>1, LoginField, Zenon
  <2> QED
    BY <1>1, <2>1, <2>2 DEF LoginTypes
<1>7. CASE Authenticated
  <2>1. InHand
    BY <1>7 DEF Authenticated, KeyInv, Owner
  <2>2. login.keyType \in KeyTypes
    BY <1>1, <2>1 DEF LoginType, InHand
  <2> DEFINE forgot == Forget(login)
             openSsh == CHOOSE f \in KeyFiles : f.opens = "openssh"
             failed == Outcome("FAIL")
             m == [login EXCEPT !.file = openSsh]
  <2>3. openSsh \in KeyFiles
    BY SomeOpenSsh
  <2>4. failed \in Outcomes
    BY DEF Outcomes
  <2>5. m \in LoginType /\ m.forwarding = login.forwarding
    <3> HIDE DEF openSsh
    <3> QED
      BY <1>1, <2>3, LoginField, Zenon
  <2>6. forgot = [m EXCEPT !.outcome = failed]
    BY Zenon DEF Forget
  <2>7. forgot \in LoginType /\ forgot.forwarding = login.forwarding
    <3> HIDE DEF m, forgot, failed
    <3> QED
      BY <2>4, <2>5, <2>6, LoginField, Zenon
  <2> HIDE DEF m, forgot
  <2>8. CASE /\ agent' = FreeKey(agent)
             /\ \E e \in Events :
                   login' = [forgot EXCEPT !.phase = "closed", !.event = e]
    <3>1. PICK e \in Events :
             login' = [forgot EXCEPT !.phase = "closed", !.event = e]
      BY <2>8
    <3> DEFINE n == [forgot EXCEPT !.phase = "closed"]
    <3>2. n \in LoginType /\ n.phase = "closed"
          /\ n.forwarding = login.forwarding
      BY <1>2, <2>7, LoginField, Zenon
    <3>3. login' = [n EXCEPT !.event = e]
      BY <3>1, Zenon
    <3>4. /\ login' \in LoginType /\ login'.phase = "closed"
          /\ login'.forwarding = login.forwarding
      <4> HIDE DEF n
      <4> QED
        BY <3>2, <3>3, LoginField, Zenon
    <3>5. /\ agent' \in ContextType /\ agent'.isLocked = agent.isLocked
          /\ agent'.lockPassword = agent.lockPassword
      BY <1>1, <2>2, <2>8, HandsOverTyped, Zenon
    <3> QED
      BY <3>4, <3>5 DEF LoginTypes
  <2>9. CASE /\ login' = [forgot EXCEPT !.phase = "serving"]
             /\ \/ login.forwarding /\ agent' = SshAgentAddKey(agent)
                \/ ~login.forwarding /\ agent' = FreeKey(agent)
    <3>1. /\ login' \in LoginType /\ login'.phase = "serving"
          /\ login'.forwarding = login.forwarding
      BY <1>2, <2>7, <2>9, LoginField, Zenon
    <3>2. CASE ~login.forwarding /\ agent' = FreeKey(agent)
      <4>1. /\ agent' \in ContextType /\ agent'.isLocked = agent.isLocked
            /\ agent'.lockPassword = agent.lockPassword
        BY <1>1, <2>2, <3>2, HandsOverTyped, Zenon
      <4> QED
        BY <3>1, <3>2, <4>1 DEF LoginTypes
    <3>3. CASE agent' = SshAgentAddKey(agent)
      <4>1. /\ agent' \in ContextType /\ agent'.isLocked = agent.isLocked
            /\ agent'.lockPassword = agent.lockPassword /\ agent'.keys # <<>>
        BY <1>1, <2>2, <3>3, HandsOverTyped, Zenon
      <4> QED
        BY <3>1, <4>1 DEF LoginTypes
    <3> QED
      BY <2>9, <3>2, <3>3
  <2>10. \A e \in {"OUT_OF_MEMORY_ERROR", "FATAL_ERROR",
                  "PASSWORD_AUTHENTICATION_DENIED"} : e \in Events
    BY DEF Events
  <2> QED
    BY <1>7, <2>8, <2>9, <2>10, Zenon DEF Authenticated, forgot
<1> QED
  BY <1>3, <1>4, <1>5, <1>6, <1>7 DEF LoginStep

-----------------------------------------------------------------------------
(* The replies.                                                            *)

\* A request for a signature is refused or answered with one whose form is
\* readable (SshAgent.c:560).
LEMMA SignatureReply ==
    ASSUME NEW a \in ContextType, NEW r, NEW signs
    PROVE  MakeSignatureReply(a, r, signs) \in Replies \ {NoReply}
<1> DEFINE given == SshAgentSign(a.keys[1], r.flags)
<1>1. Failure \in Replies /\ Failure # NoReply
  BY DEF Replies, Failure, NoReply
<1>2. CASE SignRefused(a, r) \/ ~signs
  BY <1>1, <1>2 DEF MakeSignatureReply
<1>3. CASE ~SignRefused(a, r) /\ signs
  <2>1. r.flags = 0 /\ a.keys[1] \in KeyTypes
    BY <1>3 DEF SignRefused, ContextType
  <2>2. given \in GivenAlgorithms
    BY <2>1, SignsWithKey
  <2>3. MakeSignatureReply(a, r, signs) = [kind |-> "SIGN_RESPONSE",
                                           algorithm |-> given]
    BY <1>3 DEF MakeSignatureReply
  <2> HIDE DEF given
  <2>4. [kind |-> "SIGN_RESPONSE", algorithm |-> given] \in Replies
    BY <2>2 DEF Replies
  <2>5. [kind |-> "SIGN_RESPONSE", algorithm |-> given] # NoReply
    <3>1. [kind |-> "SIGN_RESPONSE", algorithm |-> given].kind
             = "SIGN_RESPONSE"
      OBVIOUS
    <3>2. NoReply.kind = "none"
      BY DEF NoReply
    <3> QED
      BY <3>1, <3>2
  <2> QED
    BY <2>3, <2>4, <2>5
<1> QED
  BY <1>2, <1>3

\* A request locks, unlocks or leaves the context.
LEMMA ContextAfter ==
    ASSUME NEW a \in ContextType, NEW r \in Asked, NEW signs
    PROVE  LET b == ReplyFromRequest(a, r, signs)[2]
           IN  b \in ContextType /\ b.keys = a.keys
<1>1. /\ r.type \in {"REQUEST_IDENTITIES", "unsupported", "unknown",
                     "SIGN_REQUEST", "LOCK", "UNLOCK"}
      /\ r.type \in {"LOCK", "UNLOCK"} => r.pass \in Passphrase
  BY RequestTypes DEF Asked, NoRequest
<1>2. CASE r.type = "LOCK"
  <2>1. r.pass \in Passphrase \cup {<<>>}
    BY <1>1, <1>2
  <2> DEFINE m == [a EXCEPT !.isLocked = TRUE]
             pass == r.pass
  <2>2. m \in ContextType /\ m.keys = a.keys
    BY DEF ContextType
  <2>3. ReplyFromRequest(a, r, signs)[2] \in {a, [m EXCEPT !.lockPassword = pass]}
    BY <1>2 DEF ReplyFromRequest, ProcessLockRequest
  <2> HIDE DEF m, pass
  <2>4. /\ [m EXCEPT !.lockPassword = pass] \in ContextType
        /\ [m EXCEPT !.lockPassword = pass].keys = a.keys
    BY <2>1, <2>2 DEF ContextType, pass
  <2> QED
    BY <2>3, <2>4
<1>3. CASE r.type = "UNLOCK"
  <2> DEFINE m == [a EXCEPT !.isLocked = FALSE]
  <2>1. m \in ContextType /\ m.keys = a.keys
    BY DEF ContextType
  <2>2. ReplyFromRequest(a, r, signs)[2] \in {a, [m EXCEPT !.lockPassword = <<>>]}
    BY <1>3 DEF ReplyFromRequest, ProcessUnlockRequest
  <2> HIDE DEF m
  <2>3. /\ [m EXCEPT !.lockPassword = <<>>] \in ContextType
        /\ [m EXCEPT !.lockPassword = <<>>].keys = a.keys
    BY <2>1 DEF ContextType
  <2> QED
    BY <2>2, <2>3
<1>4. CASE r.type \notin {"LOCK", "UNLOCK"}
  <2>1. ReplyFromRequest(a, r, signs)[2] = a
    BY <1>1, <1>4 DEF ReplyFromRequest
  <2> QED
    BY <2>1
<1> QED
  BY <1>2, <1>3, <1>4

\* Only a request of an unknown type makes no reply (SshAgent.c:838).
LEMMA ReplyTyped ==
    ASSUME NEW a \in ContextType, NEW r \in Asked, NEW signs
    PROVE  LET reply == ReplyFromRequest(a, r, signs)[1]
           IN  reply \in Replies /\ (reply = NoReply <=> r.type = "unknown")
<1> DEFINE reply == ReplyFromRequest(a, r, signs)[1]
<1>1. r.type \in {"REQUEST_IDENTITIES", "unsupported", "unknown",
                  "SIGN_REQUEST", "LOCK", "UNLOCK"}
  BY RequestTypes DEF Asked, NoRequest
<1>2. /\ Failure \in Replies /\ Success \in Replies /\ NoReply \in Replies
      /\ Failure.kind = "FAILURE" /\ Success.kind = "SUCCESS"
      /\ NoReply.kind = "none"
  BY DEF Replies, Failure, Success, NoReply
<1>3. CASE r.type = "REQUEST_IDENTITIES"
  <2>1. reply = Identities(a)
    BY <1>3 DEF ReplyFromRequest
  <2>2. Identities(a) \in Replies
    BY DEF Identities, Replies
  <2>3. Identities(a).kind \in {"no identities", "identities"}
    BY DEF Identities
  <2> QED
    BY <1>2, <1>3, <2>1, <2>2, <2>3
<1>4. CASE r.type = "SIGN_REQUEST"
  <2>1. reply = MakeSignatureReply(a, r, signs)
    BY <1>4 DEF ReplyFromRequest
  <2> QED
    BY <1>4, <2>1, SignatureReply
<1>5. CASE r.type \in {"LOCK", "UNLOCK", "unsupported"}
  <2>1. reply \in {Failure, Success}
    BY <1>5 DEF ReplyFromRequest, ProcessLockRequest, ProcessUnlockRequest
  <2> QED
    BY <1>2, <1>5, <2>1
<1>6. CASE r.type = "unknown"
  <2>1. reply = NoReply
    BY <1>6 DEF ReplyFromRequest
  <2> QED
    BY <1>2, <1>6, <2>1
<1> QED
  BY <1>1, <1>3, <1>4, <1>5, <1>6

-----------------------------------------------------------------------------
(* The reader, whatever is on the channel.                                 *)

\* The reader takes cells, and waits for a body or for what two joined headers
\* say.
LEMMA BufferIsNat == BufferLengths \subseteq Nat
BY SshAgentAssumption DEF BufferLengths

LEMMA ReaderReads ==
    ASSUME Typed
    PROVE  /\ AfterHeader \in Seq(Cell)
           /\ Len(AfterHeader) = Len(channel.unread) - HeaderCells
           /\ HeaderCells \in 0..2 /\ HeaderCells <= Len(channel.unread)
           /\ Lengths \subseteq BufferLengths
<1>1. channel.unread \in Seq(Cell) /\ agentBuffer \in BufferLengths
  BY DEF Typed, ChannelType
<1>2. HeaderCells \in 0..2 /\ HeaderCells <= Len(channel.unread)
  BY <1>1 DEF HeaderCells, HeaderSize
<1>3. /\ AfterHeader \in Seq(Cell)
      /\ Len(AfterHeader) = Len(channel.unread) - HeaderCells
  <2> HIDE DEF HeaderCells
  <2> QED
    BY <1>1, <1>2 DEF AfterHeader
<1>4. Lengths \subseteq BufferLengths
  <2>1. CASE HeaderCells = 0
    BY <1>1, <2>1 DEF Lengths
  <2>2. CASE HeaderCells # 0
    <3>1. BodySize(channel.unread[1].req) \in 1..2
      BY BodySizes
    <3> QED
      BY <2>2, <3>1 DEF Lengths, LengthsIn, BufferLengths
  <2> QED
    BY <2>1, <2>2
<1> QED
  BY <1>2, <1>3, <1>4

\* A complete request: what it is taken for, and what is made of it.
Read(n, r, signs) ==
    /\ n \in Lengths /\ n \in Nat \ {0} /\ n <= Len(AfterHeader)
    /\ r \in RequestsIn(SubSeq(AfterHeader, 1, n)) /\ r \in Asked
    /\ channel.isOpen /\ login.phase = "serving"
    /\ channel' = [channel EXCEPT !.unread =
                      SubSeq(AfterHeader, n + 1, Len(AfterHeader))]
    /\ agent' = ReplyFromRequest(agent, r, signs)[2]
    /\ \/ /\ ReplyFromRequest(agent, r, signs)[1] = NoReply
          /\ login' = [login EXCEPT !.phase = "broken",
                                    !.event = "OUT_OF_MEMORY_ERROR"]
          /\ agentBuffer' = n
          /\ scheduled' = FALSE
          /\ UNCHANGED clients
       \/ /\ ReplyFromRequest(agent, r, signs)[1] # NoReply
          /\ clients' = [clients EXCEPT ![channel.client].given =
                            ReplyFromRequest(agent, r, signs)[1]]
          /\ agentBuffer' = 0
          /\ scheduled' = TRUE
          /\ UNCHANGED login

LEMMA RequestIsRead ==
    ASSUME Typed, ReadRequest
    PROVE  \E n, r, signs : Read(n, r, signs)
<1>1. PICK n \in Lengths \ {0} :
          /\ Complete(n)
          /\ \E r \in RequestsIn(SubSeq(AfterHeader, 1, n)), signs \in BOOLEAN :
                TakeRequest(n, r, signs)
  BY Zenon DEF ReadRequest
<1>2. n \in Nat \ {0} /\ n <= Len(AfterHeader)
  BY <1>1, ReaderReads, BufferIsNat DEF Complete
<1>3. PICK r \in RequestsIn(SubSeq(AfterHeader, 1, n)), signs \in BOOLEAN :
          TakeRequest(n, r, signs)
  BY <1>1, Zenon
<1>4. r \in Asked
  BY <1>3, ReadsRequests, Zenon
<1>5. Read(n, r, signs)
  BY <1>1, <1>2, <1>3, <1>4, Zenon DEF Read, TakeRequest, ReadRequest, Serving
<1> QED
  BY <1>5

\* The reader keeps the types and the key.
LEMMA ReaderKeeps ==
    ASSUME Typed, HasKey, ReadClosed \/ ReadPart \/ ReadRequest
    PROVE  Typed' /\ HasKey'
<1>1. CASE ReadClosed
  <2>1. UNCHANGED <<login, agent, channel, agentBuffer, clients>>
        /\ scheduled' = FALSE
    BY <1>1 DEF ReadClosed
  <2> QED
    BY <2>1 DEF Typed, HasKey, Up
<1>2. channel \in ChannelType /\ channel.unread \in Seq(Cell)
  BY DEF Typed, ChannelType
<1>3. CASE ReadPart
  <2>1. channel' = [channel EXCEPT !.unread = AfterHeader]
        /\ UNCHANGED <<login, agent, clients>> /\ scheduled' \in BOOLEAN
    BY <1>3 DEF ReadPart
  <2>2. agentBuffer' \in BufferLengths
    BY <1>3, ReaderReads DEF ReadPart
  <2>3. AfterHeader \in Seq(Cell)
    BY ReaderReads
  <2> HIDE DEF AfterHeader
  <2>4. /\ channel' \in ChannelType /\ channel'.isOpen = channel.isOpen
        /\ channel'.client = channel.client
    BY <1>2, <2>1, <2>3 DEF ChannelType
  <2>5. Typed'
    BY <2>1, <2>2, <2>4 DEF Typed
  <2>6. HasKey'
    BY <2>1, <2>4 DEF HasKey, Up
  <2> QED
    BY <2>5, <2>6
<1>4. CASE ReadRequest
  <2>1. PICK n, r, signs : Read(n, r, signs)
    BY <1>4, RequestIsRead
  <2> DEFINE rest == SubSeq(AfterHeader, n + 1, Len(AfterHeader))
             answer == ReplyFromRequest(agent, r, signs)[1]
  <2>2. /\ n \in Nat /\ n <= Len(AfterHeader) /\ n \in BufferLengths
        /\ r \in Asked
        /\ channel' = [channel EXCEPT !.unread = rest]
    BY <2>1, ReaderReads DEF Read
  <2>3. rest \in Seq(Cell)
    <3>1. AfterHeader \in Seq(Cell)
      BY ReaderReads
    <3> HIDE DEF AfterHeader
    <3> QED
      BY <2>2, <3>1
  <2> HIDE DEF rest
  <2>4. /\ channel' \in ChannelType /\ channel'.isOpen = channel.isOpen
        /\ channel'.client = channel.client
    BY <1>2, <2>2, <2>3 DEF ChannelType
  <2>6. agent' \in ContextType /\ agent'.keys = agent.keys
    <3>1. agent \in ContextType
      BY DEF Typed
    <3>2. agent' = ReplyFromRequest(agent, r, signs)[2]
      BY <2>1 DEF Read
    <3> QED
      BY <2>2, <3>1, <3>2, ContextAfter, Zenon
  <2>7. answer \in Replies
    BY <2>2, ReplyTyped, Zenon DEF Typed
  <2> HIDE DEF answer
  <2>8. CASE /\ login' = [login EXCEPT !.phase = "broken",
                                       !.event = "OUT_OF_MEMORY_ERROR"]
             /\ agentBuffer' = n /\ scheduled' = FALSE /\ UNCHANGED clients
    <3> DEFINE m == [login EXCEPT !.phase = "broken"]
    <3>1. "broken" \in Phases /\ "OUT_OF_MEMORY_ERROR" \in Events
      BY DEF Phases, Events
    <3>2. m \in LoginType /\ m.phase = "broken"
          /\ m.forwarding = login.forwarding
      BY <3>1, LoginField, Zenon DEF Typed
    <3>3. login' = [m EXCEPT !.event = "OUT_OF_MEMORY_ERROR"]
      BY <2>8, Zenon
    <3> HIDE DEF m
    <3>4. login' \in LoginType /\ login'.phase = "broken"
          /\ login'.forwarding = login.forwarding
      BY <3>1, <3>2, <3>3, LoginField, Zenon
    <3>5. Typed'
      <4>1. agentBuffer' \in BufferLengths /\ scheduled' \in BOOLEAN
        BY <2>2, <2>8, Zenon
      <4>2. clients' \in [Client -> ClientType]
        BY <2>8 DEF Typed
      <4> QED
        BY <2>4, <2>6, <3>4, <4>1, <4>2, Zenon DEF Typed
    <3>6. HasKey'
      BY <2>4, <2>8, <3>4 DEF HasKey, Up
    <3> QED
      BY <3>5, <3>6
  <2>9. CASE /\ clients' = [clients EXCEPT ![channel.client].given = answer]
             /\ agentBuffer' = 0 /\ scheduled' = TRUE /\ UNCHANGED login
    <3>1. ASSUME NEW c \in Client
          PROVE  /\ clients'[c] \in ClientType
                 /\ clients'[c].asked = clients[c].asked
                 /\ clients'[c].arrived = clients[c].arrived
                 /\ clients'[c].state = clients[c].state
      <4>1. clients[c] \in ClientType
        BY DEF Typed
      <4>2. \/ clients'[c] = clients[c]
            \/ clients'[c] = [clients[c] EXCEPT !.given = answer]
        BY <2>9 DEF Typed
      <4> HIDE DEF Typed
      <4> QED
        BY <2>7, <4>1, <4>2 DEF ClientType
    <3>2. clients' \in [Client -> ClientType]
      <4>1. clients' = [c \in Client |-> clients'[c]]
        BY <2>9 DEF Typed
      <4> QED
        BY <3>1, <4>1
    <3>3. Typed'
      BY <2>4, <2>6, <2>9, <3>2 DEF Typed, BufferLengths
    <3>4. HasKey'
      BY <2>4, <2>6, <2>9, <3>1 DEF HasKey, Up
    <3> QED
      BY <3>3, <3>4
  <2> QED
    BY <2>1, <2>8, <2>9, Zenon DEF Read, answer
<1> QED
  BY <1>1, <1>3, <1>4

-----------------------------------------------------------------------------
(* The programs and the server, whatever is on the channel.                *)

\* A step of one program: d is what becomes of it.
Becomes(c, d) == /\ clients' \in [Client -> ClientType]
                 /\ clients'[c] = d
                 /\ \A o \in Client \ {c} : clients'[o] = clients[o]

LEMMA OneMoves ==
    ASSUME clients \in [Client -> ClientType], NEW c \in Client,
           NEW d \in ClientType, clients' = [clients EXCEPT ![c] = d]
    PROVE  Becomes(c, d)
BY DEF Becomes

LEMMA ClientFields ==
    ASSUME NEW d \in ClientType, NEW x
    PROVE  /\ x \in {"new", "open", "gone"} =>
                  /\ [d EXCEPT !.state = x] \in ClientType
                  /\ [d EXCEPT !.state = x].state = x
                  /\ [d EXCEPT !.state = x].asked = d.asked
                  /\ [d EXCEPT !.state = x].arrived = d.arrived
                  /\ [d EXCEPT !.state = x].given = d.given
           /\ x \in Request =>
                  /\ [d EXCEPT !.asked = x] \in ClientType
                  /\ [d EXCEPT !.asked = x].asked = x
                  /\ [d EXCEPT !.asked = x].state = d.state
           /\ x \in Nat =>
                  /\ [d EXCEPT !.arrived = x] \in ClientType
                  /\ [d EXCEPT !.arrived = x].arrived = x
                  /\ [d EXCEPT !.arrived = x].asked = d.asked
                  /\ [d EXCEPT !.arrived = x].state = d.state
                  /\ [d EXCEPT !.arrived = x].given = d.given
           /\ x \in Replies =>
                  /\ [d EXCEPT !.given = x] \in ClientType
                  /\ [d EXCEPT !.given = x].given = x
                  /\ [d EXCEPT !.given = x].asked = d.asked
                  /\ [d EXCEPT !.given = x].arrived = d.arrived
                  /\ [d EXCEPT !.given = x].state = d.state
BY DEF ClientType

\* A program opens the channel, which is bound to it (authAgentCallback).
Opens(c) ==
    /\ Becomes(c, clients'[c]) /\ clients[c].state = "new" /\ Up
    /\ clients'[c].state = "open" /\ clients'[c].asked = clients[c].asked
    /\ clients'[c].arrived = clients[c].arrived
    /\ clients'[c].given = clients[c].given
    /\ channel' \in ChannelType /\ channel'.client = c /\ channel'.isOpen
    /\ channel'.orderly <=> (channel.orderly /\ ~channel.isOpen)
    /\ channel'.unread = channel.unread /\ channel'.left = channel.left
    /\ UNCHANGED <<login, agent, agentBuffer, scheduled>>
LEMMA OpenSays ==
    ASSUME Typed, NEW c \in Client, OpenAgentChannel(c) PROVE Opens(c)
<1>1. clients[c] \in ClientType /\ channel \in ChannelType
  BY DEF Typed
<1> DEFINE d == [clients[c] EXCEPT !.state = "open"]
           o == channel.orderly /\ ~channel.isOpen
<1>2. /\ d \in ClientType /\ d.state = "open" /\ d.asked = clients[c].asked
      /\ d.arrived = clients[c].arrived /\ d.given = clients[c].given
  BY <1>1, ClientFields, Zenon
<1>3. clients' = [clients EXCEPT ![c] = d]
  BY DEF OpenAgentChannel
<1>4. Becomes(c, d) /\ clients'[c] = d
  <2> HIDE DEF d
  <2> QED
    BY <1>2, <1>3, OneMoves DEF Typed, Becomes
<1>5. o \in BOOLEAN
  BY <1>1 DEF ChannelType
<1>6. channel' = [channel EXCEPT !.client = c, !.isOpen = TRUE, !.orderly = o]
  BY Zenon DEF OpenAgentChannel
<1>7. /\ channel' \in ChannelType /\ channel'.client = c /\ channel'.isOpen
      /\ channel'.orderly = o
      /\ channel'.unread = channel.unread /\ channel'.left = channel.left
  <2> HIDE DEF o
  <2> QED
    BY <1>1, <1>5, <1>6 DEF ChannelType
<1>8. channel'.orderly <=> (channel.orderly /\ ~channel.isOpen)
  <2>1. channel'.orderly = o
    BY <1>7
  <2> QED
    BY <2>1, Zenon
<1>9. /\ Up /\ clients[c].state = "new"
      /\ UNCHANGED <<login, agent, agentBuffer, scheduled>>
  BY DEF OpenAgentChannel
<1> HIDE DEF d
<1> QED
  BY <1>2, <1>4, <1>7, <1>8, <1>9, Zenon DEF Opens

\* A program goes; the channel is closed if it is bound to it.
Goes(c) ==
    /\ Becomes(c, clients'[c]) /\ clients[c].state = "open" /\ Up
    /\ clients'[c].state = "gone" /\ clients'[c].asked = clients[c].asked
    /\ clients'[c].arrived = clients[c].arrived
    /\ clients'[c].given = clients[c].given
    /\ channel' \in ChannelType /\ channel'.client = channel.client
    /\ channel'.isOpen <=> (channel.isOpen /\ channel.client # c)
    /\ channel'.orderly <=> (channel.orderly /\ ~Owed(c))
    /\ channel'.unread = channel.unread /\ channel'.left = channel.left
    /\ UNCHANGED <<login, agent, agentBuffer>> /\ scheduled' \in BOOLEAN
LEMMA CloseSays ==
    ASSUME Typed, NEW c \in Client, CloseAgentChannel(c) PROVE Goes(c)
<1>1. clients[c] \in ClientType /\ channel \in ChannelType
  BY DEF Typed
<1> DEFINE d == [clients[c] EXCEPT !.state = "gone"]
           p == IF channel.client = c THEN FALSE ELSE channel.isOpen
           o == channel.orderly /\ ~Owed(c)
<1>2. /\ d \in ClientType /\ d.state = "gone" /\ d.asked = clients[c].asked
      /\ d.arrived = clients[c].arrived /\ d.given = clients[c].given
  BY <1>1, ClientFields, Zenon
<1>3. clients' = [clients EXCEPT ![c] = d]
  BY DEF CloseAgentChannel
<1>4. Becomes(c, d) /\ clients'[c] = d
  <2> HIDE DEF d
  <2> QED
    BY <1>2, <1>3, OneMoves DEF Typed, Becomes
<1>5. o \in BOOLEAN /\ p \in BOOLEAN
  BY <1>1 DEF ChannelType, Owed
<1>6. channel' = [channel EXCEPT !.isOpen = p, !.orderly = o]
  BY Zenon DEF CloseAgentChannel
<1>7. /\ channel' \in ChannelType /\ channel'.client = channel.client
      /\ channel'.isOpen = p /\ channel'.orderly = o
      /\ channel'.unread = channel.unread /\ channel'.left = channel.left
  <2> HIDE DEF o, p
  <2> QED
    BY <1>1, <1>5, <1>6 DEF ChannelType
<1>8. channel'.orderly <=> (channel.orderly /\ ~Owed(c))
  <2>1. channel'.orderly = o
    BY <1>7
  <2> QED
    BY <2>1, Zenon
<1>9. channel'.isOpen <=> (channel.isOpen /\ channel.client # c)
  <2>1. channel'.isOpen = p
    BY <1>7
  <2> QED
    BY <2>1, Zenon
<1>10. /\ Up /\ clients[c].state = "open" /\ scheduled' = TRUE
       /\ UNCHANGED <<login, agent, agentBuffer>>
  BY DEF CloseAgentChannel
<1> HIDE DEF d
<1> QED
  BY <1>2, <1>4, <1>7, <1>8, <1>9, <1>10, Zenon DEF Goes

\* A program sends a request.
Asks(c, r) ==
    /\ Becomes(c, clients'[c]) /\ clients[c].state = "open" /\ Up
    /\ ~Owed(c) /\ r # NoRequest /\ channel.left > 0
    /\ clients'[c].state = "open" /\ clients'[c].asked = r
    /\ clients'[c].arrived = 0 /\ clients'[c].given = NoReply
    /\ channel' = [channel EXCEPT !.left = @ - 1]
    /\ UNCHANGED <<login, agent, agentBuffer, scheduled>>
LEMMA SendSays ==
    ASSUME Typed, NEW c \in Client, NEW r \in Request, SendRequest(c, r)
    PROVE  Asks(c, r)
<1>1. clients[c] \in ClientType /\ 0 \in Nat /\ NoReply \in Replies
  BY DEF Typed, Replies
<1> DEFINE d1 == [clients[c] EXCEPT !.asked = r]
           d2 == [d1 EXCEPT !.arrived = 0]
           d3 == [d2 EXCEPT !.given = NoReply]
<1>2. d1 \in ClientType /\ d1.asked = r /\ d1.state = clients[c].state
  BY <1>1, ClientFields, Zenon
<1>3. d2 \in ClientType /\ d2.asked = r /\ d2.state = clients[c].state
      /\ d2.arrived = 0
  <2> HIDE DEF d1
  <2> QED
    BY <1>1, <1>2, ClientFields, Zenon
<1>4. d3 \in ClientType /\ d3.asked = r /\ d3.state = clients[c].state
      /\ d3.arrived = 0 /\ d3.given = NoReply
  <2> HIDE DEF d2
  <2> QED
    BY <1>1, <1>3, ClientFields, Zenon
<1>5. clients' = [clients EXCEPT ![c] = d3]
  BY DEF SendRequest
<1>6. Becomes(c, d3) /\ clients'[c] = d3
  <2> HIDE DEF d3
  <2> QED
    BY <1>4, <1>5, OneMoves DEF Typed, Becomes
<1>7. /\ clients[c].state = "open" /\ Up /\ ~Owed(c) /\ r # NoRequest
      /\ channel.left > 0
      /\ channel' = [channel EXCEPT !.left = @ - 1]
      /\ UNCHANGED <<login, agent, agentBuffer, scheduled>>
  BY DEF SendRequest
<1> HIDE DEF d3
<1> QED
  BY <1>4, <1>6, <1>7, Zenon DEF Asks

\* A cell of a request arrives.
Arrives(c) ==
    LET i == clients[c].arrived + 1
    IN  /\ Becomes(c, clients'[c]) /\ clients[c].state = "open" /\ Up
        /\ clients[c].asked # NoRequest /\ i <= Size(c) /\ channel.client = c
        /\ clients'[c].state = "open" /\ clients'[c].arrived = i
        /\ clients'[c].asked = clients[c].asked
        /\ clients'[c].given = clients[c].given
        /\ channel' = [channel EXCEPT !.unread = Append(@,
                          [from |-> c, req |-> clients[c].asked, at |-> i])]
        /\ UNCHANGED <<login, agent, agentBuffer>> /\ scheduled' \in BOOLEAN
LEMMA DeliverSays ==
    ASSUME Typed, NEW c \in Client, Deliver(c) PROVE Arrives(c)
<1>1. clients[c] \in ClientType /\ clients[c].arrived \in Nat
  BY DEF Typed, ClientType
<1> DEFINE i == clients[c].arrived + 1
           r == clients[c].asked
           d == [clients[c] EXCEPT !.arrived = i]
<1>2. i \in Nat /\ i >= 1
  BY <1>1
<1>3. /\ d \in ClientType /\ d.state = clients[c].state
      /\ d.asked = clients[c].asked /\ d.arrived = i
      /\ d.given = clients[c].given
  <2> HIDE DEF i
  <2> QED
    BY <1>1, <1>2, ClientFields, Zenon
<1>4. clients' = [clients EXCEPT ![c] = d]
  BY DEF Deliver
<1>5. Becomes(c, d) /\ clients'[c] = d
  <2> HIDE DEF d
  <2> QED
    BY <1>3, <1>4, OneMoves DEF Typed, Becomes
<1>6. Size(c) = HeaderSize + BodySize(r) /\ Size(c) \in Nat
  BY BodySizes DEF Size, HeaderSize
<1>7. Len(Cells(c, r)) = Size(c)
  BY <1>6 DEF Cells
<1>8. i <= Size(c)
  BY <1>7 DEF Deliver
<1>9. Cells(c, r)[i] = [from |-> c, req |-> r, at |-> i]
  BY <1>2, <1>6, <1>8 DEF Cells
<1>10. channel' = [channel EXCEPT !.unread =
                      Append(@, [from |-> c, req |-> r, at |-> i])]
  <2> HIDE DEF i, r
  <2>1. channel' = [channel EXCEPT !.unread = Append(@, Cells(c, r)[i])]
    BY Zenon DEF Deliver, i, r
  <2> QED
    BY <1>9, <2>1, Zenon
<1>11. scheduled' \in BOOLEAN
  BY DEF Deliver, Typed
<1>12. /\ clients[c].state = "open" /\ Up /\ r # NoRequest
       /\ channel.client = c
       /\ UNCHANGED <<login, agent, agentBuffer>>
  BY DEF Deliver
<1> HIDE DEF d
<1> QED
  BY <1>3, <1>5, <1>8, <1>10, <1>11, <1>12, Zenon DEF Arrives

-----------------------------------------------------------------------------
(* The invariant, step by step.                                            *)

LEMMA Served == ServiceInv => Typed /\ HasKey
BY DEF ServiceInv

\* Up means that the session goes on, so that an orderly channel is asked by
\* one program at most.
LEMMA OrderlyAsks == ServiceInv /\ Up /\ channel.orderly => OneAsks
BY DEF ServiceInv, Up

LEMMA OpenKeeps ==
    ASSUME ServiceInv, NEW c \in Client, OpenAgentChannel(c)
    PROVE  ServiceInv'
<1>1. Typed /\ HasKey
  BY Served
<1>2. Opens(c)
  BY <1>1, OpenSays
<1>3. Typed'
  BY <1>1, <1>2 DEF Typed, Opens, Becomes
<1>4. \A d \in Client : /\ clients'[d].asked = clients[d].asked
                        /\ clients'[d].arrived = clients[d].arrived
                        /\ clients'[d].given = clients[d].given
  BY <1>2 DEF Opens, Becomes
<1>5. HasKey'
  <2>1. \A d \in Client \ {c} : clients'[d] = clients[d]
    BY <1>2 DEF Opens, Becomes
  <2>2. clients'[c].state = "open" /\ Up /\ channel'.client = c
        /\ UNCHANGED <<login, agent>>
    BY <1>2 DEF Opens
  <2> QED
    BY <1>1, <2>1, <2>2 DEF HasKey, Up
<1>7. CASE channel'.orderly
  <2>1. channel.orderly /\ ~channel.isOpen /\ Up
    BY <1>2, <1>7 DEF Opens
  <2>2. OneAsks
    BY <2>1, OrderlyAsks
  <2>3. \A d \in Client : clients[d].state # "open"
    BY <2>1, <2>2 DEF OneAsks
  <2>4. \A d \in Client : ~Owed(d) /\ ~Undelivered(d)
    BY <2>2, <2>3 DEF OneAsks
  <2>5. channel.unread = <<>> /\ agentBuffer = 0
    BY <2>2, <2>4 DEF OneAsks
  <2>6. \A d \in Client : ~Owed(d)' /\ ~Undelivered(d)'
    BY <1>4, <2>4 DEF Owed, Undelivered, Size
  <2>7. \A d \in Client : clients'[d].state = "open" <=> d = c
    BY <1>2, <2>3 DEF Opens, Becomes
  <2>8. /\ channel'.client = c /\ channel'.isOpen
        /\ channel'.unread = <<>> /\ agentBuffer' = 0
    BY <1>2, <2>5 DEF Opens
  <2>9. OneAsks'
    BY <2>6, <2>7, <2>8 DEF OneAsks
  <2> QED
    BY <1>3, <1>5, <2>9 DEF ServiceInv
<1> QED
  BY <1>3, <1>5, <1>7 DEF ServiceInv

LEMMA CloseKeeps ==
    ASSUME ServiceInv, NEW c \in Client, CloseAgentChannel(c)
    PROVE  ServiceInv'
<1>1. Typed /\ HasKey
  BY Served
<1>2. Goes(c)
  BY <1>1, CloseSays
<1>3. Typed'
  BY <1>1, <1>2 DEF Typed, Goes, Becomes
<1>4. \A d \in Client : /\ clients'[d].asked = clients[d].asked
                        /\ clients'[d].arrived = clients[d].arrived
                        /\ clients'[d].given = clients[d].given
  BY <1>2 DEF Goes, Becomes
<1>5. HasKey'
  <2>1. \A d \in Client \ {c} : clients'[d] = clients[d]
    BY <1>2 DEF Goes, Becomes
  <2>2. /\ clients'[c].state = "gone" /\ Up
        /\ channel'.client = channel.client
        /\ channel'.isOpen => channel.isOpen
        /\ UNCHANGED <<login, agent>>
    BY <1>2 DEF Goes
  <2> QED
    BY <1>1, <2>1, <2>2 DEF HasKey, Up
<1>7. CASE channel'.orderly
  <2>1. channel.orderly /\ ~Owed(c) /\ Up /\ clients[c].state = "open"
    BY <1>2, <1>7 DEF Goes
  <2>2. OneAsks
    BY <2>1, OrderlyAsks
  <2>3. channel.isOpen /\ channel.client = c
    BY <2>1, <2>2 DEF OneAsks
  <2>4. \A d \in Client \ {c} : clients[d].state # "open"
    BY <2>2, <2>3 DEF OneAsks
  <2>5. \A d \in Client : ~Owed(d) /\ ~Undelivered(d)
    BY <2>1, <2>2, <2>4 DEF OneAsks
  <2>6. channel.unread = <<>> /\ agentBuffer = 0
    BY <2>2, <2>5 DEF OneAsks
  <2>7. \A d \in Client : ~Owed(d)' /\ ~Undelivered(d)'
    BY <1>4, <2>5 DEF Owed, Undelivered, Size
  <2>8. \A d \in Client : clients'[d].state # "open"
    BY <1>2, <2>4 DEF Goes, Becomes
  <2>9. /\ ~channel'.isOpen
        /\ channel'.unread = <<>> /\ agentBuffer' = 0
    BY <1>2, <2>3, <2>6 DEF Goes
  <2>10. OneAsks'
    BY <2>7, <2>8, <2>9 DEF OneAsks
  <2> QED
    BY <1>3, <1>5, <2>10 DEF ServiceInv
<1> QED
  BY <1>3, <1>5, <1>7 DEF ServiceInv

\* On an orderly channel, who asks is the one program that has it, and nothing
\* is on it.
LEMMA SendKeeps ==
    ASSUME ServiceInv, NEW c \in Client, NEW r \in Request, SendRequest(c, r)
    PROVE  ServiceInv'
<1>1. Typed /\ HasKey
  BY Served
<1>2. Asks(c, r)
  BY <1>1, SendSays
<1>3. \A d \in Client \ {c} : clients'[d] = clients[d]
  BY <1>2 DEF Asks, Becomes
<1>4. /\ channel' \in ChannelType /\ channel'.left = channel.left - 1
      /\ channel'.unread = channel.unread /\ channel'.isOpen = channel.isOpen
      /\ channel'.orderly = channel.orderly
      /\ channel'.client = channel.client
  <2>1. channel \in ChannelType /\ channel.left > 0
    BY <1>1, <1>2 DEF Typed, Asks
  <2>2. channel' = [channel EXCEPT !.left = channel.left - 1]
    BY <1>2 DEF Asks
  <2> QED
    BY <2>1, <2>2, SshAgentAssumption DEF ChannelType
<1>5. Typed'
  BY <1>1, <1>2, <1>4 DEF Typed, Asks, Becomes
<1>6. HasKey'
  BY <1>1, <1>2, <1>3, <1>4 DEF HasKey, Asks, Up
<1>7. CASE channel.orderly
  <2>1. OneAsks /\ clients[c].state = "open"
    BY <1>2, <1>7, OrderlyAsks DEF Asks
  <2>2. channel.isOpen /\ channel.client = c
    BY <2>1 DEF OneAsks
  <2>3. \A d \in Client \ {c} : clients[d].state # "open"
    BY <2>1, <2>2 DEF OneAsks
  <2>4. \A d \in Client : ~Owed(d) /\ ~Undelivered(d)
    BY <1>2, <2>1, <2>3 DEF OneAsks, Asks
  <2>5. channel.unread = <<>> /\ agentBuffer = 0
    BY <2>1, <2>4 DEF OneAsks
  <2>6. \A d \in Client \ {c} : ~Owed(d)' /\ ~Undelivered(d)'
    BY <1>3, <2>4 DEF Owed, Undelivered, Size
  <2>7. /\ clients'[c].asked = r /\ clients'[c].arrived = 0
        /\ clients'[c].given = NoReply /\ clients'[c].state = "open"
        /\ r # NoRequest /\ agentBuffer' = 0
    BY <1>2, <2>5 DEF Asks
  <2>8. Size(c)' \in 3..4
    BY BodySizes DEF Size, HeaderSize
  <2>9. Len(channel'.unread) = 0
    BY <1>4, <2>5
  <2>10. Pending(c)'
    <3> HIDE DEF Size
    <3> QED
      BY <2>7, <2>8, <2>9 DEF Pending, Holds
  <2>11. \A d \in Client : clients'[d].state = "open" <=> d = c
    BY <1>3, <2>3, <2>7
  <2>12. Owed(c)'
    BY <2>7 DEF Owed
  <2>13. OneAsks'
    BY <1>4, <2>2, <2>6, <2>10, <2>11, <2>12 DEF OneAsks
  <2> QED
    BY <1>5, <1>6, <2>13 DEF ServiceInv
<1> QED
  BY <1>4, <1>5, <1>6, <1>7 DEF ServiceInv

\* A cell that arrives on an orderly channel is the next one of the only
\* request under way.
LEMMA DeliverKeeps ==
    ASSUME ServiceInv, NEW c \in Client, Deliver(c)
    PROVE  ServiceInv'
<1> DEFINE i == clients[c].arrived + 1
           r == clients[c].asked
           cell == [from |-> c, req |-> r, at |-> i]
<1>1. Typed /\ HasKey
  BY Served
<1>2. Arrives(c)
  BY <1>1, DeliverSays
<1>3. \A d \in Client \ {c} : clients'[d] = clients[d]
  BY <1>2 DEF Arrives, Becomes
<1>4. /\ clients[c].arrived \in Nat /\ r \in Asked /\ Size(c) \in 3..4
      /\ i <= Size(c) /\ i \in Nat
  BY <1>1, <1>2, BodySizes
     DEF Typed, ClientType, Arrives, Asked, Size, HeaderSize
<1>5. cell \in Cell
  BY <1>4 DEF Cell
<1>6. /\ clients'[c].asked = r /\ clients'[c].arrived = i
      /\ clients'[c].given = clients[c].given
      /\ clients[c].state = "open" /\ clients'[c].state = "open"
      /\ UNCHANGED <<login, agent, agentBuffer>> /\ Up /\ r # NoRequest
      /\ scheduled' \in BOOLEAN
  BY <1>2 DEF Arrives
<1>7. channel' = [channel EXCEPT !.unread = Append(@, cell)]
      /\ channel.client = c
  BY <1>2 DEF Arrives
<1>8. channel \in ChannelType /\ channel.unread \in Seq(Cell)
      /\ Len(channel.unread) \in Nat
  BY <1>1 DEF Typed, ChannelType
<1> HIDE DEF cell
<1>9. /\ channel' \in ChannelType /\ channel'.client = channel.client
      /\ channel'.isOpen = channel.isOpen /\ channel'.left = channel.left
      /\ channel'.orderly = channel.orderly
      /\ channel'.unread = Append(channel.unread, cell)
  <2> DEFINE longer == Append(channel.unread, cell)
  <2>1. longer \in Seq(Cell)
    BY <1>5, <1>8
  <2>2. channel' = [channel EXCEPT !.unread = longer]
    BY <1>7
  <2> HIDE DEF longer
  <2>3. /\ channel' \in ChannelType /\ channel'.client = channel.client
        /\ channel'.isOpen = channel.isOpen /\ channel'.left = channel.left
        /\ channel'.orderly = channel.orderly /\ channel'.unread = longer
    BY <1>8, <2>1, <2>2 DEF ChannelType
  <2> QED
    BY <2>3 DEF longer
<1>11. Typed'
  BY <1>1, <1>2, <1>6, <1>9 DEF Typed, Arrives, Becomes
<1>12. HasKey'
  BY <1>1, <1>3, <1>6, <1>9 DEF HasKey, Up
<1>13. Undelivered(c)
  BY <1>4, <1>6 DEF Undelivered
<1>15. Size(c)' = Size(c)
  BY <1>6 DEF Size
<1>17. CASE channel'.orderly
  <2>1. OneAsks
    BY <1>6, <1>9, <1>17, OrderlyAsks
  <2>2. channel.isOpen /\ channel.client = c
    BY <1>6, <2>1 DEF OneAsks
  <2>3. Owed(c) /\ Pending(c)
    BY <1>13, <2>1 DEF OneAsks
  <2>4. \A d \in Client \ {c} : clients[d].state # "open" /\ ~Owed(d)
    BY <2>1, <2>2 DEF OneAsks
  <2>5. Owed(c)'
    BY <1>6, <2>3 DEF Owed
  <2>6. \A d \in Client \ {c} : ~Owed(d)' /\ ~Undelivered(d)'
    <3>1. \A d \in Client \ {c} : ~Undelivered(d)
      BY <2>1, <2>4 DEF OneAsks
    <3> QED
      BY <1>3, <2>4, <3>1 DEF Owed, Undelivered, Size
  <2> DEFINE k == IF agentBuffer = 0 THEN 0 ELSE HeaderSize
  <2>7. k \in Nat
    BY DEF HeaderSize
  <2>8. Holds(c, k)'
    <3> HIDE DEF k
    <3>1. Holds(c, k)
      BY <2>3 DEF Pending, k
    <3>2. channel'.unread = Append(channel.unread, cell)
      BY <1>9
    <3>3. Len(channel'.unread) = Len(channel.unread) + 1
      BY <1>5, <1>8, <3>2
    <3>4. Len(channel.unread) = clients[c].arrived - k
      BY <3>1 DEF Holds
    <3>5. Len(channel'.unread) = clients'[c].arrived - k
      BY <1>4, <1>6, <2>7, <3>3, <3>4
    <3>6. ASSUME NEW j \in 1..Len(channel'.unread)
          PROVE  channel'.unread[j] = [from |-> c, req |-> r, at |-> j + k]
      <4>1. CASE j <= Len(channel.unread)
        <5>1. channel'.unread[j] = channel.unread[j]
          BY <1>5, <1>8, <3>2, <3>6, <4>1
        <5>2. j \in 1..Len(channel.unread)
          BY <1>8, <3>3, <3>6, <4>1
        <5> QED
          BY <3>1, <5>1, <5>2 DEF Holds
      <4>2. CASE j = Len(channel.unread) + 1
        <5>1. channel'.unread[j] = cell
          BY <1>5, <1>8, <3>2, <4>2
        <5>2. j + k = i
          BY <1>4, <2>7, <3>4, <4>2
        <5> QED
          BY <5>1, <5>2 DEF cell
      <4> QED
        BY <1>8, <3>3, <3>6, <4>1, <4>2
    <3>7. k' = k
      BY <1>6 DEF k
    <3> QED
      BY <1>6, <3>5, <3>6, <3>7 DEF Holds
  <2>9. Pending(c)'
    <3>1. agentBuffer' \in {0, BodySize(clients'[c].asked)}
      BY <1>6, <2>3 DEF Pending
    <3>2. clients'[c].arrived <= Size(c)'
      BY <1>4, <1>6, <1>15
    <3>3. Holds(c, IF agentBuffer = 0 THEN 0 ELSE HeaderSize)'
      BY <1>6, <2>8 DEF Holds
    <3> QED
      BY <3>1, <3>2, <3>3 DEF Pending
  <2>10. \A d \in Client : clients'[d].state = "open" <=> d = c
    BY <1>3, <1>6, <2>4
  <2>11. OneAsks'
    BY <1>9, <2>2, <2>5, <2>6, <2>9, <2>10 DEF OneAsks
  <2> QED
    BY <1>11, <1>12, <2>11 DEF ServiceInv
<1> QED
  BY <1>11, <1>12, <1>17 DEF ServiceInv

\* The login and the end touch neither the channel nor the programs.
LEMMA Undisturbed ==
    ASSUME ServiceInv, Typed', HasKey', login.phase # "broken",
           UNCHANGED <<channel, agentBuffer, clients>>
    PROVE  ServiceInv'
<1>1. channel.orderly => OneAsks
  BY DEF ServiceInv
<1>2. channel'.orderly => OneAsks'
  BY <1>1 DEF OneAsks, Owed, Undelivered, Size, Pending, Holds
<1> QED
  BY <1>2 DEF ServiceInv

LEMMA LoginKeeps ==
    ASSUME ServiceInv, KeyInv, LoginStep
    PROVE  ServiceInv' /\ LoginTypes
<1>1. Typed /\ HasKey
  BY Served
<1>2. LoginTypes
  BY <1>1, LoginKeepsTypes
<1>3. /\ UNCHANGED <<channel, agentBuffer, clients, scheduled>>
      /\ login.phase # "broken"
  BY DEF LoginStep, NoAgent, DetectFails, ImportOpenSsh, LoadPutty,
         KeyRefused, Authenticated
<1>4. Typed'
  BY <1>1, <1>2, <1>3 DEF Typed, LoginTypes
<1>5. HasKey'
  BY <1>1, <1>2, <1>3 DEF HasKey, LoginTypes, Up
<1> QED
  BY <1>2, <1>3, <1>4, <1>5, Undisturbed

LEMMA EndKeeps ==
    ASSUME ServiceInv, Ends \/ NoChannel
    PROVE  /\ ServiceInv' /\ login'.phase \in {"ended", "closed"}
           /\ login.phase = "serving"
           /\ UNCHANGED <<agent, channel, agentBuffer, clients>>
<1>1. Typed /\ HasKey
  BY Served
<1>2. /\ UNCHANGED <<agent, channel, agentBuffer, clients>>
      /\ login.phase = "serving"
  BY DEF Ends, NoChannel, Up
<1>3. /\ login' \in LoginType /\ login'.forwarding = login.forwarding
      /\ login'.phase \in {"ended", "closed"}
  <2>1. CASE Ends
    <3>1. "ended" \in Phases /\ login \in LoginType
      BY <1>1 DEF Phases, Typed
    <3>2. login' = [login EXCEPT !.phase = "ended"]
      BY <2>1 DEF Ends
    <3> QED
      BY <3>1, <3>2, LoginField, Zenon
  <2>2. CASE NoChannel
    <3>1. "OUT_OF_MEMORY_ERROR" \in Events /\ login \in LoginType
      BY <1>1 DEF Events, Typed
    <3>2. Closed("OUT_OF_MEMORY_ERROR")
      BY <2>2 DEF NoChannel
    <3> QED
      BY <3>1, <3>2, ClosedTyped
  <2> QED
    BY <2>1, <2>2
<1>4. Typed'
  <2>1. scheduled' \in BOOLEAN
    BY <1>1 DEF Ends, NoChannel, Typed
  <2> QED
    BY <1>1, <1>2, <1>3, <2>1 DEF Typed
<1>5. HasKey'
  BY <1>1, <1>2, <1>3 DEF HasKey, Up
<1> QED
  BY <1>2, <1>3, <1>4, <1>5, Undisturbed

-----------------------------------------------------------------------------
(* The reader of an orderly channel.                                       *)

\* The body of a request is taken for that request.
LEMMA BodyIsTaken ==
    ASSUME NEW c \in Client, NEW r \in Asked, NEW cells \in Seq(Cell),
           Len(cells) = BodySize(r),
           \A i \in 1..Len(cells) :
               cells[i] = [from |-> c, req |-> r, at |-> i + HeaderSize]
    PROVE  RequestsIn(cells) = {r}
<1> DEFINE n == BodySize(r)
           all == Cells(c, r)
           body == SubSeq(all, HeaderSize + 1, HeaderSize + n)
<1>1. n \in 1..2 /\ HeaderSize = 2
  BY BodySizes DEF HeaderSize
<1>2. cells[1].at = HeaderSize + 1 /\ cells[1].from = c /\ cells[1].req = r
  <2>1. cells[1] = [from |-> c, req |-> r, at |-> 1 + HeaderSize]
    BY <1>1
  <2> QED
    BY <1>1, <2>1
<1> HIDE DEF n
<1>3. all \in Seq(Cell) /\ Len(all) = n + 2
      /\ \A i \in 1..(n + 2) : all[i] = [from |-> c, req |-> r, at |-> i]
  BY <1>1 DEF Cells, Cell, n
<1> HIDE DEF all
<1>4. body \in Seq(Cell) /\ Len(body) = n
      /\ \A i \in 1..n : body[i] = all[i + 2]
  BY <1>1, <1>3
<1>5. \A i \in 1..n : body[i] = [from |-> c, req |-> r, at |-> i + 2]
  BY <1>1, <1>3, <1>4
<1> HIDE DEF body
<1>6. cells = body
  BY <1>1, <1>4, <1>5 DEF n
<1>7. cells = SubSeq(Cells(cells[1].from, cells[1].req), HeaderSize + 1,
                     HeaderSize + BodySize(cells[1].req))
  BY <1>2, <1>6, Zenon DEF body, all, n
<1>8. RequestsIn(cells) = {q \in Asked : /\ q = r
                                         /\ q.type = r.type
                                         /\ cells[1].at = 1 => q.type = "unknown"}
  BY <1>2, <1>7 DEF RequestsIn, Asked
<1>9. cells[1].at # 1
  BY <1>1, <1>2
<1> QED
  BY <1>8, <1>9

\* A sequence without its first two elements.
LEMMA WithoutTwo ==
    ASSUME NEW S, NEW s \in Seq(S), Len(s) >= 2
    PROVE  /\ Len(SubSeq(s, 3, Len(s))) = Len(s) - 2
           /\ \A i \in 1..(Len(s) - 2) : SubSeq(s, 3, Len(s))[i] = s[i + 2]
<1>1. CASE Len(s) = 2
  BY <1>1
<1>2. CASE Len(s) > 2
  BY <1>2
<1>3. Len(s) \in Nat /\ (\A n \in Nat : n >= 2 => n = 2 \/ n > 2)
  OBVIOUS
<1> QED
  BY <1>1, <1>2, <1>3, Zenon

\* What the reader finds on the channel of the program that asks.
Behind(c) ==
    /\ Lengths = {BodySize(clients[c].asked)}
    /\ Len(AfterHeader) = clients[c].arrived - HeaderSize
    /\ \A i \in 1..Len(AfterHeader) : AfterHeader[i] =
           [from |-> c, req |-> clients[c].asked, at |-> i + HeaderSize]
LEMMA OrderlyRead ==
    ASSUME Typed, OneAsks, NEW c \in Client, Owed(c)
    PROVE  \/ /\ agentBuffer = 0 /\ Lengths = {0}
              /\ AfterHeader = channel.unread
           \/ Behind(c)
<1> DEFINE r == clients[c].asked
           u == channel.unread
<1>1. /\ Pending(c) /\ u \in Seq(Cell) /\ Len(u) \in Nat
      /\ clients[c].arrived \in Nat
  BY DEF OneAsks, Typed, ChannelType, ClientType
<1>2. BodySize(r) \in 1..2 /\ HeaderSize = 2
  BY BodySizes DEF HeaderSize
<1>3. CASE HeaderCells = 0
  <2>1. Lengths = {agentBuffer} /\ AfterHeader = SubSeq(u, 1, Len(u))
    BY <1>3 DEF Lengths, AfterHeader
  <2>2. AfterHeader = u
    BY <1>1, <2>1
  <2>3. CASE agentBuffer = 0
    BY <2>1, <2>2, <2>3
  <2>4. CASE agentBuffer # 0
    <3>1. agentBuffer = BodySize(r) /\ Holds(c, HeaderSize)
      BY <1>1, <2>4 DEF Pending
    <3> QED
      BY <2>1, <2>2, <3>1 DEF Behind, Holds
  <2> QED
    BY <2>3, <2>4
<1>4. CASE HeaderCells # 0
  <2>1. agentBuffer = 0 /\ Len(u) >= 2 /\ HeaderCells = 2
    BY <1>2, <1>4 DEF HeaderCells
  <2>2. Holds(c, 0)
    BY <1>1, <2>1 DEF Pending
  <2>3. /\ Len(u) = clients[c].arrived
        /\ \A i \in 1..Len(u) : u[i] = [from |-> c, req |-> r, at |-> i]
    BY <1>1, <2>2 DEF Holds
  <2>4. Lengths = {BodySize(r)}
    <3>1. /\ u[1] = [from |-> c, req |-> r, at |-> 1]
          /\ u[2] = [from |-> c, req |-> r, at |-> 2]
      BY <2>1, <2>3
    <3>2. /\ u[1].at = 1 /\ u[2].at = 2 /\ u[1].from = u[2].from
          /\ u[1].req = r
      BY <3>1
    <3> QED
      BY <1>4, <3>2 DEF Lengths, LengthsIn, Joined
  <2>5. AfterHeader = SubSeq(u, 3, Len(u))
    BY <2>1 DEF AfterHeader
  <2> HIDE DEF u
  <2>6. /\ Len(AfterHeader) = Len(u) - 2
        /\ \A i \in 1..(Len(u) - 2) : AfterHeader[i] = u[i + 2]
    BY <1>1, <2>1, <2>5, WithoutTwo
  <2>7. \A i \in 1..(Len(u) - 2) : AfterHeader[i] =
            [from |-> c, req |-> r, at |-> i + 2]
    <3> SUFFICES ASSUME NEW i \in 1..(Len(u) - 2)
                 PROVE  AfterHeader[i] = [from |-> c, req |-> r, at |-> i + 2]
      OBVIOUS
    <3>1. i + 2 \in 1..Len(u)
      BY <1>1
    <3> QED
      BY <2>3, <2>6, <3>1
  <2> QED
    BY <1>2, <2>3, <2>4, <2>6, <2>7 DEF Behind
<1> QED
  BY <1>3, <1>4

\* Without a program that waits there is nothing to read.
LEMMA NothingToRead ==
    ASSUME Typed, OneAsks, \A c \in Client : ~Owed(c)
    PROVE  Lengths = {0} /\ AfterHeader = channel.unread
<1>1. channel.unread = <<>> /\ agentBuffer = 0
  BY DEF OneAsks
<1>2. HeaderCells = 0
  BY <1>1 DEF HeaderCells, HeaderSize
<1> QED
  BY <1>1, <1>2 DEF Lengths, AfterHeader

\* A request that is not complete waits as it is, without its header.
LEMMA PartKeepsOrder ==
    ASSUME Typed, OneAsks, ReadPart
    PROVE  OneAsks'
<1>1. /\ channel' = [channel EXCEPT !.unread = AfterHeader]
      /\ UNCHANGED clients
      /\ channel \in ChannelType
  BY DEF ReadPart, Typed
<1>2. /\ channel'.client = channel.client /\ channel'.isOpen = channel.isOpen
      /\ channel'.unread = AfterHeader
  BY <1>1 DEF ChannelType
<1>3. CASE Lengths = {0} /\ AfterHeader = channel.unread /\ agentBuffer = 0
  <2>1. agentBuffer' = agentBuffer /\ channel'.unread = channel.unread
    BY <1>2, <1>3 DEF ReadPart
  <2> QED
    BY <1>1, <1>2, <2>1
       DEF OneAsks, Owed, Undelivered, Size, Pending, Holds
<1>4. ASSUME NEW c \in Client, Owed(c), Behind(c)
      PROVE  OneAsks'
  <2>1. BodySize(clients[c].asked) \in 1..2
    BY BodySizes
  <2>2. agentBuffer' = BodySize(clients[c].asked) /\ agentBuffer' # 0
    BY <1>4, <2>1 DEF Behind, ReadPart
  <2>3. Pending(c)'
    <3>1. clients[c].arrived <= Size(c)
      BY <1>4 DEF OneAsks, Pending
    <3>2. Holds(c, HeaderSize)'
      BY <1>1, <1>2, <1>4 DEF Behind, Holds
    <3>3. clients'[c].arrived <= Size(c)'
      BY <1>1, <3>1 DEF Size
    <3> QED
      BY <1>1, <2>2, <3>2, <3>3 DEF Pending, Holds
  <2>4. \A d \in Client : Owed(d) => d = c
    BY <1>4 DEF OneAsks
  <2>5. \A d \in Client : /\ Owed(d)' <=> Owed(d)
                          /\ Undelivered(d)' <=> Undelivered(d)
    BY <1>1 DEF Owed, Undelivered, Size
  <2> QED
    BY <1>1, <1>2, <1>4, <2>3, <2>4, <2>5 DEF OneAsks
<1>5. CASE \A c \in Client : ~Owed(c)
  <2>1. agentBuffer = 0
    BY <1>5 DEF OneAsks
  <2> QED
    BY <1>3, <1>5, <2>1, NothingToRead
<1> QED
  BY <1>3, <1>4, <1>5, OrderlyRead

\* A request that is complete is the one its program sent, all of it.
LEMMA WholeRequest ==
    ASSUME Typed, OneAsks, NEW n, NEW q, NEW signs, Read(n, q, signs)
    PROVE  LET c == channel.client
               r == clients[c].asked
           IN  /\ c \in Client /\ Owed(c) /\ r \in Asked /\ q = r
               /\ \A d \in Client \ {c} : ~Owed(d)
               /\ clients[c].arrived = Size(c)
               /\ channel'.unread = <<>>
<1> DEFINE c == channel.client
           r == clients[c].asked
<1>1. /\ n \in Lengths /\ n \in Nat \ {0} /\ n <= Len(AfterHeader)
      /\ channel.isOpen /\ q \in RequestsIn(SubSeq(AfterHeader, 1, n))
      /\ channel' = [channel EXCEPT !.unread =
                        SubSeq(AfterHeader, n + 1, Len(AfterHeader))]
  BY DEF Read
<1>2. n # 0 /\ n \in Nat
  BY <1>1
<1>3. c \in Client
  BY <1>1 DEF OneAsks
<1>4. \A d \in Client \ {c} : ~Owed(d)
  BY <1>3 DEF OneAsks
<1>5. Owed(c)
  BY <1>1, <1>2, <1>4, NothingToRead
<1>6. Behind(c)
  BY <1>1, <1>2, <1>3, <1>5, OrderlyRead
<1>7. n = BodySize(r)
  BY <1>1, <1>6 DEF Behind
<1>8. r \in Asked /\ clients[c].arrived \in Nat
  BY <1>3, <1>5 DEF Typed, ClientType, Owed, Asked
<1>9. clients[c].arrived <= Size(c)
  BY <1>3, <1>5 DEF OneAsks, Pending
<1>10. clients[c].arrived = Size(c) /\ Len(AfterHeader) = n
  BY <1>1, <1>2, <1>6, <1>7, <1>8, <1>9 DEF Behind, Size, HeaderSize
<1>11. AfterHeader \in Seq(Cell)
  BY ReaderReads
<1>12. q = r
  <2> HIDE DEF AfterHeader
  <2>1. SubSeq(AfterHeader, 1, n) = AfterHeader
    BY <1>2, <1>10, <1>11
  <2>2. RequestsIn(AfterHeader) = {r}
    BY <1>3, <1>6, <1>7, <1>8, <1>10, <1>11, BodyIsTaken DEF Behind
  <2> QED
    BY <1>1, <2>1, <2>2
<1>13. channel'.unread = <<>>
  <2> DEFINE rest == SubSeq(AfterHeader, n + 1, Len(AfterHeader))
  <2>1. rest = <<>>
    <3> HIDE DEF AfterHeader
    <3> QED
      BY <1>2, <1>10, <1>11
  <2>2. channel' = [channel EXCEPT !.unread = rest] /\ channel \in ChannelType
    BY <1>1 DEF Typed
  <2> HIDE DEF rest
  <2> QED
    BY <2>1, <2>2 DEF ChannelType
<1> QED
  BY <1>3, <1>4, <1>5, <1>8, <1>10, <1>12, <1>13

\* The program is answered, and nothing is left of its request.
LEMMA AnswerKeepsOrder ==
    ASSUME Typed, OneAsks, NEW n, NEW q, NEW signs, Read(n, q, signs),
           ReplyFromRequest(agent, q, signs)[1] # NoReply
    PROVE  OneAsks'
<1> DEFINE c == channel.client
           r == clients[c].asked
           answer == ReplyFromRequest(agent, q, signs)[1]
<1>1. /\ c \in Client /\ Owed(c) /\ clients[c].arrived = Size(c)
      /\ \A d \in Client \ {c} : ~Owed(d)
      /\ channel'.unread = <<>>
  BY WholeRequest
<1>2. /\ clients' = [clients EXCEPT ![c].given = answer] /\ agentBuffer' = 0
      /\ answer # NoReply
      /\ channel' = [channel EXCEPT !.unread =
                        SubSeq(AfterHeader, n + 1, Len(AfterHeader))]
  BY DEF Read
<1>3. channel'.client = c /\ channel'.isOpen = channel.isOpen
  <2>1. channel \in ChannelType
    BY DEF Typed
  <2> QED
    BY <1>2, <2>1 DEF ChannelType
<1> HIDE DEF answer
<1>4. /\ clients'[c].given = answer /\ clients'[c].asked = clients[c].asked
      /\ clients'[c].arrived = clients[c].arrived
      /\ clients'[c].state = clients[c].state
      /\ \A d \in Client \ {c} : clients'[d] = clients[d]
  <2>1. clients \in [Client -> ClientType] /\ clients[c] \in ClientType
    BY <1>1 DEF Typed
  <2> HIDE DEF c
  <2>2. clients'[c] = [clients[c] EXCEPT !.given = answer]
        /\ \A d \in Client \ {c} : clients'[d] = clients[d]
    BY <1>1, <1>2, <2>1
  <2> QED
    BY <2>1, <2>2 DEF ClientType
<1>5. \A d \in Client : ~Owed(d)'
  BY <1>1, <1>2, <1>4 DEF Owed
<1>6. ~Undelivered(c)'
  <2>1. Size(c) \in Nat
    BY BodySizes DEF Size, HeaderSize
  <2>2. Size(c)' = Size(c)
    BY <1>3, <1>4 DEF Size
  <2>3. ~(clients'[c].arrived < Size(c)')
    BY <1>1, <1>4, <2>1, <2>2
  <2> QED
    BY <1>3, <2>3 DEF Undelivered, Size
<1>7. \A d \in Client \ {c} : ~Undelivered(d)'
  BY <1>1, <1>4 DEF OneAsks, Undelivered, Size
<1>8. \A d \in Client : clients'[d].state = clients[d].state
  BY <1>4
<1>9. \A d \in Client : clients'[d].state = "open" <=>
                            (channel'.isOpen /\ d = channel'.client)
  BY <1>3, <1>8 DEF OneAsks
<1>10. agentBuffer' = 0
  BY <1>2
<1>11. \A d \in Client : ~Undelivered(d)'
  BY <1>3, <1>6, <1>7
<1> HIDE DEF c
<1> QED
  BY <1>1, <1>3, <1>5, <1>9, <1>10, <1>11 DEF OneAsks

LEMMA ReaderServes ==
    ASSUME ServiceInv, Reader
    PROVE  ServiceInv'
<1>1. Typed /\ HasKey
  BY Served
<1>2. CASE ReadRaises
  BY <1>2, EndsEnd, EndKeeps
<1> SUFFICES ASSUME ReadClosed \/ ReadPart \/ ReadRequest
             PROVE  ServiceInv'
  BY <1>2 DEF Reader
<1>6. Typed' /\ HasKey'
  BY <1>1, ReaderKeeps
<1>3. CASE ReadClosed
  <2>1. UNCHANGED <<login, channel, agentBuffer, clients>>
    BY <1>3 DEF ReadClosed
  <2>2. channel'.orderly /\ login'.phase # "broken" => OneAsks'
    BY <2>1 DEF ServiceInv, OneAsks, Owed, Undelivered, Size, Pending, Holds
  <2> QED
    BY <1>6, <2>2 DEF ServiceInv
<1>4. CASE ReadPart
  <2>1. /\ UNCHANGED login
        /\ channel' = [channel EXCEPT !.unread = AfterHeader]
    BY <1>4 DEF ReadPart
  <2>2. channel \in ChannelType
    BY <1>1 DEF Typed
  <2>3. channel'.orderly = channel.orderly
    BY <2>1, <2>2 DEF ChannelType
  <2>4. channel'.orderly /\ login'.phase # "broken" => OneAsks'
    BY <1>1, <1>4, <2>1, <2>3, PartKeepsOrder DEF ServiceInv
  <2> QED
    BY <1>6, <2>4 DEF ServiceInv
<1>5. CASE ReadRequest
  <2>1. PICK n, r, signs : Read(n, r, signs)
    BY <1>1, <1>5, RequestIsRead
  <2>2. channel' = [channel EXCEPT !.unread =
                       SubSeq(AfterHeader, n + 1, Len(AfterHeader))]
        /\ login.phase = "serving" /\ channel \in ChannelType
    BY <1>1, <2>1 DEF Read, Typed
  <2>3. channel'.orderly = channel.orderly
    BY <2>2 DEF ChannelType
  <2>4. CASE ReplyFromRequest(agent, r, signs)[1] = NoReply
    <3>1. login' = [login EXCEPT !.phase = "broken",
                                 !.event = "OUT_OF_MEMORY_ERROR"]
      BY <2>1, <2>4 DEF Read
    <3>2. login'.phase = "broken"
      BY <1>1, <3>1 DEF Typed, LoginType
    <3> QED
      BY <1>6, <3>2 DEF ServiceInv
  <2>5. CASE ReplyFromRequest(agent, r, signs)[1] # NoReply
    <3>1. channel.orderly => OneAsks
      BY <2>2 DEF ServiceInv
    <3>2. channel'.orderly => OneAsks'
      BY <1>1, <2>1, <2>3, <2>5, <3>1, AnswerKeepsOrder
    <3> QED
      BY <1>6, <3>2 DEF ServiceInv
  <2> QED
    BY <2>4, <2>5
<1> QED
  BY <1>3, <1>4, <1>5

-----------------------------------------------------------------------------
(* The invariant.                                                          *)

\* Nothing has been asked and nothing is on the channel.
LEMMA ServiceInit == Init => ServiceInv
<1> SUFFICES ASSUME Init PROVE ServiceInv
  OBVIOUS
<1>1. login \in LoginType
  <2> DEFINE failed == Outcome("FAIL")
  <2>1. failed \in Outcomes
    BY DEF Outcomes
  <2>2. login \in [phase : {"detect"}, file : KeyFiles, forwarding : BOOLEAN,
                   outcome : {failed}, keyType : {"none"}, event : {"none"}]
    BY DEF Init
  <2> HIDE DEF failed
  <2> QED
    BY <2>1, <2>2 DEF LoginType, Phases, Events
<1>2. agent \in ContextType
  BY DEF Init, ContextType
<1>3. /\ channel = [client |-> Nobody, isOpen |-> FALSE, unread |-> <<>>,
                    orderly |-> TRUE, left |-> MaxRequests]
      /\ agentBuffer = 0 /\ scheduled = FALSE
      /\ clients = [c \in Client |-> [state |-> "new", asked |-> NoRequest,
                       arrived |-> 0, given |-> NoReply]]
      /\ login.phase = "detect"
  BY DEF Init
<1>4. channel \in ChannelType
  BY <1>3, SshAgentAssumption DEF ChannelType
<1>5. NoRequest \in Request /\ NoReply \in Replies
  BY DEF Request, Replies
<1>6. clients \in [Client -> ClientType]
  BY <1>3, <1>5 DEF ClientType
<1>7. Typed
  <2>1. agentBuffer \in BufferLengths
    BY <1>3 DEF BufferLengths
  <2>2. scheduled \in BOOLEAN
    BY <1>3
  <2> QED
    BY <1>1, <1>2, <1>4, <1>6, <2>1, <2>2, Zenon DEF Typed
<1>8. \A c \in Client : clients[c].state = "new" /\ clients[c].asked = NoRequest
  BY <1>3
<1>9. HasKey
  BY <1>3, <1>8 DEF HasKey, Up
<1>10. \A c \in Client : ~Owed(c) /\ ~Undelivered(c)
  BY <1>8 DEF Owed, Undelivered
<1>11. Len(<<>>) = 0 /\ channel.unread = <<>>
  BY <1>3
<1>12. OneAsks
  BY <1>3, <1>8, <1>10, <1>11 DEF OneAsks
<1> QED
  BY <1>7, <1>9, <1>12 DEF ServiceInv

LEMMA ServiceNext == ServiceInv /\ KeyInv /\ [Next]_vars => ServiceInv'
<1> SUFFICES ASSUME ServiceInv, KeyInv, [Next]_vars PROVE ServiceInv'
  OBVIOUS
<1>1. CASE UNCHANGED vars
  <2>1. Typed' /\ HasKey'
    BY <1>1, Served DEF vars, Typed, HasKey, Up
  <2>2. channel'.orderly /\ login'.phase # "broken" => OneAsks'
    BY <1>1 DEF vars, ServiceInv, OneAsks, Owed, Undelivered, Size, Pending,
                Holds
  <2> QED
    BY <2>1, <2>2 DEF ServiceInv
<1>2. CASE LoginStep \/ Reader \/ TerminalEnds \/ NoChannel
  BY <1>2, LoginKeeps, ReaderServes, EndsEnd, EndKeeps
<1>3. CASE \E c \in Client :
              \/ OpenAgentChannel(c) \/ Deliver(c) \/ CloseAgentChannel(c)
              \/ \E r \in Request : SendRequest(c, r)
  BY <1>3, OpenKeeps, DeliverKeeps, CloseKeeps, SendKeeps
<1> QED
  BY <1>1, <1>2, <1>3 DEF Next

\* However requests are cut and readers and programs interleave, what is
\* unread on an orderly channel is what arrived of the one request that waits
\* for its answer (SshConnection.m:890).
THEOREM ServiceInvariant == Spec => [](KeyInv /\ ServiceInv)
BY KeyInit, KeyNext, ServiceInit, ServiceNext, PTL DEF Spec

\* The types.
THEOREM AgentTypes == Spec => []TypeOK
<1>1. KeyInv /\ ServiceInv => TypeOK
  <2> SUFFICES ASSUME KeyInv, ServiceInv PROVE TypeOK
    OBVIOUS
  <2>1. Typed
    BY Served
  <2>2. /\ login.phase \in Phases /\ login.outcome.code \in KeyLoadReturns
        /\ login.keyType \in KeyTypes \cup {"none"}
        /\ PuttyKeyDetectType(login.file) \in KeyTypeReturns
    BY <2>1, OutcomeCodes, FilesHaveType DEF Typed, LoginType
  <2>3. /\ agent.keys \in Seq(KeyTypes) /\ agent.isLocked \in BOOLEAN
        /\ agent.lockPassword \in Passphrase \cup {<<>>}
    BY <2>1 DEF Typed, ContextType
  <2>4. agent.inHand \in 0..1 /\ agent.freed \in 0..1
    BY DEF KeyInv, Owner, NowhereYet, InHand, GivenAway
  <2>5. /\ channel.client \in Client \cup {Nobody}
        /\ channel.isOpen \in BOOLEAN /\ channel.orderly \in BOOLEAN
        /\ channel.unread \in Seq(Cell)
        /\ agentBuffer \in 0..2 \cup JoinedLengths /\ scheduled \in BOOLEAN
    BY <2>1 DEF Typed, ChannelType, BufferLengths
  <2>6. \A i \in DOMAIN channel.unread :
            channel.unread[i].req \in Request \ {NoRequest}
    <3>1. \A x \in Cell : x.req \in Request \ {NoRequest}
      BY DEF Cell, Asked
    <3>2. \A i \in DOMAIN channel.unread : channel.unread[i] \in Cell
      BY <2>5
    <3> QED
      BY <3>1, <3>2
  <2>7. \A c \in Client : clients[c].asked \in Request
    BY <2>1 DEF Typed, ClientType
  <2> QED
    BY <2>2, <2>3, <2>4, <2>5, <2>6, <2>7 DEF TypeOK, Phases
<1> QED
  BY <1>1, ServiceInvariant, PTL

\* What is unread, said with positions, is that part of the request.
LEMMA HoldsFrame ==
    ASSUME Typed, NEW c \in Client, Owed(c), Pending(c)
    PROVE  Frame(c)
<1> DEFINE r == clients[c].asked
           u == channel.unread
           n == clients[c].arrived
           k == IF agentBuffer = 0 THEN 0 ELSE HeaderSize
           all == Cells(c, r)
           part == SubSeq(all, k + 1, n)
<1>1. /\ agentBuffer \in {0, BodySize(r)} /\ Holds(c, k) /\ n <= Size(c)
  BY DEF Pending
<1>2. n \in Nat /\ r \in Asked /\ u \in Seq(Cell)
  BY DEF Typed, ClientType, ChannelType, Owed, Asked
<1>3. Size(c) \in 3..4 /\ k \in {0, 2}
  BY BodySizes DEF Size, HeaderSize
<1>4. all \in Seq(Cell) /\ Len(all) = Size(c)
      /\ \A i \in 1..Size(c) : all[i] = [from |-> c, req |-> r, at |-> i]
  <2>1. all = [i \in 1..Size(c) |-> [from |-> c, req |-> r, at |-> i]]
    BY DEF Cells, Size
  <2>2. \A i \in 1..Size(c) : [from |-> c, req |-> r, at |-> i] \in Cell
    BY <1>2, <1>3 DEF Cell
  <2> HIDE DEF all, r
  <2> QED
    BY <1>3, <2>1, <2>2
<1>5. Len(u) = n - k /\ Len(u) \in Nat
      /\ \A i \in 1..Len(u) : u[i] = [from |-> c, req |-> r, at |-> i + k]
  <2>1. Len(u) = n - k
        /\ \A i \in 1..Len(u) : u[i] = [from |-> c, req |-> r, at |-> i + k]
    BY <1>1, Zenon DEF Holds
  <2>2. Len(u) \in Nat
    BY <1>2
  <2> QED
    BY <2>1, <2>2, Zenon
<1> HIDE DEF all, k, u, n, r
<1>6. k <= n
  BY <1>2, <1>3, <1>5
<1>7. part \in Seq(Cell) /\ Len(part) = n - k
      /\ \A i \in 1..(n - k) : part[i] = all[i + k]
  BY <1>1, <1>2, <1>3, <1>4, <1>6
<1> HIDE DEF part
<1>8. \A i \in 1..(n - k) : part[i] = u[i]
  <2>1. SUFFICES ASSUME NEW i \in 1..(n - k) PROVE part[i] = u[i]
    OBVIOUS
  <2>2. n \in Nat /\ n <= Size(c) /\ k \in Nat /\ Size(c) \in Nat
    BY <1>1, <1>2, <1>3
  <2>3. i + k \in 1..Size(c)
    BY <2>1, <2>2
  <2>4. part[i] = [from |-> c, req |-> r, at |-> i + k]
    BY <1>4, <1>7, <2>1, <2>3, Zenon
  <2>5. u[i] = [from |-> c, req |-> r, at |-> i + k]
    <3>1. i \in 1..Len(u)
      BY <1>5, <2>1, Zenon
    <3> QED
      BY <1>5, <3>1, Zenon
  <2> QED
    BY <2>4, <2>5, Zenon
<1>9. u = part
  BY <1>2, <1>5, <1>7, <1>8
<1> QED
  BY <1>1, <1>9 DEF Frame, part, u, k, n, r, all

\* However requests are cut and the programs and the reader interleave, the
\* reader does not lose the frame of a request, as long as the programs come
\* one after the other and leave none behind (SshConnection.m:1218).
THEOREM FramingKept == Spec => []Framed
<1>1. KeyInv /\ ServiceInv => Framed
  <2> SUFFICES ASSUME ServiceInv, channel.orderly, login.phase # "broken"
               PROVE  /\ \A c \in Client : Owed(c) => Frame(c)
                      /\ (\A c \in Client : ~Owed(c)) =>
                            channel.unread = <<>> /\ agentBuffer = 0
    BY DEF Framed
  <2>1. Typed /\ OneAsks
    BY DEF ServiceInv
  <2>2. \A c \in Client : Owed(c) => Frame(c)
    BY <2>1, HoldsFrame DEF OneAsks
  <2> QED
    BY <2>1, <2>2 DEF OneAsks
<1> QED
  BY <1>1, ServiceInvariant, PTL

\* A signature that a program is given can be read in the form the comments
\* of SshAgent.c state, whatever the key, the flags of the request and the
\* length of the signature, but for ECDSA (SshAgent.c:386).
THEOREM GivenSignaturesReadable == Spec => []SignatureIsReadable
<1>1. ServiceInv => SignatureIsReadable
  <2> SUFFICES ASSUME ServiceInv, NEW c \in Client,
                      clients[c].given.kind = "SIGN_RESPONSE",
                      clients[c].given.algorithm \notin Ecdsa
               PROVE  LET a == clients[c].given.algorithm
                      IN  Readable(SignatureWrites(a, SignedSize), a, SignedSize)
    BY Zenon DEF SignatureIsReadable
  <2>1. clients[c].given \in Replies
    BY Served DEF Typed, ClientType
  <2>2. clients[c].given.algorithm \in {"ssh-dss", "ssh-rsa", "ssh-ed25519"}
    BY <2>1, ReplyKinds DEF GivenAlgorithms
  <2> QED
    BY <2>2, ReadableSignatures, SshAgentAssumption
<1> QED
  BY <1>1, ServiceInvariant, PTL

-----------------------------------------------------------------------------
(* The refinement of AgentService.                                         *)

\* What becomes of the lock with an answer (SshAgent.c:640, 676).
LEMMA AnswerFits ==
    ASSUME NEW r \in Asked, r.type # "unknown", agent \in ContextType,
           agent.keys # <<>>, NEW signs
    PROVE  LET kind == ReplyFromRequest(agent, r, signs)[1].kind
               b == ReplyFromRequest(agent, r, signs)[2]
           IN  /\ kind \in Promise!Answers(r)
               /\ kind # "SUCCESS" => b = agent
               /\ kind = "SUCCESS" =>
                     \/ r.type = "LOCK" /\ b.isLocked = TRUE
                        /\ b.lockPassword = r.pass
                     \/ r.type = "UNLOCK" /\ b.isLocked = FALSE
                        /\ b.lockPassword = <<>>
<1> DEFINE reply == ReplyFromRequest(agent, r, signs)
<1>1. r.type \in {"REQUEST_IDENTITIES", "unsupported", "SIGN_REQUEST",
                  "LOCK", "UNLOCK"}
  BY RequestTypes DEF Asked, NoRequest
<1>2. Failure.kind = "FAILURE" /\ Success.kind = "SUCCESS"
  BY DEF Failure, Success
<1>3. agent.isLocked \in BOOLEAN
  BY DEF ContextType
<1>4. CASE r.type = "REQUEST_IDENTITIES"
  <2>1. reply = <<Identities(agent), agent>>
    BY <1>4 DEF ReplyFromRequest
  <2>2. Identities(agent).kind =
            IF agent.isLocked THEN "no identities" ELSE "identities"
    BY DEF Identities, Keys
  <2>3. Promise!Answers(r) =
            {IF agent.isLocked THEN "no identities" ELSE "identities"}
    BY <1>4 DEF Promise!Answers
  <2>4. reply[1] = Identities(agent) /\ reply[2] = agent
    BY <2>1
  <2>5. /\ Identities(agent).kind \in Promise!Answers(r)
        /\ Identities(agent).kind # "SUCCESS"
    BY <2>2, <2>3
  <2>6. reply[1].kind \in Promise!Answers(r) /\ reply[1].kind # "SUCCESS"
    BY <2>4, <2>5
  <2> QED
    BY <2>4, <2>6, Zenon
<1>5. CASE r.type = "SIGN_REQUEST"
  <2>1. reply = <<MakeSignatureReply(agent, r, signs), agent>>
    BY <1>5 DEF ReplyFromRequest
  <2>2. SignRefused(agent, r) <=> (agent.isLocked \/ ~r.mine \/ r.flags # 0)
    BY DEF SignRefused
  <2>3. MakeSignatureReply(agent, r, signs).kind =
            IF SignRefused(agent, r) \/ ~signs THEN "FAILURE"
            ELSE "SIGN_RESPONSE"
    BY <1>2 DEF MakeSignatureReply
  <2>4. Promise!Answers(r) =
            IF agent.isLocked \/ ~r.mine \/ r.flags # 0 THEN {"FAILURE"}
            ELSE {"SIGN_RESPONSE", "FAILURE"}
    BY <1>5 DEF Promise!Answers
  <2>5. reply[1] = MakeSignatureReply(agent, r, signs) /\ reply[2] = agent
    BY <2>1
  <2>6. /\ MakeSignatureReply(agent, r, signs).kind \in Promise!Answers(r)
        /\ MakeSignatureReply(agent, r, signs).kind # "SUCCESS"
    BY <2>2, <2>3, <2>4
  <2>7. reply[1].kind \in Promise!Answers(r) /\ reply[1].kind # "SUCCESS"
    BY <2>5, <2>6
  <2> QED
    BY <2>5, <2>7, Zenon
<1>6. CASE r.type = "unsupported"
  <2>1. reply = <<Failure, agent>>
    BY <1>6 DEF ReplyFromRequest
  <2>2. Promise!Answers(r) = {"FAILURE"}
    BY <1>6 DEF Promise!Answers
  <2> QED
    BY <1>2, <2>1, <2>2
<1>7. CASE r.type = "LOCK"
  <2>1. reply = ProcessLockRequest(agent, r)
    BY <1>7 DEF ReplyFromRequest
  <2>2. Promise!Answers(r) = {IF agent.isLocked THEN "FAILURE" ELSE "SUCCESS"}
    BY <1>7 DEF Promise!Answers
  <2>3. CASE agent.isLocked
    <3>1. reply = <<Failure, agent>>
      BY <2>1, <2>3 DEF ProcessLockRequest
    <3> QED
      BY <1>2, <2>2, <2>3, <3>1
  <2>4. CASE ~agent.isLocked
    <3> DEFINE m == [agent EXCEPT !.isLocked = TRUE]
               pass == r.pass
               b == [m EXCEPT !.lockPassword = pass]
    <3>1. reply[1] = Success /\ reply[2] = b
      BY <2>1, <2>4 DEF ProcessLockRequest
    <3>2. m \in ContextType /\ m.isLocked = TRUE
      BY DEF ContextType
    <3>3. b.isLocked = TRUE /\ b.lockPassword = pass
      <4> HIDE DEF m, pass
      <4> QED
        BY <3>2 DEF ContextType
    <3>4. reply[1].kind = "SUCCESS" /\ "SUCCESS" \in Promise!Answers(r)
      BY <1>2, <2>2, <2>4, <3>1
    <3> HIDE DEF reply, b
    <3> QED
      BY <1>7, <3>1, <3>3, <3>4, Zenon DEF reply
  <2> QED
    BY <2>3, <2>4
<1>8. CASE r.type = "UNLOCK"
  <2>1. reply = ProcessUnlockRequest(agent, r)
    BY <1>8 DEF ReplyFromRequest
  <2>2. Promise!Answers(r) =
            {IF Unlocks(agent, r) THEN "SUCCESS" ELSE "FAILURE"}
    BY <1>8 DEF Promise!Answers, Unlocks, IsPrefix, Promise!IsPrefix
  <2>3. CASE ~Unlocks(agent, r)
    <3>1. reply = <<Failure, agent>>
      BY <2>1, <2>3 DEF ProcessUnlockRequest
    <3> QED
      BY <1>2, <2>2, <2>3, <3>1
  <2>4. CASE Unlocks(agent, r)
    <3> DEFINE m == [agent EXCEPT !.isLocked = FALSE]
               b == [m EXCEPT !.lockPassword = <<>>]
    <3>1. reply[1] = Success /\ reply[2] = b
      BY <2>1, <2>4 DEF ProcessUnlockRequest
    <3>2. m \in ContextType /\ m.isLocked = FALSE
      BY DEF ContextType
    <3>3. b.isLocked = FALSE /\ b.lockPassword = <<>>
      <4> HIDE DEF m
      <4> QED
        BY <3>2 DEF ContextType
    <3> HIDE DEF reply, b
    <3> QED
      BY <1>2, <1>8, <2>2, <2>4, <3>1, <3>3 DEF reply
  <2> QED
    BY <2>3, <2>4
<1> QED
  BY <1>1, <1>4, <1>5, <1>6, <1>7, <1>8

\* Nothing that the promise speaks of changes.
LEMMA SeesNothing ==
    ASSUME \A c \in Client : /\ clients'[c].asked = clients[c].asked
                             /\ clients'[c].given = clients[c].given,
           agent'.isLocked = agent.isLocked,
           agent'.lockPassword = agent.lockPassword,
           channel'.orderly = channel.orderly, Session' = Session
    PROVE  UNCHANGED Promise!svars
<1>1. [c \in Client |-> clients'[c].asked] = [c \in Client |-> clients[c].asked]
  OBVIOUS
<1>2. [c \in Client |-> clients'[c].given.kind]
         = [c \in Client |-> clients[c].given.kind]
  OBVIOUS
<1> QED
  BY <1>1, <1>2 DEF Promise!svars

\* Nothing but the session: it ends.
LEMMA SeesEnd ==
    ASSUME UNCHANGED <<channel, clients>>,
           agent'.isLocked = agent.isLocked,
           agent'.lockPassword = agent.lockPassword, Session' = "ended"
    PROVE  Promise!End
BY DEF Promise!End

\* Nothing but that programs have overlapped.
LEMMA SeesOverlap ==
    ASSUME \A c \in Client : /\ clients'[c].asked = clients[c].asked
                             /\ clients'[c].given = clients[c].given,
           UNCHANGED agent, channel'.orderly = FALSE, Session' = Session
    PROVE  Promise!Overlap
<1>1. [c \in Client |-> clients'[c].asked] = [c \in Client |-> clients[c].asked]
  OBVIOUS
<1>2. [c \in Client |-> clients'[c].given.kind]
         = [c \in Client |-> clients[c].given.kind]
  OBVIOUS
<1> QED
  BY <1>1, <1>2 DEF Promise!Overlap

LEMMA ServiceStarts == Init => Promise!SInit
<1> SUFFICES ASSUME Init PROVE Promise!SInit
  OBVIOUS
<1>1. /\ agent.isLocked = FALSE /\ agent.lockPassword = <<>>
      /\ channel.orderly = TRUE /\ Session = "serving"
  BY DEF Init, Session
<1>2. clients = [c \in Client |-> [state |-> "new", asked |-> NoRequest,
                     arrived |-> 0, given |-> NoReply]]
  BY DEF Init
<1>3. [c \in Client |-> clients[c].asked] = [c \in Client |-> [type |-> "none"]]
  BY <1>2 DEF NoRequest
<1>4. [c \in Client |-> clients[c].given.kind] = [c \in Client |-> "none"]
  BY <1>2 DEF NoReply
<1> QED
  BY <1>1, <1>3, <1>4 DEF Promise!SInit

\* A program asks.
LEMMA SendMaps ==
    ASSUME ServiceInv, NEW c \in Client, NEW r \in Request, SendRequest(c, r)
    PROVE  Promise!Ask(c)
<1> DEFINE asked == [d \in Client |-> clients[d].asked]
           given == [d \in Client |-> clients[d].given.kind]
<1>1. Typed /\ Typed'
  BY Served, SendKeeps DEF ServiceInv
<1>2. Asks(c, r)
  BY <1>1, SendSays
<1>3. asked[c].type = "none" \/ given[c] # "none"
  <2>1. clients[c].asked = NoRequest \/ clients[c].given # NoReply
    BY <1>2 DEF Asks, Owed
  <2>2. clients[c].given \in Replies
    BY <1>1 DEF Typed, ClientType
  <2>3. clients[c].asked = NoRequest => clients[c].asked.type = "none"
    BY DEF NoRequest
  <2> QED
    BY <2>1, <2>2, <2>3, ReplyKinds
<1>4. [d \in Client |-> clients'[d].asked] \in [Client -> Request]
  BY <1>1 DEF Typed, ClientType
<1>5. \A d \in Client \ {c} : clients'[d] = clients[d]
  BY <1>2 DEF Asks, Becomes
<1>6. [d \in Client |-> clients'[d].given.kind] = [given EXCEPT ![c] = "none"]
  <2>1. clients'[c].given.kind = "none"
    BY <1>2 DEF Asks, NoReply
  <2> QED
    BY <1>5, <2>1
<1>7. UNCHANGED <<agent, login>> /\ channel'.orderly = channel.orderly
  BY <1>1, <1>2 DEF Asks, Typed, ChannelType
<1>8. Session' = Session
  BY <1>7 DEF Session
<1> QED
  BY <1>3, <1>4, <1>5, <1>6, <1>7, <1>8 DEF Promise!Ask

\* What the reader takes for a request is answered as the lock calls for,
\* whatever is on the channel.
LEMMA ReadAnswers ==
    ASSUME ServiceInv, NEW n, NEW r, NEW signs, Read(n, r, signs),
           ReplyFromRequest(agent, r, signs)[1] # NoReply
    PROVE  \A d \in Client : d = channel.client => Promise!Answered(d, r)
<1> DEFINE c == channel.client
           asked == [d \in Client |-> clients[d].asked]
           given == [d \in Client |-> clients[d].given.kind]
           reply == ReplyFromRequest(agent, r, signs)
<1>1. Typed /\ HasKey /\ login.phase = "serving" /\ channel.isOpen /\ r \in Asked
  BY Served DEF Read
<1>2. c \in Client /\ agent \in ContextType /\ agent.keys # <<>>
  BY <1>1 DEF HasKey, Up, Typed
<1>3. /\ channel' = [channel EXCEPT !.unread =
                        SubSeq(AfterHeader, n + 1, Len(AfterHeader))]
      /\ agent' = reply[2]
      /\ clients' = [clients EXCEPT ![c].given = reply[1]]
      /\ UNCHANGED login
  BY DEF Read
<1>4. channel'.orderly = channel.orderly
  BY <1>1, <1>3 DEF Typed, ChannelType
<1>5. r.type \notin {"none", "unknown"}
  BY <1>1, <1>2, ReplyTyped, RequestTypes DEF Asked
<1>6. /\ reply[1].kind \in Promise!Answers(r)
      /\ reply[1].kind # "SUCCESS" => reply[2] = agent
      /\ reply[1].kind = "SUCCESS" =>
            \/ r.type = "LOCK" /\ reply[2].isLocked = TRUE
               /\ reply[2].lockPassword = r.pass
            \/ r.type = "UNLOCK" /\ reply[2].isLocked = FALSE
               /\ reply[2].lockPassword = <<>>
  BY <1>1, <1>2, <1>5, AnswerFits DEF reply
<1> HIDE DEF reply
<1>7. /\ clients'[c] = [clients[c] EXCEPT !.given = reply[1]]
      /\ \A d \in Client \ {c} : clients'[d] = clients[d]
      /\ clients[c] \in ClientType
  BY <1>1, <1>2, <1>3 DEF Typed
<1>8. clients'[c].given = reply[1] /\ clients'[c].asked = clients[c].asked
  BY <1>7 DEF ClientType
<1>9. [d \in Client |-> clients'[d].given.kind]
         = [given EXCEPT ![c] = reply[1].kind]
  BY <1>2, <1>7, <1>8
<1>10. [d \in Client |-> clients'[d].asked] = asked
  BY <1>2, <1>7, <1>8
<1>11. Session' = Session
  BY <1>3 DEF Session
<1>12. agent'.isLocked = IF reply[1].kind = "SUCCESS" THEN r.type = "LOCK"
                         ELSE agent.isLocked
  BY <1>3, <1>6
<1>13. agent'.lockPassword =
          IF reply[1].kind # "SUCCESS" THEN agent.lockPassword
          ELSE IF r.type = "LOCK" THEN r.pass ELSE <<>>
  BY <1>3, <1>6
<1> SUFFICES ASSUME NEW d \in Client, d = c
             PROVE  Promise!Answered(d, r)
  OBVIOUS
<1>14. [e \in Client |-> clients'[e].given.kind]
          = [given EXCEPT ![d] = reply[1].kind]
  BY <1>9
<1> QED
  BY <1>4, <1>5, <1>6, <1>10, <1>11, <1>12, <1>13, <1>14
     DEF Promise!Answered

\* A request without a reply is of an unknown type, and breaks the session.
LEMMA ReadBreaks ==
    ASSUME ServiceInv, NEW n, NEW r, NEW signs, Read(n, r, signs),
           ReplyFromRequest(agent, r, signs)[1] = NoReply
    PROVE  r.type = "unknown" /\ Promise!Broken
<1>1. Typed /\ r \in Asked /\ agent \in ContextType
  BY Served DEF Read, Typed
<1>2. r.type = "unknown"
  BY <1>1, ReplyTyped
<1>3. agent' = agent
  BY <1>2 DEF Read, ReplyFromRequest
<1>4. /\ UNCHANGED clients
      /\ login' = [login EXCEPT !.phase = "broken",
                                !.event = "OUT_OF_MEMORY_ERROR"]
      /\ channel' = [channel EXCEPT !.unread =
                        SubSeq(AfterHeader, n + 1, Len(AfterHeader))]
  BY DEF Read
<1>5. channel'.orderly = channel.orderly
  BY <1>1, <1>4 DEF Typed, ChannelType
<1>6. login'.phase = "broken"
  BY <1>1, <1>4 DEF Typed, LoginType
<1>7. Session' = "broken"
  BY <1>6 DEF Session
<1> QED
  BY <1>2, <1>3, <1>4, <1>5, <1>7 DEF Promise!Broken

\* On an orderly channel it is the request of the program that waits.
LEMMA ReadMaps ==
    ASSUME ServiceInv, ReadRequest
    PROVE  Promise!SNext
<1>1. Typed /\ login.phase = "serving"
  BY Served DEF ReadRequest, Serving
<1>2. PICK n, q, signs : Read(n, q, signs)
  BY <1>1, RequestIsRead
<1> DEFINE c == channel.client
           asked == [d \in Client |-> clients[d].asked]
           given == [d \in Client |-> clients[d].given.kind]
           reply == ReplyFromRequest(agent, q, signs)
<1>3. c \in Client /\ q \in Request
  BY <1>2, Served DEF Read, HasKey, Asked
<1>4. CASE channel.orderly
  <2>1. OneAsks
    BY <1>1, <1>4 DEF ServiceInv
  <2>2. Owed(c) /\ q = clients[c].asked
    BY <1>1, <1>2, <2>1, WholeRequest
  <2>3. asked[c] = q /\ given[c] = "none"
    BY <1>3, <2>2 DEF Owed, NoReply
  <2>4. CASE reply[1] = NoReply
    <3>1. asked[c].type = "unknown" /\ Promise!Broken
      BY <1>2, <2>3, <2>4, ReadBreaks
    <3>2. \E d \in Client : Promise!Break(d)
      BY <1>3, <2>3, <3>1 DEF Promise!Break
    <3> QED
      BY <3>2 DEF Promise!SNext
  <2>5. CASE reply[1] # NoReply
    <3>1. ASSUME NEW d \in Client, d = c
          PROVE  Promise!Answer(d)
      <4>1. Promise!Answered(d, q)
        BY <1>2, <2>5, <3>1, ReadAnswers
      <4>2. asked[d] = q /\ given[d] = "none"
        BY <2>3, <3>1
      <4> QED
        BY <4>1, <4>2, Zenon DEF Promise!Answer, Promise!Answered,
           Promise!Answers
    <3> QED
      BY <1>3, <3>1 DEF Promise!SNext
  <2> QED
    BY <2>4, <2>5
<1>5. CASE ~channel.orderly
  <2>1. CASE reply[1] = NoReply
    BY <1>2, <1>5, <2>1, ReadBreaks DEF Promise!SNext, Promise!BreakMixed
  <2>2. CASE reply[1] # NoReply
    <3>1. ASSUME NEW d \in Client, d = c
          PROVE  Promise!AnswerMixed(d)
      <4>1. Promise!Answered(d, q)
        BY <1>2, <2>2, <3>1, ReadAnswers
      <4> QED
        BY <1>3, <1>5, <4>1 DEF Promise!AnswerMixed
    <3> QED
      BY <1>3, <3>1 DEF Promise!SNext
  <2> QED
    BY <2>1, <2>2
<1> QED
  BY <1>4, <1>5

\* Every step is one of the promise, or is not seen.
LEMMA ServiceStep ==
    ServiceInv /\ KeyInv /\ [Next]_vars => [Promise!SNext]_(Promise!svars)
<1> SUFFICES ASSUME ServiceInv, KeyInv, [Next]_vars
             PROVE  [Promise!SNext]_(Promise!svars)
  OBVIOUS
<1>1. Typed
  BY Served
<1>2. CASE UNCHANGED vars
  <2>1. Session' = Session
    BY <1>2 DEF vars, Session
  <2> QED
    BY <1>2, <2>1, SeesNothing DEF vars
<1>3. CASE LoginStep
  <2>1. /\ UNCHANGED <<channel, clients>>
        /\ login.phase \in {"detect", "loaded", "refused"}
    BY <1>3 DEF LoginStep, NoAgent, DetectFails, ImportOpenSsh, LoadPutty,
                KeyRefused, Authenticated
  <2>2. LoginTypes
    BY <1>3, LoginKeeps
  <2>3. /\ agent'.isLocked = agent.isLocked
        /\ agent'.lockPassword = agent.lockPassword
        /\ login'.phase \in Phases \ {"broken", "ended"}
    BY <2>2 DEF LoginTypes, LoginType
  <2>4. Session' \in {Session, "ended"}
    BY <2>1, <2>3 DEF Session, Phases
  <2> QED
    BY <2>1, <2>3, <2>4, SeesNothing, SeesEnd DEF Promise!SNext
<1>4. CASE ReadClosed \/ ReadPart
  <2>1. UNCHANGED <<login, agent, clients>>
    BY <1>4 DEF ReadClosed, ReadPart
  <2>2. channel'.orderly = channel.orderly
    <3>1. channel' \in {channel, [channel EXCEPT !.unread = AfterHeader]}
      BY <1>4 DEF ReadClosed, ReadPart
    <3> QED
      BY <1>1, <3>1 DEF Typed, ChannelType
  <2>3. Session' = Session
    BY <2>1 DEF Session
  <2> QED
    BY <2>1, <2>2, <2>3, SeesNothing
<1>5. CASE ReadRequest
  BY <1>5, ReadMaps
<1>6. CASE TerminalEnds \/ ReadRaises \/ NoChannel
  <2>1. /\ login'.phase \in {"ended", "closed"}
        /\ UNCHANGED <<agent, channel, clients>>
    BY <1>6, EndsEnd, EndKeeps
  <2>2. Session' = "ended"
    BY <2>1 DEF Session
  <2> QED
    BY <2>1, <2>2, SeesEnd DEF Promise!SNext
<1>7. ASSUME NEW c \in Client,
             OpenAgentChannel(c) \/ CloseAgentChannel(c) \/ Deliver(c)
      PROVE  [Promise!SNext]_(Promise!svars)
  <2>1. Opens(c) \/ Goes(c) \/ Arrives(c)
    BY <1>1, <1>7, OpenSays, CloseSays, DeliverSays
  <2>2. /\ UNCHANGED <<login, agent>>
        /\ \A d \in Client : /\ clients'[d].asked = clients[d].asked
                             /\ clients'[d].given = clients[d].given
    BY <2>1 DEF Opens, Goes, Arrives, Becomes
  <2>3. Session' = Session
    BY <2>2 DEF Session
  <2>4. channel'.orderly \in BOOLEAN /\ channel.orderly \in BOOLEAN
        /\ (channel'.orderly => channel.orderly)
    <3>1. channel \in ChannelType
      BY <1>1 DEF Typed
    <3>2. CASE Opens(c) \/ Goes(c)
      BY <3>1, <3>2 DEF Opens, Goes, ChannelType
    <3>3. CASE Arrives(c)
      <4> DEFINE longer == Append(channel.unread, [from |-> c,
                              req |-> clients[c].asked,
                              at |-> clients[c].arrived + 1])
      <4>1. channel' = [channel EXCEPT !.unread = longer]
        BY <3>3 DEF Arrives
      <4> HIDE DEF longer
      <4> QED
        BY <3>1, <4>1 DEF ChannelType
    <3> QED
      BY <2>1, <3>2, <3>3
  <2>5. CASE channel'.orderly = channel.orderly
    BY <2>2, <2>3, <2>5, SeesNothing
  <2>6. CASE channel'.orderly # channel.orderly
    <3>1. channel'.orderly = FALSE
      BY <2>4, <2>6
    <3>2. Promise!Overlap
      BY <2>2, <2>3, <3>1, SeesOverlap
    <3> QED
      BY <3>2 DEF Promise!SNext
  <2> QED
    BY <2>5, <2>6
<1>8. ASSUME NEW c \in Client, NEW r \in Request, SendRequest(c, r)
      PROVE  [Promise!SNext]_(Promise!svars)
  BY <1>8, SendMaps DEF Promise!SNext
<1> QED
  BY <1>2, <1>3, <1>4, <1>5, <1>6, <1>7, <1>8 DEF Next, Reader

\* The agent keeps its promise: for any programs and requests and any way
\* these are cut and interleaved with the reader.  While the programs come one
\* after the other each request has the one answer that it and the lock call
\* for; once they mix, whatever is made of their requests has such an answer.
THEOREM ServiceImplemented == Spec => ImplementsService
BY ServiceInvariant, ServiceStarts, ServiceStep, PTL
   DEF Spec, ImplementsService, Promise!Service
=============================================================================
