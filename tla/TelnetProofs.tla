---------------------------- MODULE TelnetProofs ----------------------------
(***************************************************************************)
(* Telnet.  The controller: which connection it holds, and how much waits  *)
(* in the queue of a connection, for any number of sessions and events and *)
(* any bounds.  The controller's invariant is about the current connection *)
(* as long as none before it notified something after its end: what is on  *)
(* its way to signalError is then the rest of what that one notified.  The *)
(* bound on the queue rests on the order of the tasks: behind a disconnect *)
(* that comes first no data is read, so a read finds little in the queue.  *)
(*                                                                         *)
(* The connection: what its parser makes of the bytes, for any messages of *)
(* any length cut anywhere but in a sub option.                            *)
(***************************************************************************)
EXTENDS TelnetTerminal, TelnetConnection, SequenceTheorems, WellFoundedInduction, TLAPS

Holds(q, task) == \E i \in 1..Len(q) : q[i] = task

\* A disconnect is before every source.
Doomed(q) == \E i \in 1..Len(q) :
  /\ q[i] = "disconnect"
  /\ \A j \in 1..(i - 1) : q[j] # "source"

\* Data may still be read: the source is armed or connect has yet to run.
Open(s) == s.source \/ Holds(s.queue, "connect")

MayAsk(c) == connection = c /\ state = "Connected"
Asks(c) == IF MayAsk(c) THEN 1 ELSE 0

InOrder(s) ==
  /\ \A i \in 1..Len(s.queue) : s.queue[i] = "connect" =>
       /\ i = 1 /\ ~s.source /\ ~Holds(s.queue, "source")
  /\ \A i, j \in 1..Len(s.queue) :
       s.queue[i] = "source" /\ s.queue[j] = "source" => i = j

Typed ==
  /\ state \in {"Disconnected", "Connected"}
  /\ connection \in 0..MaxSessions /\ sessions \in 0..MaxSessions
  /\ line \in [Session -> LineType]
  /\ mainQueue \in Seq(Code)
  /\ connectEnabled \in BOOLEAN /\ disconnectEnabled \in BOOLEAN
  /\ asking \in BOOLEAN

Bounded(s, a) ==
  LET n == Len(s.queue)
  IN  /\ n + a <= MaxQueue + MaxFailures + 4
      /\ Open(s) /\ ~Holds(s.queue, "source") =>
           n + a <= MaxQueue + MaxFailures + 3
      /\ Open(s) /\ ~Doomed(s.queue) =>
           IF Holds(s.queue, "source") THEN n + a <= MaxQueue + 3
           ELSE n <= MaxQueue + 1
      /\ s.source /\ Holds(s.queue, "source") /\ ~Holds(s.queue, "disconnect") /\ s.queue[n] # "source"
           => n <= MaxQueue

QueueInv == \A c \in Session : InOrder(line[c]) /\ Bounded(line[c], Asks(c))

NoneLateBefore(c) == \A d \in 1..(c - 1) : ~Late(d)

Ended == \A c \in 1..(sessions - 1) :
  NoneLateBefore(c) => Has(line[c], "DISCONNECTED")

Unborn == \A c \in Session : c > sessions => line[c] = Allocated /\ connection < c

Told(k) == \E i \in 1..k : line[sessions].events[i] = "DISCONNECTED"

Reported(k) ==
  LET notified == line[sessions].events
  IN  /\ mainQueue = SubSeq(notified, k + 1, Len(notified))
      /\ connection = sessions \/ Told(k)
      /\ connectEnabled => Told(k)

Heard ==
  IF sessions = 0 THEN mainQueue = <<>> /\ connection = nil
  ELSE NoneLateBefore(sessions) =>
         \E k \in 0..Len(line[sessions].events) : Reported(k)

OwnInv == Unborn /\ Ended /\ Heard

-----------------------------------------------------------------------------
(***************************************************************************)
(* What the step of one connection does to its queue and its events.       *)
(***************************************************************************)

\* A task has ended that dispatched tasks and notified codes.
Finished(s, next, tasks, codes) ==
  /\ tasks \in Seq(LineTask) /\ codes \in Seq(Code)
  /\ next \in LineType
  /\ next.queue = Tail(s.queue) \o tasks
  /\ next.events = s.events \o codes

LEMMA RanEnded ==
    ASSUME NEW s \in LineType, s.queue # <<>>,
           NEW tasks \in Seq(LineTask), NEW codes \in Seq(Code),
           NEW open \in BOOLEAN, NEW source \in BOOLEAN
    PROVE  LET r == Ran(s, tasks, codes)
           IN  /\ Finished(s, r, tasks, codes)
               /\ r.fd = s.fd /\ r.source = s.source
<1> DEFINE q == Tail(s.queue) \o tasks
           e == s.events \o codes
           r == Ran(s, tasks, codes)
<1>1. q \in Seq(LineTask) /\ e \in Seq(Code)
  BY DEF LineType
<1>2. r = [s EXCEPT !.queue = q, !.events = e]
  BY DEF Ran
<1> HIDE DEF q, e, r
<1>3. /\ r \in LineType /\ r.queue = q /\ r.events = e
      /\ r.fd = s.fd /\ r.source = s.source
  BY <1>1, <1>2 DEF LineType
<1> QED
  BY <1>3 DEF Finished, q, e, r

\* What a task behind connect and in front of disconnect dispatches.
Few(tasks) == tasks = <<>> \/ tasks = <<"disconnect">>

LEMMA ConnectsResult ==
    ASSUME NEW s \in LineType, s.queue # <<>>, NEW next \in Connects(s)
    PROVE  \/ Finished(s, next, <<>>, <<>>) /\ next.source = TRUE
           \/ Finished(s, next, <<"disconnect">>, <<>>) /\ next.source = s.source
<1>1. /\ <<>> \in Seq(LineTask) /\ <<"disconnect">> \in Seq(LineTask)
      /\ <<>> \in Seq(Code)
  BY DEF LineTask
<1>2. s.source \in BOOLEAN /\ s.fd \in BOOLEAN
  BY DEF LineType
<1>3. CASE next = [Ran(s, <<>>, <<>>) EXCEPT !.fd = TRUE, !.source = TRUE]
  <2> DEFINE r == Ran(s, <<>>, <<>>)
  <2>1. Finished(s, r, <<>>, <<>>)
    BY <1>1, <1>2, RanEnded
  <2>2. next = [r EXCEPT !.fd = TRUE, !.source = TRUE] /\ r \in LineType
    BY <1>3, <2>1 DEF Finished
  <2> HIDE DEF r
  <2>3. /\ next \in LineType /\ next.queue = r.queue
        /\ next.events = r.events /\ next.source = TRUE
    BY <2>2 DEF LineType
  <2> QED
    BY <2>1, <2>3 DEF Finished
<1>4. ASSUME NEW open \in BOOLEAN,
             next = [Ran(s, <<"disconnect">>, <<>>) EXCEPT !.fd = open]
      PROVE  /\ Finished(s, next, <<"disconnect">>, <<>>)
             /\ next.source = s.source
  <2> DEFINE r == Ran(s, <<"disconnect">>, <<>>)
  <2>1. Finished(s, r, <<"disconnect">>, <<>>) /\ r.source = s.source
    BY <1>1, <1>2, RanEnded
  <2>2. next = [r EXCEPT !.fd = open] /\ r \in LineType
    BY <1>4, <2>1 DEF Finished
  <2> HIDE DEF r
  <2>3. /\ next \in LineType /\ next.queue = r.queue
        /\ next.events = r.events /\ next.source = r.source
    BY <1>4, <2>2 DEF LineType
  <2> QED
    BY <2>1, <2>3 DEF Finished
<1> QED
  BY <1>3, <1>4 DEF Connects

LEMMA WritesResult ==
    ASSUME NEW s \in LineType, s.queue # <<>>, NEW next \in Writes(s)
    PROVE  \E tasks : /\ Few(tasks) /\ Finished(s, next, tasks, <<>>)
                      /\ next.source = s.source
<1>1. /\ <<>> \in Seq(LineTask) /\ <<"disconnect">> \in Seq(LineTask)
      /\ <<>> \in Seq(Code)
  BY DEF LineTask
<1>2. s.source \in BOOLEAN /\ s.fd \in BOOLEAN
  BY DEF LineType
<1> DEFINE r == Ran(s, <<"disconnect">>, <<>>)
<1>3. Finished(s, r, <<"disconnect">>, <<>>) /\ r.source = s.source
  BY <1>1, <1>2, RanEnded
<1>4. CASE next = r
  BY <1>3, <1>4, Zenon DEF Few
<1>5. CASE next = [r EXCEPT !.fd = FALSE]
  <2>1. r \in LineType
    BY <1>3 DEF Finished
  <2> HIDE DEF r
  <2>2. /\ next \in LineType /\ next.queue = r.queue
        /\ next.events = r.events /\ next.source = r.source
    BY <1>5, <2>1 DEF LineType
  <2>3. Finished(s, next, <<"disconnect">>, <<>>) /\ next.source = s.source
    BY <1>3, <2>2 DEF Finished
  <2> QED
    BY <2>3, Zenon DEF Few
<1>6. CASE next = Ran(s, <<>>, <<>>)
  <2>1. Finished(s, next, <<>>, <<>>) /\ next.source = s.source
    BY <1>1, <1>2, <1>6, RanEnded
  <2> QED
    BY <2>1, Zenon DEF Few
<1> QED
  BY <1>4, <1>5, <1>6 DEF Writes

LEMMA WritesPasswordResult ==
    ASSUME NEW s \in LineType, s.queue # <<>>, NEW next \in WritesPassword(s)
    PROVE  \E tasks, codes : /\ Few(tasks) /\ Finished(s, next, tasks, codes)
                             /\ next.source = s.source
<1>1. /\ <<>> \in Seq(LineTask) /\ <<"disconnect">> \in Seq(LineTask)
      /\ <<>> \in Seq(Code) /\ <<"CONNECTED">> \in Seq(Code)
  BY DEF LineTask, Code
<1>2. s.source \in BOOLEAN /\ s.fd \in BOOLEAN
  BY DEF LineType
<1>3. PICK tasks, codes : /\ next = Ran(s, tasks, codes) /\ Few(tasks)
                          /\ codes = <<>> \/ codes = <<"CONNECTED">>
  BY DEF WritesPassword, MayTell, Few
<1>4. tasks \in Seq(LineTask) /\ codes \in Seq(Code)
  BY <1>1, <1>3 DEF Few
<1>5. Finished(s, next, tasks, codes) /\ next.source = s.source
  BY <1>2, <1>3, <1>4, RanEnded
<1> QED
  BY <1>3, <1>5

LEMMA EndsResult ==
    ASSUME NEW s \in LineType, s.queue # <<>>, NEW next \in Ends(s)
    PROVE  /\ Finished(s, next, <<>>, <<"DISCONNECTED">>)
           /\ next.source = FALSE
<1>1. <<>> \in Seq(LineTask) /\ <<"DISCONNECTED">> \in Seq(Code)
  BY DEF LineTask, Code
<1>2. s.source \in BOOLEAN /\ s.fd \in BOOLEAN
  BY DEF LineType
<1> DEFINE r == Ran(s, <<>>, <<"DISCONNECTED">>)
<1>3. Finished(s, r, <<>>, <<"DISCONNECTED">>)
  BY <1>1, <1>2, RanEnded
<1>4. next = [r EXCEPT !.fd = FALSE, !.source = FALSE] /\ r \in LineType
  BY <1>3 DEF Ends, Finished
<1> HIDE DEF r
<1>5. /\ next \in LineType /\ next.queue = r.queue
      /\ next.events = r.events /\ next.source = FALSE
  BY <1>4 DEF LineType
<1> QED
  BY <1>3, <1>5 DEF Finished

\* A read adds one task for each failure and one for the password.
LEMMA ReadsResult ==
    ASSUME NEW s \in LineType, s.queue # <<>>, NEW next \in Reads(s)
    PROVE  \E tasks, codes :
             /\ Finished(s, next, tasks, codes) /\ next.source = s.source
             /\ ~s.source => tasks = <<>>
             /\ Len(tasks) <= MaxFailures + 1
             /\ \A i \in 1..Len(tasks) :
                  tasks[i] \in {"disconnect", "writePassword"}
             /\ Len(tasks) <= 1 \/ tasks[1] = "disconnect"
<1>1. /\ <<>> \in Seq(LineTask) /\ <<"writePassword">> \in Seq(LineTask)
      /\ <<>> \in Seq(Code) /\ <<"CONNECTED">> \in Seq(Code)
  BY DEF LineTask, Code
<1>2. s.source \in BOOLEAN /\ s.fd \in BOOLEAN /\ MaxFailures \in Nat
  BY LineAssumption DEF LineType
<1>3. CASE ~s.source
  <2>1. next = Ran(s, <<>>, <<>>)
    BY <1>3 DEF Reads
  <2>2. Finished(s, next, <<>>, <<>>) /\ next.source = s.source
    BY <1>1, <1>2, <2>1, RanEnded
  <2>3. /\ Len(<<>>) <= MaxFailures + 1 /\ Len(<<>>) <= 1
        /\ \A i \in 1..Len(<<>>) :
             <<>>[i] \in {"disconnect", "writePassword"}
    BY <1>2
  <2> QED
    BY <1>3, <2>2, <2>3, Zenon
<1>4. CASE s.source
  <2>1. PICK n \in 0..MaxFailures, password \in MayNeedPassword,
             codes \in MayTell(s) :
               next = Ran(s, Disconnects(n) \o password, codes)
    BY <1>4 DEF Reads
  <2> DEFINE tasks == Disconnects(n) \o password
  <2>2. /\ Disconnects(n) \in Seq(LineTask) /\ Len(Disconnects(n)) = n
        /\ \A i \in 1..n : Disconnects(n)[i] = "disconnect"
    BY <1>2, <2>1 DEF Disconnects, LineTask
  <2>3. /\ password \in Seq(LineTask) /\ Len(password) <= 1
        /\ \A i \in 1..Len(password) : password[i] = "writePassword"
    <3>1. CASE password = <<>>
      BY <1>1, <3>1
    <3>2. CASE password = <<"writePassword">>
      BY <1>1, <3>2
    <3> QED
      BY <2>1, <3>1, <3>2 DEF MayNeedPassword
  <2>4. tasks \in Seq(LineTask)
    BY <2>2, <2>3
  <2>5. codes \in Seq(Code)
    BY <1>1, <2>1 DEF MayTell
  <2>6. Finished(s, next, tasks, codes) /\ next.source = s.source
    BY <1>2, <2>1, <2>4, <2>5, RanEnded
  <2>7. /\ Len(tasks) <= MaxFailures + 1
        /\ \A i \in 1..Len(tasks) :
             tasks[i] \in {"disconnect", "writePassword"}
        /\ Len(tasks) <= 1 \/ tasks[1] = "disconnect"
    <3> HIDE DEF Disconnects
    <3> QED
      BY <1>2, <2>1, <2>2, <2>3
  <2> QED
    BY <1>4, <2>6, <2>7
<1> QED
  BY <1>3, <1>4

LEMMA TaskFinished ==
    ASSUME NEW s \in LineType, NEW next \in Tasks(s)
    PROVE  s.queue # <<>> /\ \E tasks, codes : Finished(s, next, tasks, codes)
<1>1. s.queue # <<>>
  BY DEF Tasks
<1>2. s.queue \in Seq(LineTask)
  BY DEF LineType
<1>3. Head(s.queue) \in LineTask
  BY <1>1, <1>2
<1>4. CASE Head(s.queue) = "connect"
  BY <1>1, <1>4, ConnectsResult, Zenon DEF Tasks
<1>5. CASE Head(s.queue) = "source"
  <2>1. next \in Reads(s)
    BY <1>1, <1>5 DEF Tasks
  <2> QED
    BY <1>1, <2>1, ReadsResult, Zenon
<1>6. CASE Head(s.queue) = "write"
  <2>1. next \in Writes(s)
    BY <1>1, <1>6 DEF Tasks
  <2> QED
    BY <1>1, <2>1, WritesResult, Zenon
<1>7. CASE Head(s.queue) = "writePassword"
  <2>1. next \in WritesPassword(s)
    BY <1>1, <1>7 DEF Tasks
  <2> QED
    BY <1>1, <2>1, WritesPasswordResult, Zenon
<1>8. CASE Head(s.queue) = "disconnect"
  <2>1. next \in Ends(s)
    BY <1>1, <1>8 DEF Tasks
  <2> QED
    BY <1>1, <2>1, EndsResult, Zenon
<1> QED
  BY <1>3, <1>4, <1>5, <1>6, <1>7, <1>8, Zenon DEF LineTask

LEMMA DispatchedFields ==
    ASSUME NEW s \in LineType, NEW task \in LineTask
    PROVE  LET r == Dispatched(s, task)
           IN  /\ r \in LineType /\ r.queue = Append(s.queue, task)
               /\ r.source = s.source /\ r.fd = s.fd /\ r.events = s.events
<1> DEFINE q == Append(s.queue, task)
<1>1. q \in Seq(LineTask)
  BY DEF LineType
<1>2. Dispatched(s, task) = [s EXCEPT !.queue = q]
  BY DEF Dispatched
<1> HIDE DEF q
<1>3. LET r == Dispatched(s, task)
      IN  /\ r \in LineType /\ r.queue = q
          /\ r.source = s.source /\ r.fd = s.fd /\ r.events = s.events
  BY <1>1, <1>2 DEF LineType
<1> QED
  BY <1>3 DEF q

-----------------------------------------------------------------------------
(***************************************************************************)
(* The controller's connection.                                            *)
(***************************************************************************)

\* A step of connection c that notifies codes.
Notifies(c, codes) ==
  /\ codes \in Seq(Code)
  /\ line' \in [Session -> LineType]
  /\ line'[c].events = line[c].events \o codes
  /\ \A d \in Session \ {c} : line'[d] = line[d]
  /\ mainQueue' = mainQueue \o codes
  /\ UNCHANGED <<controlVars, buttons, asking>>

LEMMA NewEvents ==
    ASSUME NEW e \in Seq(Code), NEW codes \in Seq(Code)
    PROVE  SubSeq(e \o codes, Len(e) + 1, Len(e \o codes)) = codes
<1> DEFINE all == e \o codes
           new == SubSeq(all, Len(e) + 1, Len(all))
<1>1. /\ all \in Seq(Code) /\ Len(all) = Len(e) + Len(codes)
      /\ \A i \in 1..Len(codes) : all[Len(e) + i] = codes[i]
      /\ Len(e) \in Nat /\ Len(codes) \in Nat
  OBVIOUS
<1> HIDE DEF all
<1>2. new \in Seq(Code) /\ Len(new) = Len(codes)
  <2>1. CASE Len(codes) = 0
    BY <1>1, <2>1
  <2>2. CASE Len(codes) > 0
    BY <1>1, <2>2
  <2> QED
    BY <1>1, <2>1, <2>2
<1>3. \A i \in 1..Len(codes) : new[i] = codes[i]
  BY <1>1
<1> HIDE DEF new
<1>4. new = codes
  BY <1>2, <1>3
<1> QED
  BY <1>4 DEF new, all

\* What is left of a sequence when its first k are taken grows as it does.
LEMMA RestGrows ==
    ASSUME NEW e \in Seq(Code), NEW codes \in Seq(Code), NEW k \in 0..Len(e)
    PROVE  LET all == e \o codes
           IN  SubSeq(e, k + 1, Len(e)) \o codes = SubSeq(all, k + 1, Len(all))
<1> DEFINE all == e \o codes
           rest == SubSeq(e, k + 1, Len(e))
           new == SubSeq(all, k + 1, Len(all))
<1>1. /\ all \in Seq(Code) /\ Len(all) = Len(e) + Len(codes)
      /\ \A i \in 1..Len(e) : all[i] = e[i]
      /\ \A i \in 1..Len(codes) : all[Len(e) + i] = codes[i]
      /\ Len(e) \in Nat /\ Len(codes) \in Nat /\ k \in Nat /\ k <= Len(e)
  OBVIOUS
<1> HIDE DEF all
<1>2. /\ rest \in Seq(Code) /\ Len(rest) = Len(e) - k
      /\ \A i \in 1..(Len(e) - k) : rest[i] = e[i + k]
  <2>1. CASE k = Len(e)
    BY <1>1, <2>1
  <2>2. CASE k < Len(e)
    BY <1>1, <2>2
  <2> QED
    BY <1>1, <2>1, <2>2
<1>3. /\ new \in Seq(Code) /\ Len(new) = Len(all) - k
      /\ \A i \in 1..(Len(all) - k) : new[i] = all[i + k]
  <2>1. CASE k = Len(all)
    BY <1>1, <2>1
  <2>2. CASE k < Len(all)
    BY <1>1, <2>2
  <2> QED
    BY <1>1, <2>1, <2>2
<1> HIDE DEF rest, new
<1> DEFINE grown == rest \o codes
<1>4. /\ grown \in Seq(Code) /\ Len(grown) = Len(all) - k
      /\ \A i \in 1..(Len(e) - k) : grown[i] = rest[i]
      /\ \A i \in 1..Len(codes) : grown[Len(e) - k + i] = codes[i]
  <2>1. rest \in Seq(Code) /\ Len(rest) = Len(e) - k
    BY <1>2
  <2>2. Len(grown) = Len(all) - k
    <3>1. Len(grown) = Len(rest) + Len(codes)
      BY <2>1
    <3> QED
      BY <1>1, <2>1, <3>1
  <2>3. \A i \in 1..Len(rest) : grown[i] = rest[i]
    BY <2>1
  <2>4. \A i \in 1..Len(codes) : grown[Len(rest) + i] = codes[i]
    BY <2>1
  <2>5. grown \in Seq(Code)
    BY <2>1
  <2> QED
    BY <2>1, <2>2, <2>3, <2>4, <2>5
<1> HIDE DEF grown
<1>5. ASSUME NEW i \in 1..(Len(all) - k)
      PROVE  grown[i] = all[i + k]
  <2>1. CASE i <= Len(e) - k
    <3>1. i \in 1..(Len(e) - k) /\ i + k \in 1..Len(e)
      BY <1>1, <2>1
    <3> QED
      BY <1>1, <1>2, <1>4, <3>1
  <2>2. CASE i > Len(e) - k
    <3> DEFINE j == i - (Len(e) - k)
    <3>1. /\ j \in 1..Len(codes) /\ i = Len(e) - k + j
          /\ i + k = Len(e) + j
      BY <1>1, <2>2
    <3> HIDE DEF j
    <3> QED
      BY <1>1, <1>4, <3>1
  <2> QED
    BY <1>1, <2>1, <2>2
<1>6. grown = new
  BY <1>3, <1>4, <1>5
<1> QED
  BY <1>6 DEF grown, new, rest, all

\* A connection that takes a step has been allocated.
LEMMA LineSteps ==
    ASSUME Typed, Unborn, NEW c \in Session, Work(c) \/ SourceFires(c)
    PROVE  c <= sessions /\ \E codes : Notifies(c, codes)
<1>1. line[c] \in LineType /\ c \in Nat /\ sessions \in Nat
  BY TerminalAssumption DEF Typed, Session
<1>2. c <= sessions
  <2>1. CASE c > sessions
    <3>1. line[c] = Allocated
      BY <2>1 DEF Unborn
    <3>2. Tasks(Allocated) = {} /\ Fires(Allocated) = {}
      BY DEF Tasks, Fires, Allocated
    <3> QED
      BY <3>1, <3>2 DEF Work, SourceFires
  <2> QED
    BY <1>1, <2>1
<1>3. ASSUME NEW next \in Tasks(line[c]), LineStep(c, next)
      PROVE  \E codes : Notifies(c, codes)
  <2>1. PICK tasks, codes : Finished(line[c], next, tasks, codes)
    BY <1>1, <1>3, TaskFinished
  <2>2. /\ line' = [line EXCEPT ![c] = next]
        /\ mainQueue' = mainQueue \o codes
        /\ UNCHANGED <<controlVars, buttons, asking>>
    <3>1. line[c].events \in Seq(Code)
      BY <1>1 DEF LineType
    <3>2. SubSeq(next.events, Len(line[c].events) + 1, Len(next.events))
             = codes
      BY <2>1, <3>1, NewEvents DEF Finished
    <3> QED
      BY <1>3, <3>2 DEF LineStep
  <2>3. Notifies(c, codes)
    BY <1>1, <2>1, <2>2 DEF Notifies, Finished, Typed
  <2> QED
    BY <2>3
<1>4. ASSUME NEW next \in Fires(line[c]), LineStep(c, next)
      PROVE  \E codes : Notifies(c, codes)
  <2>1. next = Dispatched(line[c], "source")
    BY <1>4 DEF Fires
  <2>2. next \in LineType /\ next.events = line[c].events
    BY <1>1, <2>1, DispatchedFields DEF LineTask
  <2>3. /\ line[c].events \in Seq(Code) /\ mainQueue \in Seq(Code)
        /\ <<>> \in Seq(Code)
    BY <1>1 DEF LineType, Typed
  <2>4. /\ next.events = line[c].events \o <<>>
        /\ mainQueue' = mainQueue \o <<>>
    <3>1. SubSeq(next.events, Len(line[c].events) + 1, Len(next.events))
             = <<>>
      BY <2>2, <2>3
    <3> QED
      BY <1>4, <2>2, <2>3, <3>1 DEF LineStep
  <2>5. Notifies(c, <<>>)
    BY <1>1, <1>4, <2>2, <2>3, <2>4 DEF Notifies, LineStep, Typed
  <2> QED
    BY <2>5
<1> QED
  BY <1>2, <1>3, <1>4 DEF Work, SourceFires

\* What a connection has notified stays.
LEMMA EventsGrow ==
    ASSUME Typed, NEW c \in Session, NEW codes, Notifies(c, codes)
    PROVE  /\ \A d \in Session : Has(line[d], "DISCONNECTED") =>
                                 Has(line'[d], "DISCONNECTED")
           /\ \A d \in Session : Late(d) => Late(d)'
           /\ Has(line[c], "DISCONNECTED") /\ codes # <<>> => Late(c)'
<1> DEFINE e == line[c].events
           f == line'[c].events
<1>1. /\ e \in Seq(Code) /\ codes \in Seq(Code) /\ f = e \o codes
  BY DEF Typed, LineType, Notifies
<1> HIDE DEF e, f
<1>2. /\ DOMAIN e = 1..Len(e) /\ DOMAIN f = 1..(Len(e) + Len(codes))
      /\ Len(e) \in Nat /\ Len(codes) \in Nat
      /\ \A i \in 1..Len(e) : f[i] = e[i]
  BY <1>1
<1>3. \A i \in DOMAIN e : i \in DOMAIN f /\ f[i] = e[i]
  BY <1>2
<1>4. \A d \in Session \ {c} : line'[d] = line[d]
  BY DEF Notifies
<1>5. ASSUME NEW d \in Session, Has(line[d], "DISCONNECTED")
      PROVE  Has(line'[d], "DISCONNECTED")
  <2>1. CASE d = c
    BY <1>3, <1>5, <2>1 DEF Has, e, f
  <2>2. CASE d # c
    BY <1>4, <1>5, <2>2
  <2> QED
    BY <2>1, <2>2
<1>6. ASSUME NEW d \in Session, Late(d)
      PROVE  Late(d)'
  <2>1. CASE d = c
    <3>1. PICK i, j \in DOMAIN e : i < j /\ e[i] = "DISCONNECTED"
      BY <1>6, <2>1 DEF Late, e
    <3>2. i \in DOMAIN f /\ j \in DOMAIN f /\ f[i] = "DISCONNECTED"
      BY <1>3, <3>1
    <3> QED
      BY <2>1, <3>1, <3>2 DEF Late, f
  <2>2. CASE d # c
    BY <1>4, <1>6, <2>2 DEF Late
  <2> QED
    BY <2>1, <2>2
<1>7. ASSUME Has(line[c], "DISCONNECTED"), codes # <<>>
      PROVE  Late(c)'
  <2>1. PICK i \in DOMAIN e : e[i] = "DISCONNECTED"
    BY <1>7 DEF Has, e
  <2>2. Len(codes) > 0
    BY <1>1, <1>7
  <2>3. i < Len(f) /\ Len(f) \in DOMAIN f
    BY <1>1, <1>2, <2>1, <2>2
  <2>4. i \in DOMAIN f /\ f[i] = "DISCONNECTED"
    BY <1>3, <2>1
  <2> QED
    BY <2>3, <2>4 DEF Late, f
<1> QED
  BY <1>5, <1>6, <1>7

LEMMA SessionNumbers ==
    ASSUME Typed
    PROVE  /\ sessions \in Nat /\ connection \in Nat /\ MaxSessions \in Nat
           /\ Session \subseteq Nat \ {0}
           /\ \A c \in 1..sessions : c \in Session
           /\ sessions # 0 => sessions \in Session
BY TerminalAssumption DEF Typed, Session

\* A step that no event of a connection comes from.
SameEvents == \A d \in Session : line'[d].events = line[d].events

LEMMA SameLate ==
    ASSUME SameEvents
    PROVE  /\ \A d \in Session : Late(d)' <=> Late(d)
           /\ \A d \in Session : \A code : Has(line'[d], code) <=> Has(line[d], code)
BY DEF SameEvents, Late, Has

LEMMA OwnFrame ==
    ASSUME Typed, OwnInv, SameEvents, sessions' = sessions,
           connection' = connection, mainQueue' = mainQueue,
           connectEnabled' => connectEnabled, Unborn'
    PROVE  OwnInv'
<1>1. sessions \in Nat /\ \A c \in 1..sessions : c \in Session
  BY SessionNumbers
<1>2. \A d \in 1..sessions : Late(d)' <=> Late(d)
  BY <1>1, SameLate
<1>3. ASSUME NEW c \in 1..sessions, NoneLateBefore(c)'
      PROVE  NoneLateBefore(c)
  BY <1>1, <1>2, <1>3 DEF NoneLateBefore
<1>4. Ended'
  <2> SUFFICES ASSUME NEW c \in 1..(sessions - 1), NoneLateBefore(c)'
               PROVE  Has(line'[c], "DISCONNECTED")
    BY <1>1 DEF Ended
  <2>1. c \in 1..sessions /\ c \in Session
    BY <1>1
  <2>2. Has(line[c], "DISCONNECTED")
    BY <1>3, <2>1 DEF OwnInv, Ended
  <2> QED
    BY <2>1, <2>2, SameLate
<1>5. Heard'
  <2>1. CASE sessions = 0
    BY <2>1 DEF OwnInv, Heard
  <2>2. CASE sessions # 0
    <3> SUFFICES ASSUME NoneLateBefore(sessions)'
                 PROVE  (\E k \in 0..Len(line[sessions].events) : Reported(k))'
      BY <2>2 DEF Heard
    <3>1. sessions \in 1..sessions /\ sessions \in Session
      BY <1>1, <2>2
    <3>2. NoneLateBefore(sessions)
      BY <1>2, <1>1 DEF NoneLateBefore
    <3>3. PICK k \in 0..Len(line[sessions].events) : Reported(k)
      BY <2>2, <3>2 DEF OwnInv, Heard
    <3>4. line'[sessions'].events = line[sessions].events
      BY <3>1 DEF SameEvents
    <3>5. Told(k) <=> Told(k)'
      BY <3>4 DEF Told
    <3>6. Reported(k)'
      BY <3>3, <3>4, <3>5 DEF Reported
    <3> QED
      BY <3>4, <3>6
  <2> QED
    BY <2>1, <2>2
<1> QED
  BY <1>4, <1>5 DEF OwnInv

\* Nothing but the current connection can notify anything, as long as no other
\* is late.
LEMMA LineOwn ==
    ASSUME Typed, OwnInv, NEW c \in Session, c <= sessions,
           NEW codes, Notifies(c, codes)
    PROVE  OwnInv'
<1>1. /\ sessions \in Nat /\ \A d \in 1..sessions : d \in Session
      /\ c \in 1..sessions
  BY SessionNumbers
<1>2. /\ sessions' = sessions /\ connection' = connection
      /\ connectEnabled' = connectEnabled
  BY DEF Notifies, controlVars, buttons
<1>3. ASSUME NEW d \in 1..sessions, NoneLateBefore(d)'
      PROVE  NoneLateBefore(d)
  BY <1>1, <1>3, EventsGrow DEF NoneLateBefore
<1>4. Unborn'
  BY <1>1, <1>2 DEF OwnInv, Unborn, Notifies
<1>5. Ended'
  <2> SUFFICES ASSUME NEW d \in 1..(sessions - 1), NoneLateBefore(d)'
               PROVE  Has(line'[d], "DISCONNECTED")
    BY <1>1, <1>2 DEF Ended
  <2>1. d \in 1..sessions /\ d \in Session
    BY <1>1
  <2>2. Has(line[d], "DISCONNECTED")
    BY <1>3, <2>1 DEF OwnInv, Ended
  <2> QED
    BY <2>1, <2>2, EventsGrow
<1>6. Heard'
  <2>1. sessions # 0 /\ sessions \in 1..sessions
    BY <1>1
  <2> SUFFICES ASSUME NoneLateBefore(sessions)'
               PROVE  (\E k \in 0..Len(line[sessions].events) : Reported(k))'
    <3>1. sessions' # 0
      BY <1>2, <2>1
    <3> QED
      BY <3>1 DEF Heard
  <2>2. NoneLateBefore(sessions)
    BY <1>1, <1>2, EventsGrow DEF NoneLateBefore
  <2>3. PICK k \in 0..Len(line[sessions].events) : Reported(k)
    BY <2>1, <2>2 DEF OwnInv, Heard
  <2>4. CASE c = sessions
    <3> DEFINE e == line[sessions].events
               f == line'[sessions].events
               rest == SubSeq(e, k + 1, Len(e))
    <3>1. e \in Seq(Code) /\ codes \in Seq(Code) /\ f = e \o codes
      BY <2>4 DEF Typed, LineType, Notifies
    <3>2. mainQueue = rest /\ mainQueue' = mainQueue \o codes
      BY <2>3 DEF Reported, Notifies
    <3>3. k \in 0..Len(e)
      BY <2>3
    <3>4. Told(k)' <=> Told(k)
      <4>1. \A i \in 1..k : f[i] = e[i]
        BY <3>1, <3>3
      <4> QED
        BY <1>2, <4>1 DEF Told
    <3> HIDE DEF e, f
    <3>5. k \in 0..Len(f)
      BY <3>1, <3>3
    <3>6. rest \o codes = SubSeq(f, k + 1, Len(f))
      BY <3>1, <3>3, RestGrows
    <3>7. Reported(k)'
      BY <1>2, <2>3, <3>2, <3>4, <3>6 DEF Reported, f
    <3> QED
      BY <1>2, <3>5, <3>7 DEF f
  <2>5. CASE c # sessions
    <3>1. c \in 1..(sessions - 1) /\ NoneLateBefore(c)
      BY <1>1, <2>2, <2>5 DEF NoneLateBefore
    <3>2. Has(line[c], "DISCONNECTED")
      BY <3>1 DEF OwnInv, Ended
    <3>3. ~Late(c)'
      BY <1>2, <3>1 DEF NoneLateBefore
    <3>4. codes = <<>>
      BY <3>2, <3>3, EventsGrow
    <3>5. mainQueue' = mainQueue
      BY <3>4 DEF Notifies, Typed
    <3>6. line'[sessions] = line[sessions]
      BY <1>1, <2>1, <2>5 DEF Notifies
    <3>7. Told(k)' <=> Told(k)
      BY <1>2, <3>6 DEF Told
    <3>8. Reported(k)'
      BY <1>2, <2>3, <3>5, <3>6, <3>7 DEF Reported
    <3> QED
      BY <1>2, <3>6, <3>8
  <2> QED
    BY <2>4, <2>5
<1> QED
  BY <1>4, <1>5, <1>6 DEF OwnInv

\* A task that the main thread dispatches notifies nothing.
LEMMA SendKeeps ==
    ASSUME Typed, NEW object \in 0..MaxSessions, NEW task \in LineTask,
           Send(object, task)
    PROVE  /\ line' \in [Session -> LineType]
           /\ SameEvents
           /\ \A d \in Session \ {object} : line'[d] = line[d]
           /\ object \in Session => line'[object] = Dispatched(line[object], task)
<1>1. \A d \in Session : d # 0
  BY SessionNumbers
<1>2. CASE object = 0
  BY <1>1, <1>2 DEF Send, nil, Typed, SameEvents
<1>3. CASE object # 0
  <2>1. object \in Session /\ line[object] \in LineType
    BY <1>3, TerminalAssumption DEF Session, Typed
  <2> DEFINE next == Dispatched(line[object], task)
  <2>2. next \in LineType /\ next.events = line[object].events
    BY <2>1, DispatchedFields
  <2>3. line' = [line EXCEPT ![object] = next]
    BY <1>3 DEF Send, nil
  <2> HIDE DEF next
  <2>4. /\ line' \in [Session -> LineType] /\ line'[object] = next
        /\ \A d \in Session \ {object} : line'[d] = line[d]
    BY <2>1, <2>2, <2>3 DEF Typed
  <2>5. SameEvents
    BY <2>2, <2>4 DEF SameEvents
  <2> QED
    BY <2>4, <2>5 DEF next
<1> QED
  BY <1>2, <1>3

\* The next connection is asked for when the current one has ended and, unless
\* that one is late, has no event left.
LEMMA ConnectOwn ==
    ASSUME Typed, OwnInv, PressConnect
    PROVE  Typed' /\ OwnInv'
<1>1. /\ sessions \in Nat /\ sessions < MaxSessions /\ connectEnabled
      /\ \A d \in 1..sessions : d \in Session
      /\ Session \subseteq Nat \ {0} /\ MaxSessions \in Nat
  BY SessionNumbers DEF PressConnect
<1>2. /\ mainQueue' = mainQueue /\ connectEnabled' = FALSE
      /\ UNCHANGED <<disconnectEnabled, asking>>
  BY DEF PressConnect
<1>3. CASE state # "Disconnected" /\ UNCHANGED <<controlVars, line>>
  <2>1. SameEvents /\ sessions' = sessions /\ connection' = connection
    BY <1>3 DEF SameEvents, controlVars
  <2>2. Typed'
    BY <1>2, <1>3 DEF Typed, controlVars
  <2>3. Unborn'
    BY <1>3, <2>1 DEF OwnInv, Unborn
  <2> QED
    BY <1>2, <2>1, <2>2, <2>3, OwnFrame
<1>4. CASE /\ state = "Disconnected" /\ state' = "Connected"
           /\ sessions' = sessions + 1 /\ connection' = sessions'
           /\ Send(sessions', "connect")
  <2>1. /\ sessions' \in Session /\ sessions' \in 0..MaxSessions
        /\ connection' \in 0..MaxSessions
    BY <1>1, <1>4 DEF Session
  <2>2. /\ line' \in [Session -> LineType] /\ SameEvents
        /\ \A d \in Session \ {sessions'} : line'[d] = line[d]
    BY <1>4, <2>1, SendKeeps DEF LineTask
  <2>3. Typed'
    BY <1>2, <1>4, <2>1, <2>2 DEF Typed
  <2>4. Unborn'
    <3> SUFFICES ASSUME NEW c \in Session, c > sessions'
                 PROVE  line'[c] = Allocated /\ connection' < c
      BY DEF Unborn
    <3>1. c > sessions /\ c # sessions' /\ c \in Nat
      BY <1>1, <1>4
    <3> QED
      BY <1>4, <2>2, <3>1 DEF OwnInv, Unborn
  <2>5. ASSUME NEW c \in 1..(sessions + 1), NoneLateBefore(c)'
        PROVE  NoneLateBefore(c)
    <3>1. \A d \in 1..(c - 1) : d \in Session
      BY <1>1
    <3> QED
      BY <2>2, <2>5, <3>1, SameLate DEF NoneLateBefore
  <2>6. ASSUME sessions # 0, NoneLateBefore(sessions)
        PROVE  Has(line[sessions], "DISCONNECTED")
    <3>1. PICK k \in 0..Len(line[sessions].events) : Reported(k)
      BY <2>6 DEF OwnInv, Heard
    <3>2. PICK i \in 1..k : line[sessions].events[i] = "DISCONNECTED"
      BY <1>1, <3>1 DEF Reported, Told
    <3>3. line[sessions] \in LineType
      BY <1>1, <2>6 DEF Typed
    <3>4. i \in DOMAIN line[sessions].events
      BY <3>1, <3>2, <3>3 DEF LineType
    <3> QED
      BY <3>2, <3>4 DEF Has
  <2>7. Ended'
    <3> SUFFICES ASSUME NEW c \in 1..(sessions' - 1), NoneLateBefore(c)'
                 PROVE  Has(line'[c], "DISCONNECTED")
      BY DEF Ended
    <3>1. c \in 1..sessions /\ c \in Session
      BY <1>1, <1>4
    <3>2. NoneLateBefore(c)
      BY <1>1, <2>5, <3>1
    <3>3. Has(line[c], "DISCONNECTED")
      <4>1. CASE c = sessions
        BY <1>1, <2>6, <3>1, <3>2, <4>1
      <4>2. CASE c # sessions
        BY <1>1, <3>1, <3>2, <4>2 DEF OwnInv, Ended
      <4> QED
        BY <4>1, <4>2
    <3> QED
      BY <2>2, <3>1, <3>3, SameLate
  <2>8. ASSUME NoneLateBefore(sessions)'
        PROVE  mainQueue = <<>>
    <3>1. CASE sessions = 0
      BY <3>1 DEF OwnInv, Heard
    <3>2. CASE sessions # 0
      <4> DEFINE e == line[sessions].events
      <4>1. sessions \in 1..(sessions' - 1) /\ sessions \in Session
        BY <1>1, <1>4, <3>2
      <4>2. \A d \in 1..(sessions' - 1) : ~Late(d)
        <5>1. \A d \in 1..(sessions' - 1) : d \in Session
          BY <1>1, <1>4
        <5> QED
          BY <2>2, <2>8, <5>1, SameLate DEF NoneLateBefore
      <4>3. NoneLateBefore(sessions) /\ ~Late(sessions)
        BY <1>1, <1>4, <4>1, <4>2 DEF NoneLateBefore
      <4>4. PICK k \in 0..Len(e) : Reported(k)
        BY <3>2, <4>3 DEF OwnInv, Heard
      <4>5. e \in Seq(Code)
        BY <4>1 DEF Typed, LineType
      <4>6. mainQueue = SubSeq(e, k + 1, Len(e))
        BY <4>4 DEF Reported
      <4>7. PICK i \in 1..k : e[i] = "DISCONNECTED"
        BY <1>1, <4>4 DEF Reported, Told
      <4>8. \A j \in DOMAIN e : ~(i < j)
        <5>1. i \in DOMAIN e
          BY <4>4, <4>5, <4>7
        <5> QED
          BY <4>3, <4>7, <5>1 DEF Late
      <4> HIDE DEF e
      <4>9. k = Len(e)
        <5>1. k \in Nat /\ k <= Len(e) /\ i \in Nat /\ 1 <= i /\ i <= k
          BY <4>4, <4>5, <4>7
        <5>2. Len(e) \in DOMAIN e /\ Len(e) \in Nat
          BY <4>5, <5>1
        <5> QED
          BY <4>8, <5>1, <5>2
      <4> QED
        BY <4>5, <4>6, <4>9
    <3> QED
      BY <3>1, <3>2
  <2>9. Heard'
    <3>1. sessions' # 0
      BY <1>1, <1>4
    <3> SUFFICES ASSUME NoneLateBefore(sessions)'
                 PROVE  (\E k \in 0..Len(line[sessions].events) : Reported(k))'
      BY <3>1 DEF Heard
    <3> DEFINE e == line'[sessions'].events
    <3>2. e = <<>>
      <4>1. line[sessions'] = Allocated
        BY <1>1, <1>4, <2>1 DEF OwnInv, Unborn
      <4> QED
        BY <2>1, <2>2, <4>1 DEF SameEvents, Allocated
    <3>3. mainQueue' = <<>>
      BY <1>2, <2>8
    <3>4. mainQueue' = SubSeq(e, 0 + 1, Len(e)) /\ 0 \in 0..Len(e)
      BY <3>2, <3>3
    <3>5. Reported(0)'
      BY <1>2, <1>4, <3>4 DEF Reported
    <3> QED
      BY <3>4, <3>5
  <2> QED
    BY <2>3, <2>4, <2>7, <2>9 DEF OwnInv
<1> QED
  BY <1>3, <1>4 DEF PressConnect, connect

\* A call to the connection of the controller or to the last one.
LEMMA CallOwn ==
    ASSUME Typed, OwnInv, PressDisconnect \/ Type
    PROVE  Typed' /\ OwnInv'
<1>1. /\ sessions' = sessions /\ connection' = connection
      /\ mainQueue' = mainQueue
      /\ connectEnabled' => connectEnabled
  BY DEF PressDisconnect, disconnect, Type, controlVars, buttons
<1>2. /\ state' \in {"Disconnected", "Connected"} /\ asking' \in BOOLEAN
      /\ connectEnabled' \in BOOLEAN /\ disconnectEnabled' = disconnectEnabled
  BY DEF PressDisconnect, disconnect, Type, controlVars, buttons, Typed
<1>3. /\ line' \in [Session -> LineType] /\ SameEvents
      /\ \A d \in Session : d > sessions => line'[d] = line[d]
  <2>1. CASE UNCHANGED line
    BY <2>1 DEF Typed, SameEvents
  <2>2. CASE connection # nil /\ Send(connection, "disconnect")
    <3>1. connection \in 0..MaxSessions /\ "disconnect" \in LineTask
      BY DEF Typed, LineTask
    <3>2. \A d \in Session : d > sessions => d # connection
      BY SessionNumbers DEF OwnInv, Unborn
    <3> QED
      BY <2>2, <3>1, <3>2, SendKeeps
  <2>3. CASE Send(sessions, "write")
    <3>1. sessions \in 0..MaxSessions /\ "write" \in LineTask
      BY DEF Typed, LineTask
    <3>2. \A d \in Session : d > sessions => d # sessions
      BY SessionNumbers
    <3> QED
      BY <2>3, <3>1, <3>2, SendKeeps
  <2> QED
    BY <2>1, <2>2, <2>3 DEF PressDisconnect, disconnect, Type
<1>4. Typed'
  BY <1>1, <1>2, <1>3 DEF Typed
<1>5. Unborn'
  BY <1>1, <1>3 DEF OwnInv, Unborn
<1> QED
  BY <1>1, <1>3, <1>4, <1>5, OwnFrame

\* The end of the current connection lets it go.
LEMMA DeliverOwn ==
    ASSUME Typed, OwnInv, Deliver
    PROVE  Typed' /\ OwnInv'
<1>1. /\ sessions \in Nat /\ MaxSessions \in Nat
      /\ mainQueue \in Seq(Code) /\ mainQueue # <<>>
      /\ mainQueue' = Tail(mainQueue) /\ line' = line
  BY SessionNumbers DEF Typed, Deliver
<1>2. PICK method \in {"connected", "disconnected", "nothing"} :
        /\ signalError(Head(mainQueue), method)
        /\ connectEnabled' = (connectEnabled \/ method = "disconnected")
        /\ disconnectEnabled' = (method = "connected"
                                  \/ (disconnectEnabled /\ method = "nothing"))
        /\ asking' = (asking /\ method # "disconnected")
  BY DEF Deliver
<1>3. /\ sessions' = sessions
      /\ state' \in {"Disconnected", "Connected"}
      /\ \/ Head(mainQueue) = "CONNECTED" /\ connection' = connection
            /\ method = "connected"
         \/ Head(mainQueue) = "DISCONNECTED" /\ connection' = nil
  BY <1>2 DEF signalError, controlVars, Typed
<1>4. Typed'
  <2>1. connection' \in 0..MaxSessions
    BY <1>1, <1>3 DEF Typed, nil
  <2>2. mainQueue' \in Seq(Code)
    BY <1>1
  <2>3. /\ connectEnabled' \in BOOLEAN /\ disconnectEnabled' \in BOOLEAN
        /\ asking' \in BOOLEAN
    BY <1>2, Zenon DEF Typed
  <2> QED
    BY <1>1, <1>3, <2>1, <2>2, <2>3 DEF Typed
<1>5. Unborn'
  BY <1>1, <1>3, SessionNumbers DEF OwnInv, Unborn, nil
<1>6. Ended'
  BY <1>1, <1>3 DEF OwnInv, Ended, NoneLateBefore, Late
<1>7. Heard'
  <2>1. sessions # 0
    BY <1>1 DEF OwnInv, Heard
  <2> SUFFICES ASSUME NoneLateBefore(sessions)'
               PROVE  (\E k \in 0..Len(line[sessions].events) : Reported(k))'
    BY <1>3, <2>1 DEF Heard
  <2> DEFINE e == line[sessions].events
  <2>2. NoneLateBefore(sessions)
    BY <1>1, <1>3 DEF NoneLateBefore, Late
  <2>3. PICK k \in 0..Len(e) : Reported(k)
    BY <2>1, <2>2 DEF OwnInv, Heard
  <2>4. e \in Seq(Code) /\ e' = e
    BY <1>1, <1>3, <2>1, SessionNumbers DEF Typed, LineType
  <2>5. mainQueue = SubSeq(e, k + 1, Len(e))
    BY <2>3 DEF Reported
  <2>6. Told(k) => Told(k + 1)'
    BY <1>1, <1>3, <2>3 DEF Told
  <2>7. e[k + 1] = "DISCONNECTED" => Told(k + 1)'
    <3>1. k + 1 \in 1..(k + 1)
      BY <2>3
    <3> QED
      BY <1>1, <1>3, <3>1 DEF Told
  <2>8. connection = sessions \/ Told(k)
    BY <2>3 DEF Reported
  <2>9. connectEnabled => Told(k)
    BY <2>3 DEF Reported
  <2> HIDE DEF e
  <2>10. k < Len(e)
    <3>1. CASE k = Len(e)
      BY <1>1, <2>4, <2>5, <3>1
    <3> QED
      BY <2>3, <2>4, <3>1
  <2>11. /\ Head(mainQueue) = e[k + 1]
         /\ Tail(mainQueue) = SubSeq(e, (k + 1) + 1, Len(e))
    BY <2>3, <2>4, <2>5, <2>10
  <2>12. connection' = sessions' \/ Told(k + 1)'
    BY <1>3, <2>6, <2>7, <2>8, <2>11
  <2>13. connectEnabled' => Told(k + 1)'
    <3>1. CASE Head(mainQueue) = "CONNECTED"
      <4>1. connectEnabled' = connectEnabled
        BY <1>2, <1>3, <3>1 DEF Typed
      <4> QED
        BY <2>6, <2>9, <4>1
    <3>2. CASE Head(mainQueue) = "DISCONNECTED"
      BY <2>7, <2>11, <3>2
    <3> QED
      BY <1>3, <3>1, <3>2
  <2>14. mainQueue' = SubSeq(e', (k + 1) + 1, Len(e'))
    BY <1>1, <2>4, <2>11
  <2>15. k + 1 \in 0..Len(e')
    BY <2>3, <2>4, <2>10
  <2>16. Reported(k + 1)'
    BY <2>12, <2>13, <2>14 DEF Reported, e
  <2> QED
    BY <2>15, <2>16 DEF e
<1> QED
  BY <1>4, <1>5, <1>6, <1>7 DEF OwnInv

LEMMA OwnStep == Typed /\ OwnInv /\ [Next]_vars => Typed' /\ OwnInv'
<1> SUFFICES ASSUME Typed, OwnInv, [Next]_vars
             PROVE  Typed' /\ OwnInv'
  OBVIOUS
<1>1. CASE PressConnect
  BY <1>1, ConnectOwn
<1>2. CASE PressDisconnect \/ Type
  BY <1>2, CallOwn
<1>3. CASE Deliver
  BY <1>3, DeliverOwn
<1>4. ASSUME NEW c \in Session, Work(c) \/ SourceFires(c)
      PROVE  Typed' /\ OwnInv'
  <2>1. c <= sessions /\ \E codes : Notifies(c, codes)
    BY <1>4, LineSteps DEF OwnInv
  <2>2. PICK codes : Notifies(c, codes)
    BY <2>1
  <2>3. OwnInv'
    BY <2>1, <2>2, LineOwn
  <2>4. Typed'
    BY <2>2 DEF Notifies, Typed, controlVars, buttons
  <2> QED
    BY <2>3, <2>4
<1>5. CASE UNCHANGED vars
  <2>1. SameEvents
    BY <1>5 DEF vars, SameEvents
  <2>2. Typed' /\ Unborn'
    BY <1>5 DEF vars, controlVars, buttons, Typed, OwnInv, Unborn
  <2> QED
    BY <1>5, <2>1, <2>2, OwnFrame DEF vars, controlVars, buttons
<1> QED
  BY <1>1, <1>2, <1>3, <1>4, <1>5 DEF Next

LEMMA OwnInit == Init => Typed /\ OwnInv
<1> SUFFICES ASSUME Init PROVE Typed /\ OwnInv
  OBVIOUS
<1>1. Allocated \in LineType
  BY DEF Allocated, LineType
<1>2. Typed
  <2>1. line \in [Session -> LineType]
    BY <1>1 DEF Init
  <2>2. mainQueue \in Seq(Code)
    BY DEF Init
  <2>3. connection \in 0..MaxSessions /\ sessions \in 0..MaxSessions
    BY TerminalAssumption DEF Init, nil
  <2>4. /\ state \in {"Disconnected", "Connected"} /\ asking \in BOOLEAN
        /\ connectEnabled \in BOOLEAN /\ disconnectEnabled \in BOOLEAN
    BY DEF Init
  <2> QED
    BY <2>1, <2>2, <2>3, <2>4, Zenon DEF Typed
<1>3. OwnInv
  BY SessionNumbers, <1>2
     DEF Init, OwnInv, Unborn, Ended, Heard, nil
<1> QED
  BY <1>2, <1>3

\* The next connection is allocated when the current one has ended, and all
\* that is on its way to signalError then is what an earlier connection
\* notified after its end (TelnetTerminal.m:343, 511).
THEOREM ConnectionInvariant == Spec => [](Typed /\ OwnInv)
BY OwnInit, OwnStep, PTL DEF Spec

\* Every connection that has not ended is the controller's, or an earlier one
\* reported its end a second time (TelnetTerminal.m:511).
THEOREM SessionsOwned == Spec => []SessionsAreOwned
<1>1. Typed /\ OwnInv => SessionsAreOwned
  <2> SUFFICES ASSUME Typed, OwnInv, NEW c \in Session, Live(c),
                      c # connection, \A d \in 1..(c - 1) : ~Late(d)
               PROVE  FALSE
    BY DEF SessionsAreOwned
  <2>1. /\ c <= sessions /\ ~Has(line[c], "DISCONNECTED")
        /\ c \in Nat \ {0} /\ sessions \in Nat
    BY SessionNumbers DEF Live
  <2>2. NoneLateBefore(c)
    BY DEF NoneLateBefore
  <2>3. CASE c < sessions
    BY <2>1, <2>2, <2>3 DEF OwnInv, Ended
  <2>4. CASE c = sessions
    <3> DEFINE e == line[c].events
    <3>1. PICK k \in 0..Len(e) : Reported(k)
      BY <2>1, <2>2, <2>4 DEF OwnInv, Heard
    <3>2. Told(k)
      BY <2>4, <3>1 DEF Reported
    <3>3. e \in Seq(Code)
      BY DEF Typed, LineType
    <3>4. PICK i \in 1..k : e[i] = "DISCONNECTED"
      BY <2>4, <3>2 DEF Told
    <3>5. i \in DOMAIN e
      BY <3>1, <3>3, <3>4
    <3> QED
      BY <2>1, <3>4, <3>5 DEF Has
  <2> QED
    BY <2>1, <2>3, <2>4
<1> QED
  BY <1>1, ConnectionInvariant, PTL

-----------------------------------------------------------------------------
(***************************************************************************)
(* The queue of one connection.                                            *)
(***************************************************************************)

LEMMA QueueAfterTask ==
    ASSUME NEW q \in Seq(LineTask), q # <<>>, NEW tasks \in Seq(LineTask)
    PROVE  LET r == Tail(q) \o tasks
           IN  /\ Len(q) \in Nat \ {0} /\ Len(tasks) \in Nat
               /\ Len(r) = Len(q) - 1 + Len(tasks)
               /\ \A i \in 1..(Len(q) - 1) : r[i] = q[i + 1]
               /\ \A i \in 1..Len(tasks) : r[Len(q) - 1 + i] = tasks[i]
               /\ q[1] = Head(q)
<1> DEFINE rest == Tail(q)
           r == rest \o tasks
<1>1. /\ rest \in Seq(LineTask) /\ Len(rest) = Len(q) - 1
      /\ \A i \in 1..(Len(q) - 1) : rest[i] = q[i + 1]
      /\ Len(q) \in Nat \ {0} /\ q[1] = Head(q)
  OBVIOUS
<1> HIDE DEF rest
<1>2. /\ Len(tasks) \in Nat
      /\ Len(r) = Len(rest) + Len(tasks)
      /\ \A i \in 1..Len(rest) : r[i] = rest[i]
      /\ \A i \in 1..Len(tasks) : r[Len(rest) + i] = tasks[i]
  <2>1. rest \in Seq(LineTask)
    BY <1>1
  <2>2. Len(r) = Len(rest) + Len(tasks) /\ Len(tasks) \in Nat
    BY <2>1
  <2>3. \A i \in 1..Len(rest) : r[i] = rest[i]
    BY <2>1
  <2>4. \A i \in 1..Len(tasks) : r[Len(rest) + i] = tasks[i]
    BY <2>1
  <2> QED
    BY <2>2, <2>3, <2>4
<1> HIDE DEF r
<1>3. /\ Len(r) = Len(q) - 1 + Len(tasks)
      /\ \A i \in 1..(Len(q) - 1) : r[i] = q[i + 1]
      /\ \A i \in 1..Len(tasks) : r[Len(q) - 1 + i] = tasks[i]
  BY <1>1, <1>2
<1> QED
  BY <1>1, <1>2, <1>3 DEF r, rest

\* What waits is what waited behind the task and what the task dispatched.
LEMMA HeldAfterTask ==
    ASSUME NEW q \in Seq(LineTask), q # <<>>, NEW tasks \in Seq(LineTask),
           NEW task
    PROVE  LET r == Tail(q) \o tasks
           IN  /\ Holds(r, task) => \/ \E i \in 2..Len(q) : q[i] = task
                                    \/ Holds(tasks, task)
               /\ Holds(q, task) /\ Head(q) # task => Holds(r, task)
               /\ Holds(tasks, task) => Holds(r, task)
<1> DEFINE r == Tail(q) \o tasks
           n == Len(q)
<1>1. /\ n \in Nat \ {0} /\ Len(tasks) \in Nat
      /\ Len(r) = n - 1 + Len(tasks)
      /\ \A i \in 1..(n - 1) : r[i] = q[i + 1]
      /\ \A i \in 1..Len(tasks) : r[n - 1 + i] = tasks[i]
      /\ q[1] = Head(q)
  BY QueueAfterTask
<1> HIDE DEF r
<1>2. ASSUME Holds(r, task)
      PROVE  (\E i \in 2..n : q[i] = task) \/ Holds(tasks, task)
  <2>1. PICK i \in 1..Len(r) : r[i] = task
    BY <1>2 DEF Holds
  <2>2. CASE i <= n - 1
    <3>1. i \in 1..(n - 1) /\ i + 1 \in 2..n
      BY <1>1, <2>1, <2>2
    <3> QED
      BY <1>1, <2>1, <3>1
  <2>3. CASE i > n - 1
    <3> DEFINE j == i - (n - 1)
    <3>1. j \in 1..Len(tasks) /\ i = n - 1 + j
      BY <1>1, <2>1, <2>3
    <3> HIDE DEF j
    <3> QED
      BY <1>1, <2>1, <3>1 DEF Holds
  <2> QED
    BY <1>1, <2>1, <2>2, <2>3
<1>3. ASSUME Holds(q, task), Head(q) # task
      PROVE  Holds(r, task)
  <2>1. PICK i \in 1..n : q[i] = task
    BY <1>3 DEF Holds
  <2> DEFINE j == i - 1
  <2>2. j \in 1..(n - 1) /\ i = j + 1 /\ j \in 1..Len(r)
    BY <1>1, <1>3, <2>1
  <2> HIDE DEF j
  <2> QED
    BY <1>1, <2>1, <2>2 DEF Holds
<1>4. ASSUME Holds(tasks, task)
      PROVE  Holds(r, task)
  <2>1. PICK i \in 1..Len(tasks) : tasks[i] = task
    BY <1>4 DEF Holds
  <2>2. n - 1 + i \in 1..Len(r)
    BY <1>1, <2>1
  <2> QED
    BY <1>1, <2>1, <2>2 DEF Holds
<1> QED
  BY <1>2, <1>3, <1>4 DEF r

LEMMA DoomedAfterTask ==
    ASSUME NEW q \in Seq(LineTask), q # <<>>, NEW tasks \in Seq(LineTask),
           Head(q) # "disconnect"
    PROVE  LET r == Tail(q) \o tasks
           IN  /\ Doomed(q) => Doomed(r)
               /\ Holds(r, "disconnect") /\ ~Holds(r, "source") => Doomed(r)
<1> DEFINE r == Tail(q) \o tasks
           n == Len(q)
<1>1. /\ n \in Nat \ {0} /\ Len(tasks) \in Nat
      /\ Len(r) = n - 1 + Len(tasks)
      /\ \A i \in 1..(n - 1) : r[i] = q[i + 1]
      /\ q[1] = Head(q)
  BY QueueAfterTask
<1> HIDE DEF r
<1>2. ASSUME Doomed(q)
      PROVE  Doomed(r)
  <2>1. PICK i \in 1..n : /\ q[i] = "disconnect"
                          /\ \A j \in 1..(i - 1) : q[j] # "source"
    BY <1>2 DEF Doomed
  <2> DEFINE k == i - 1
  <2>2. k \in 1..(n - 1) /\ i = k + 1 /\ k \in 1..Len(r)
    BY <1>1, <2>1
  <2> HIDE DEF k
  <2>3. r[k] = "disconnect"
    BY <1>1, <2>1, <2>2
  <2>4. ASSUME NEW j \in 1..(k - 1)
        PROVE  r[j] # "source"
    <3>1. j \in 1..(n - 1) /\ j + 1 \in 1..(i - 1)
      BY <1>1, <2>2
    <3> QED
      BY <1>1, <2>1, <3>1
  <2> QED
    BY <2>2, <2>3, <2>4 DEF Doomed
<1>3. ASSUME Holds(r, "disconnect"), ~Holds(r, "source")
      PROVE  Doomed(r)
  <2>1. PICK i \in 1..Len(r) : r[i] = "disconnect"
    BY <1>3 DEF Holds
  <2>2. \A j \in 1..(i - 1) : j \in 1..Len(r)
    BY <1>1, <2>1
  <2> QED
    BY <1>3, <2>1, <2>2 DEF Holds, Doomed
<1> QED
  BY <1>2, <1>3 DEF r

LEMMA BoundsAreNumbers == MaxQueue \in Nat /\ MaxFailures \in Nat
BY TerminalAssumption, LineAssumption

\* No source and no connect is dispatched by a task.
Plain(tasks) == \A i \in 1..Len(tasks) :
  tasks[i] \in {"disconnect", "writePassword"}

LEMMA FewArePlain ==
    ASSUME NEW tasks, Few(tasks)
    PROVE  /\ Plain(tasks) /\ tasks \in Seq(LineTask)
           /\ Len(tasks) \in {0, 1} /\ (Len(tasks) = 0 <=> tasks = <<>>)
           /\ tasks # <<>> => Holds(tasks, "disconnect")
<1>1. CASE tasks = <<>>
  BY <1>1 DEF Plain, LineTask
<1>2. CASE tasks = <<"disconnect">>
  BY <1>2 DEF Plain, LineTask, Holds
<1> QED
  BY <1>1, <1>2 DEF Few

\* The order is kept, and the connect that runs was the only one.
LEMMA OrderAfterTask ==
    ASSUME NEW s \in LineType, s.queue # <<>>, InOrder(s),
           NEW next, NEW tasks, NEW codes, Finished(s, next, tasks, codes),
           Plain(tasks)
    PROVE  /\ InOrder(next)
           /\ ~Holds(next.queue, "connect")
           /\ Holds(next.queue, "source") => Holds(s.queue, "source")
           /\ Head(s.queue) = "source" => ~Holds(next.queue, "source")
           /\ Head(s.queue) = "connect" => ~s.source /\ ~Holds(s.queue, "source")
<1> DEFINE q == s.queue
           r == next.queue
           n == Len(q)
<1>1. /\ q \in Seq(LineTask) /\ tasks \in Seq(LineTask)
      /\ r = Tail(q) \o tasks
  BY DEF LineType, Finished
<1>2. /\ n \in Nat \ {0} /\ Len(tasks) \in Nat
      /\ Len(r) = n - 1 + Len(tasks)
      /\ \A i \in 1..(n - 1) : r[i] = q[i + 1]
      /\ \A i \in 1..Len(tasks) : r[n - 1 + i] = tasks[i]
      /\ q[1] = Head(q)
  <2> HIDE DEF q, r
  <2>1. LET new == Tail(q) \o tasks
        IN  /\ Len(q) \in Nat \ {0} /\ Len(tasks) \in Nat
            /\ Len(new) = Len(q) - 1 + Len(tasks)
            /\ \A i \in 1..(Len(q) - 1) : new[i] = q[i + 1]
            /\ \A i \in 1..Len(tasks) : new[Len(q) - 1 + i] = tasks[i]
            /\ q[1] = Head(q)
    BY <1>1, QueueAfterTask DEF q
  <2> QED
    BY <1>1, <2>1
<1>3. /\ \A i \in 1..n : q[i] = "connect" =>
           i = 1 /\ ~s.source /\ ~Holds(q, "source")
      /\ \A i, j \in 1..n : q[i] = "source" /\ q[j] = "source" => i = j
  BY DEF InOrder
<1>4. ~Holds(tasks, "connect") /\ ~Holds(tasks, "source")
  BY DEF Plain, Holds
<1>5. ~Holds(r, "connect")
  <2>1. ~\E i \in 2..n : q[i] = "connect"
    BY <1>2, <1>3
  <2> QED
    BY <1>1, <1>4, <2>1, HeldAfterTask
<1> HIDE DEF q, r
<1>6. ASSUME Holds(r, "source")
      PROVE  \E i \in 2..n : q[i] = "source"
  BY <1>1, <1>4, <1>6, HeldAfterTask DEF q
<1>7. ASSUME NEW i \in 1..Len(r), r[i] = "source"
      PROVE  i \in 1..(n - 1) /\ i + 1 \in 1..n /\ q[i + 1] = "source"
  <2>1. CASE i <= n - 1
    <3>1. i \in 1..(n - 1) /\ i + 1 \in 1..n
      BY <1>2, <2>1
    <3> QED
      BY <1>2, <1>7, <3>1
  <2>2. CASE i > n - 1
    <3> DEFINE k == i - (n - 1)
    <3>1. k \in 1..Len(tasks) /\ i = n - 1 + k
      BY <1>2, <2>2
    <3> HIDE DEF k
    <3>2. tasks[k] = "source"
      BY <1>2, <1>7, <3>1
    <3> QED
      BY <1>4, <3>1, <3>2 DEF Holds
  <2> QED
    BY <1>2, <2>1, <2>2
<1>8. \A i, j \in 1..Len(r) : r[i] = "source" /\ r[j] = "source" => i = j
  <2> SUFFICES ASSUME NEW i \in 1..Len(r), NEW j \in 1..Len(r),
                      r[i] = "source", r[j] = "source"
               PROVE  i = j
    OBVIOUS
  <2>1. i + 1 = j + 1
    BY <1>3, <1>7
  <2> QED
    BY <1>2, <2>1
<1>9. InOrder(next)
  BY <1>5, <1>8 DEF InOrder, Holds, r
<1>10. Holds(r, "source") => Holds(q, "source")
  BY <1>2, <1>6 DEF Holds
<1>11. q[1] = "source" => ~Holds(r, "source")
  BY <1>2, <1>3, <1>6
<1>12. q[1] = "connect" => ~s.source /\ ~Holds(q, "source")
  BY <1>2, <1>3
<1> QED
  BY <1>2, <1>5, <1>9, <1>10, <1>11, <1>12 DEF q, r

LEMMA Shorter ==
    \A n \in Nat \ {0}, m \in {0, 1}, a \in {0, 1} :
      /\ n - 1 + m \in Nat /\ n - 1 + m <= n /\ n - 1 + m + a <= n + a
      /\ a \in Nat
OBVIOUS

\* A task that is no read and no disconnect makes way for one at most.
LEMMA FewBounded ==
    ASSUME NEW s \in LineType, s.queue # <<>>, InOrder(s), NEW a \in {0, 1},
           Bounded(s, a), Head(s.queue) \in {"write", "writePassword"},
           NEW next, NEW tasks, NEW codes, Finished(s, next, tasks, codes),
           Few(tasks), next.source = s.source
    PROVE  Bounded(next, a)
<1> DEFINE q == s.queue
           r == next.queue
           n == Len(q)
<1>1. /\ q \in Seq(LineTask) /\ tasks \in Seq(LineTask) /\ q # <<>>
      /\ r = Tail(q) \o tasks /\ Plain(tasks)
  BY FewArePlain DEF LineType, Finished
<1>2. /\ n \in Nat \ {0} /\ Len(r) = n - 1 + Len(tasks)
      /\ \A i \in 1..(n - 1) : r[i] = q[i + 1]
      /\ Len(tasks) \in {0, 1} /\ q[1] = Head(q)
  <2> HIDE DEF q, r
  <2>1. LET new == Tail(q) \o tasks
        IN  /\ Len(q) \in Nat \ {0}
            /\ Len(new) = Len(q) - 1 + Len(tasks)
            /\ \A i \in 1..(Len(q) - 1) : new[i] = q[i + 1]
            /\ q[1] = Head(q)
    BY <1>1, QueueAfterTask DEF q
  <2> QED
    BY <1>1, <2>1, FewArePlain
<1>3. Open(next) => Open(s) /\ s.source
  BY <1>1, OrderAfterTask DEF Open
<1>4. /\ Holds(r, "source") <=> Holds(q, "source")
      /\ Holds(q, "disconnect") => Holds(r, "disconnect")
      /\ Holds(tasks, "disconnect") => Holds(r, "disconnect")
      /\ Doomed(q) => Doomed(r)
  <2>1. Head(q) # "source" /\ Head(q) # "disconnect"
    OBVIOUS
  <2>2. Holds(r, "source") => Holds(q, "source")
    BY <1>1, OrderAfterTask
  <2> HIDE DEF q, r
  <2>3. LET new == Tail(q) \o tasks
        IN  /\ Holds(q, "source") => Holds(new, "source")
            /\ Holds(q, "disconnect") => Holds(new, "disconnect")
            /\ Holds(tasks, "disconnect") => Holds(new, "disconnect")
            /\ Doomed(q) => Doomed(new)
    BY <1>1, <2>1, HeldAfterTask, DoomedAfterTask
  <2> QED
    BY <1>1, <2>2, <2>3
<1>5. ASSUME next.source, Holds(r, "source"), ~Holds(r, "disconnect"),
             r[Len(r)] # "source"
      PROVE  n <= MaxQueue /\ Len(tasks) = 0
  <2>1. Len(tasks) = 0
    BY <1>4, <1>5, FewArePlain
  <2>2. n - 1 \in 1..(n - 1) /\ Len(r) = n - 1
    BY <1>2, <1>5, <2>1 DEF Holds
  <2>3. q[n] # "source"
    <3>1. r[n - 1] = q[n - 1 + 1]
      BY <1>2, <2>2
    <3> QED
      BY <1>2, <1>5, <2>2, <3>1
  <2> QED
    BY <1>4, <1>5, <2>1, <2>3 DEF Bounded
<1>6. /\ n + a <= MaxQueue + MaxFailures + 4
      /\ Open(next) /\ ~Holds(r, "source") => n + a <= MaxQueue + MaxFailures + 3
      /\ Open(next) /\ ~Doomed(r) /\ Holds(r, "source") => n + a <= MaxQueue + 3
      /\ Open(next) /\ ~Doomed(r) /\ ~Holds(r, "source") => n <= MaxQueue + 1
  BY <1>3, <1>4 DEF Bounded
<1>7. /\ Len(r) + a <= n + a /\ Len(r) <= n /\ Len(r) \in Nat
      /\ a \in Nat /\ n \in Nat
  <2>1. /\ Len(r) = n - 1 + Len(tasks) /\ Len(tasks) \in {0, 1}
        /\ n \in Nat \ {0}
    BY <1>2
  <2> HIDE DEF q, r, n
  <2> QED
    BY <2>1, Shorter
<1> HIDE DEF q, r, n
<1> QED
  BY <1>5, <1>6, <1>7, BoundsAreNumbers DEF Bounded, r

LEMMA ConnectBounded ==
    ASSUME NEW s \in LineType, s.queue # <<>>, InOrder(s), NEW a \in {0, 1},
           Bounded(s, a), Head(s.queue) = "connect",
           NEW next, NEW tasks, Finished(s, next, tasks, <<>>), Few(tasks),
           tasks = <<>> \/ ~next.source
    PROVE  Bounded(next, a)
<1> DEFINE q == s.queue
           r == next.queue
           n == Len(q)
<1>1. /\ q \in Seq(LineTask) /\ tasks \in Seq(LineTask) /\ q # <<>>
      /\ r = Tail(q) \o tasks /\ Plain(tasks)
  BY FewArePlain DEF LineType, Finished
<1>2. /\ n \in Nat \ {0} /\ Len(r) = n - 1 + Len(tasks)
      /\ Len(tasks) \in {0, 1} /\ q[1] = Head(q)
  <2> HIDE DEF q, r
  <2>1. LET new == Tail(q) \o tasks
        IN  /\ Len(q) \in Nat \ {0}
            /\ Len(new) = Len(q) - 1 + Len(tasks)
            /\ q[1] = Head(q)
    BY <1>1, QueueAfterTask DEF q
  <2> QED
    BY <1>1, <2>1, FewArePlain
<1>3. Open(s)
  BY <1>2 DEF Open, Holds
<1>4. /\ ~Holds(r, "connect") /\ ~Holds(r, "source") /\ ~Holds(q, "source")
  BY <1>1, OrderAfterTask
<1>5. Open(next) => next.source /\ Len(r) = n - 1
  BY <1>2, <1>4 DEF Open
<1>6. Doomed(q) => Doomed(r)
  <2>1. Head(q) # "disconnect"
    OBVIOUS
  <2> HIDE DEF q, r
  <2>2. LET new == Tail(q) \o tasks IN Doomed(q) => Doomed(new)
    BY <1>1, <2>1, DoomedAfterTask
  <2> QED
    BY <1>1, <2>2
<1>7. /\ n + a <= MaxQueue + MaxFailures + 3
      /\ ~Doomed(r) => n <= MaxQueue + 1
  <2>1. n + a <= MaxQueue + MaxFailures + 3
    BY <1>3, <1>4 DEF Bounded
  <2>2. ~Doomed(q) => n <= MaxQueue + 1
    BY <1>3, <1>4 DEF Bounded
  <2> QED
    BY <1>6, <2>1, <2>2
<1> HIDE DEF q, r, n
<1>8. /\ Len(r) <= n /\ Len(r) \in Nat /\ a \in Nat /\ n \in Nat
  BY <1>2, Shorter
<1> QED
  BY <1>4, <1>5, <1>7, <1>8, BoundsAreNumbers DEF Bounded, r

\* Behind a disconnect no data is read, so what a read finds was typed.
LEMMA ReadBounded ==
    ASSUME NEW s \in LineType, s.queue # <<>>, InOrder(s), NEW a \in {0, 1},
           Bounded(s, a), Head(s.queue) = "source",
           NEW next, NEW tasks, NEW codes, Finished(s, next, tasks, codes),
           next.source = s.source, ~s.source => tasks = <<>>,
           Len(tasks) <= MaxFailures + 1, Plain(tasks),
           Len(tasks) <= 1 \/ tasks[1] = "disconnect"
    PROVE  Bounded(next, a)
<1> DEFINE q == s.queue
           r == next.queue
           n == Len(q)
           m == Len(tasks)
<1>1. /\ q \in Seq(LineTask) /\ tasks \in Seq(LineTask) /\ q # <<>>
      /\ r = Tail(q) \o tasks
  BY DEF LineType, Finished
<1>2. /\ n \in Nat \ {0} /\ m \in Nat /\ Len(r) = n - 1 + m
      /\ q[1] = "source"
  <2> HIDE DEF q, r
  <2>1. LET new == Tail(q) \o tasks
        IN  /\ Len(q) \in Nat \ {0} /\ Len(tasks) \in Nat
            /\ Len(new) = Len(q) - 1 + Len(tasks)
            /\ q[1] = Head(q)
    BY <1>1, QueueAfterTask DEF q
  <2> QED
    BY <1>1, <2>1 DEF q
<1>3. /\ ~Holds(r, "connect") /\ ~Holds(r, "source")
  BY <1>1, OrderAfterTask
<1>4. n + a <= MaxQueue + MaxFailures + 4
  BY DEF Bounded
<1>5. CASE ~s.source
  <2>1. ~Open(next) /\ ~next.source
    BY <1>3, <1>5 DEF Open
  <2>2. m = 0
    BY <1>5
  <2> HIDE DEF q, r, n, m
  <2>3. Len(r) + a <= MaxQueue + MaxFailures + 4
    BY <1>2, <1>4, <2>2, BoundsAreNumbers
  <2> QED
    BY <2>1, <2>3 DEF Bounded, r
<1>6. CASE s.source
  <2>1. Open(s) /\ Holds(q, "source") /\ ~Doomed(q)
    BY <1>2, <1>6 DEF Open, Holds, Doomed
  <2>2. n + a <= MaxQueue + 3
    BY <2>1 DEF Bounded
  <2>3. ASSUME ~Doomed(r)
        PROVE  n - 1 + m <= MaxQueue + 1
    <3>1. ~Holds(r, "disconnect")
      <4>1. Head(q) # "disconnect"
        OBVIOUS
      <4> HIDE DEF q, r
      <4>2. LET new == Tail(q) \o tasks
            IN  Holds(new, "disconnect") /\ ~Holds(new, "source") => Doomed(new)
        BY <1>1, <4>1, DoomedAfterTask
      <4> QED
        BY <1>1, <1>3, <2>3, <4>2
    <3>2. ~Holds(tasks, "disconnect") /\ ~Holds(q, "disconnect")
      <4>1. Head(q) # "disconnect"
        OBVIOUS
      <4> HIDE DEF q, r
      <4>2. LET new == Tail(q) \o tasks
            IN  /\ Holds(tasks, "disconnect") => Holds(new, "disconnect")
                /\ Holds(q, "disconnect") => Holds(new, "disconnect")
        BY <1>1, <4>1, HeldAfterTask
      <4> QED
        BY <1>1, <3>1, <4>2
    <3>3. m <= 1
      BY <1>2, <3>2 DEF Holds
    <3>4. CASE n = 1
      <4> HIDE DEF n, m
      <4> QED
        BY <1>2, <3>3, <3>4, BoundsAreNumbers
    <3>5. CASE n # 1
      <4>1. q[n] # "source"
        <5>1. \A i, j \in 1..n : q[i] = "source" /\ q[j] = "source" => i = j
          BY DEF InOrder
        <5>2. 1 \in 1..n /\ n \in 1..n
          BY <1>2
        <5> QED
          BY <1>2, <3>5, <5>1, <5>2
      <4>2. n <= MaxQueue
        BY <1>6, <2>1, <3>2, <4>1 DEF Bounded
      <4> HIDE DEF n, m
      <4> QED
        BY <1>2, <3>3, <4>2, BoundsAreNumbers
    <3> QED
      BY <3>4, <3>5
  <2> HIDE DEF q, r, n
  <2>4. Len(r) + a <= MaxQueue + MaxFailures + 3 /\ Len(r) \in Nat
    BY <1>2, <2>2, BoundsAreNumbers
  <2>5. ~Doomed(r) => Len(r) <= MaxQueue + 1
    BY <1>2, <2>3
  <2> QED
    BY <1>3, <2>4, <2>5, BoundsAreNumbers DEF Bounded, r
<1> QED
  BY <1>5, <1>6

LEMMA EndBounded ==
    ASSUME NEW s \in LineType, s.queue # <<>>, InOrder(s), NEW a \in {0, 1},
           Bounded(s, a), NEW next, NEW codes,
           Finished(s, next, <<>>, codes), next.source = FALSE
    PROVE  Bounded(next, a)
<1> DEFINE q == s.queue
           r == next.queue
<1>1. /\ q \in Seq(LineTask) /\ q # <<>> /\ <<>> \in Seq(LineTask)
      /\ r = Tail(q) \o <<>> /\ Plain(<<>>)
  BY DEF LineType, Finished, Plain
<1>2. ~Open(next)
  BY <1>1, OrderAfterTask DEF Open
<1>3. Len(r) = Len(q) - 1 /\ Len(q) \in Nat
  BY <1>1
<1>4. Len(q) + a <= MaxQueue + MaxFailures + 4
  BY DEF Bounded
<1>5. Len(r) + a <= MaxQueue + MaxFailures + 4
  <2> HIDE DEF q, r
  <2> QED
    BY <1>3, <1>4, BoundsAreNumbers
<1> QED
  BY <1>2, <1>5 DEF Bounded

LEMMA TaskBounded ==
    ASSUME NEW s \in LineType, InOrder(s), NEW a \in {0, 1}, Bounded(s, a),
           NEW next \in Tasks(s)
    PROVE  InOrder(next) /\ Bounded(next, a)
<1>1. s.queue # <<>> /\ Head(s.queue) \in LineTask
  BY TaskFinished DEF LineType
<1>2. CASE Head(s.queue) = "connect"
  <2>1. next \in Connects(s)
    BY <1>1, <1>2, Zenon DEF Tasks
  <2>2. ~s.source
    <3>1. s.queue[1] = "connect" /\ 1 \in 1..Len(s.queue)
      BY <1>1, <1>2 DEF LineType
    <3> QED
      BY <3>1 DEF InOrder
  <2>3. PICK tasks : /\ Few(tasks) /\ Finished(s, next, tasks, <<>>)
                     /\ tasks = <<>> \/ ~next.source
    BY <1>1, <2>1, <2>2, ConnectsResult, Zenon DEF Few
  <2> QED
    BY <1>1, <1>2, <2>3, FewArePlain, OrderAfterTask, ConnectBounded
<1>3. CASE Head(s.queue) = "source"
  <2>1. next \in Reads(s)
    BY <1>1, <1>3 DEF Tasks
  <2>2. PICK tasks, codes :
             /\ Finished(s, next, tasks, codes) /\ next.source = s.source
             /\ ~s.source => tasks = <<>>
             /\ Len(tasks) <= MaxFailures + 1 /\ Plain(tasks)
             /\ Len(tasks) <= 1 \/ tasks[1] = "disconnect"
    BY <1>1, <2>1, ReadsResult, Zenon DEF Plain
  <2> QED
    BY <1>1, <1>3, <2>2, OrderAfterTask, ReadBounded
<1>4. CASE Head(s.queue) = "write"
  <2>1. next \in Writes(s)
    BY <1>1, <1>4 DEF Tasks
  <2>2. PICK tasks : /\ Few(tasks) /\ Finished(s, next, tasks, <<>>)
                     /\ next.source = s.source
    BY <1>1, <2>1, WritesResult
  <2> QED
    BY <1>1, <1>4, <2>2, FewArePlain, OrderAfterTask, FewBounded
<1>5. CASE Head(s.queue) = "writePassword"
  <2>1. next \in WritesPassword(s)
    BY <1>1, <1>5 DEF Tasks
  <2>2. PICK tasks, codes : /\ Few(tasks) /\ Finished(s, next, tasks, codes)
                            /\ next.source = s.source
    BY <1>1, <2>1, WritesPasswordResult
  <2> QED
    BY <1>1, <1>5, <2>2, FewArePlain, OrderAfterTask, FewBounded
<1>6. CASE Head(s.queue) = "disconnect"
  <2>1. next \in Ends(s)
    BY <1>1, <1>6 DEF Tasks
  <2>2. /\ Finished(s, next, <<>>, <<"DISCONNECTED">>) /\ next.source = FALSE
        /\ Plain(<<>>)
    <3>1. Plain(<<>>)
      BY DEF Plain
    <3> QED
      BY <1>1, <2>1, <3>1, EndsResult
  <2> QED
    BY <1>1, <2>2, OrderAfterTask, EndBounded
<1> QED
  BY <1>1, <1>2, <1>3, <1>4, <1>5, <1>6 DEF LineTask

LEMMA QueueAppended ==
    ASSUME NEW q \in Seq(LineTask), NEW task \in LineTask
    PROVE  LET r == Append(q, task)
           IN  /\ Len(q) \in Nat /\ Len(r) = Len(q) + 1
               /\ \A i \in 1..Len(q) : r[i] = q[i]
               /\ r[Len(q) + 1] = task
               /\ \A t : Holds(r, t) <=> Holds(q, t) \/ t = task
               /\ Doomed(q) => Doomed(r)
               /\ task = "disconnect" /\ ~Holds(q, "source") => Doomed(r)
<1> DEFINE r == Append(q, task)
           n == Len(q)
<1>1. /\ n \in Nat /\ Len(r) = n + 1
      /\ \A i \in 1..n : r[i] = q[i]
      /\ r[n + 1] = task
  OBVIOUS
<1> HIDE DEF r
<1>2. ASSUME NEW t
      PROVE  Holds(r, t) <=> Holds(q, t) \/ t = task
  <2>1. ASSUME Holds(r, t) PROVE Holds(q, t) \/ t = task
    <3>1. PICK i \in 1..(n + 1) : r[i] = t
      BY <1>1, <2>1 DEF Holds
    <3>2. CASE i = n + 1
      BY <1>1, <3>1, <3>2
    <3>3. CASE i # n + 1
      <4>1. i \in 1..n
        BY <1>1, <3>1, <3>3
      <4> QED
        BY <1>1, <3>1, <4>1 DEF Holds
    <3> QED
      BY <3>2, <3>3
  <2>2. ASSUME Holds(q, t) PROVE Holds(r, t)
    <3>1. PICK i \in 1..n : q[i] = t
      BY <2>2 DEF Holds
    <3>2. i \in 1..Len(r) /\ r[i] = t
      BY <1>1, <3>1
    <3> QED
      BY <3>2 DEF Holds
  <2>3. Holds(r, task)
    <3>1. n + 1 \in 1..Len(r)
      BY <1>1
    <3> QED
      BY <1>1, <3>1 DEF Holds
  <2> QED
    BY <2>1, <2>2, <2>3
<1>3. ASSUME Doomed(q) PROVE Doomed(r)
  <2>1. PICK i \in 1..n : /\ q[i] = "disconnect"
                          /\ \A j \in 1..(i - 1) : q[j] # "source"
    BY <1>3 DEF Doomed
  <2>2. i \in 1..Len(r) /\ \A j \in 1..(i - 1) : j \in 1..n
    BY <1>1, <2>1
  <2> QED
    BY <1>1, <2>1, <2>2 DEF Doomed
<1>4. ASSUME task = "disconnect", ~Holds(q, "source") PROVE Doomed(r)
  <2>1. n + 1 \in 1..Len(r) /\ \A j \in 1..(n + 1 - 1) : j \in 1..n
    BY <1>1
  <2> QED
    BY <1>1, <1>4, <2>1 DEF Doomed, Holds
<1> QED
  BY <1>1, <1>2, <1>3, <1>4 DEF r

\* What the main thread dispatches, and the source, comes last.
LEMMA CallInOrder ==
    ASSUME NEW s \in LineType, InOrder(s), NEW task \in LineTask,
           \/ task \in {"write", "disconnect"}
           \/ task = "source" /\ s.source /\ ~Holds(s.queue, "source")
    PROVE  LET next == Dispatched(s, task)
           IN  /\ InOrder(next)
               /\ Open(next) <=> Open(s)
<1> DEFINE next == Dispatched(s, task)
           q == s.queue
           r == Append(q, task)
           n == Len(q)
<1>1. q \in Seq(LineTask) /\ next.queue = r /\ next.source = s.source
  BY DispatchedFields DEF LineType
<1>2. /\ n \in Nat /\ Len(r) = n + 1
      /\ \A i \in 1..n : r[i] = q[i]
      /\ r[n + 1] = task
      /\ \A t : Holds(r, t) <=> Holds(q, t) \/ t = task
  <2> HIDE DEF q
  <2> QED
    BY <1>1, QueueAppended
<1> HIDE DEF next, r
<1>3. Open(next) <=> Open(s)
  BY <1>1, <1>2 DEF Open
<1>4. ASSUME NEW i \in 1..Len(r), r[i] = "connect"
      PROVE  i = 1 /\ ~s.source /\ ~Holds(r, "source")
  <2>1. i \in 1..n
    BY <1>2, <1>4
  <2>2. i = 1 /\ ~s.source /\ ~Holds(q, "source")
    BY <1>2, <1>4, <2>1 DEF InOrder
  <2> QED
    BY <1>2, <2>2
<1>5. ASSUME NEW i \in 1..Len(r), NEW j \in 1..Len(r),
             r[i] = "source", r[j] = "source"
      PROVE  i = j
  <2>1. CASE i \in 1..n /\ j \in 1..n
    BY <1>2, <1>5, <2>1 DEF InOrder
  <2>2. CASE i = n + 1 \/ j = n + 1
    <3>1. task = "source"
      BY <1>2, <1>5, <2>2
    <3>2. \A k \in 1..n : r[k] # "source"
      BY <1>2, <3>1 DEF Holds
    <3>3. i \notin 1..n /\ j \notin 1..n
      BY <1>5, <3>2
    <3> QED
      BY <1>2, <3>3
  <2> QED
    BY <1>2, <2>1, <2>2
<1>6. InOrder(next)
  BY <1>1, <1>4, <1>5 DEF InOrder
<1> QED
  BY <1>3, <1>6 DEF next

LEMMA WriteBounded ==
    ASSUME NEW s \in LineType, NEW a \in {0, 1}, Len(s.queue) < MaxQueue
    PROVE  Bounded(Dispatched(s, "write"), a)
<1> DEFINE next == Dispatched(s, "write")
           n == Len(s.queue)
<1>1. next.queue = Append(s.queue, "write") /\ s.queue \in Seq(LineTask)
  BY DispatchedFields DEF LineTask, LineType
<1>2. Len(next.queue) = n + 1 /\ n \in Nat
  BY <1>1
<1> HIDE DEF next, n
<1>3. Len(next.queue) + a <= MaxQueue + 1 /\ Len(next.queue) <= MaxQueue
  BY <1>2, BoundsAreNumbers DEF n
<1>4. Len(next.queue) \in Nat /\ a \in Nat
  BY <1>2
<1> QED
  BY <1>3, <1>4, BoundsAreNumbers DEF Bounded, next

\* The user asks for one disconnect at most.
LEMMA DisconnectBounded ==
    ASSUME NEW s \in LineType, InOrder(s), Bounded(s, 1)
    PROVE  Bounded(Dispatched(s, "disconnect"), 0)
<1> DEFINE next == Dispatched(s, "disconnect")
           q == s.queue
           r == next.queue
           n == Len(q)
<1>1. q \in Seq(LineTask) /\ r = Append(q, "disconnect")
      /\ "disconnect" \in LineTask /\ next.source = s.source
  BY DispatchedFields DEF LineTask, LineType
<1>2. /\ n \in Nat /\ Len(r) = n + 1
      /\ \A t : Holds(r, t) <=> Holds(q, t) \/ t = "disconnect"
      /\ Doomed(q) => Doomed(r)
      /\ ~Holds(q, "source") => Doomed(r)
  <2> HIDE DEF q, r
  <2> QED
    BY <1>1, QueueAppended
<1>3. Open(next) <=> Open(s)
  BY CallInOrder DEF LineTask
<1>4. Holds(r, "disconnect") /\ (Holds(r, "source") <=> Holds(q, "source"))
  BY <1>2
<1>5. /\ n + 1 <= MaxQueue + MaxFailures + 4
      /\ Open(s) /\ ~Holds(q, "source") => n + 1 <= MaxQueue + MaxFailures + 3
      /\ Open(s) /\ ~Doomed(q) /\ Holds(q, "source") => n + 1 <= MaxQueue + 3
  BY DEF Bounded
<1> HIDE DEF next, q, r, n
<1>6. Len(r) + 0 = n + 1
  BY <1>2
<1> QED
  BY <1>2, <1>3, <1>4, <1>5, <1>6, BoundsAreNumbers DEF Bounded, r, next

LEMMA FiresBounded ==
    ASSUME NEW s \in LineType, InOrder(s), NEW a \in {0, 1}, Bounded(s, a),
           NEW next \in Fires(s)
    PROVE  InOrder(next) /\ Bounded(next, a)
<1> DEFINE q == s.queue
           r == next.queue
           n == Len(q)
<1>1. /\ s.source /\ ~Holds(q, "source") /\ next = Dispatched(s, "source")
  BY DEF Fires, Holds, LineType
<1>2. q \in Seq(LineTask) /\ r = Append(q, "source")
      /\ "source" \in LineTask /\ next.source = s.source
  BY <1>1, DispatchedFields DEF LineTask, LineType
<1>3. InOrder(next)
  BY <1>1, <1>2, CallInOrder
<1>4. /\ n \in Nat /\ Len(r) = n + 1 /\ r[n + 1] = "source"
      /\ Holds(r, "source")
      /\ Doomed(q) => Doomed(r)
  <2> HIDE DEF q, r
  <2> QED
    BY <1>2, QueueAppended
<1>5. Open(s)
  BY <1>1 DEF Open
<1>6. /\ n + a <= MaxQueue + MaxFailures + 3
      /\ ~Doomed(q) => n <= MaxQueue + 1
  BY <1>1, <1>5 DEF Bounded
<1> HIDE DEF q, r, n
<1>7. /\ Len(r) + a <= MaxQueue + MaxFailures + 4
      /\ ~Doomed(r) => Len(r) + a <= MaxQueue + 3
      /\ r[Len(r)] = "source"
  BY <1>4, <1>6, BoundsAreNumbers
<1> QED
  BY <1>3, <1>4, <1>7, BoundsAreNumbers DEF Bounded, r

LEMMA FirstBounded ==
    /\ InOrder(Allocated) /\ \A a \in {0, 1} : Bounded(Allocated, a)
    /\ InOrder(Dispatched(Allocated, "connect"))
    /\ \A a \in {0, 1} : Bounded(Dispatched(Allocated, "connect"), a)
<1>1. Allocated \in LineType /\ Allocated.queue = <<>>
      /\ Allocated.source = FALSE
  BY DEF Allocated, LineType
<1> DEFINE next == Dispatched(Allocated, "connect")
<1>2. next.queue = <<"connect">> /\ next.source = FALSE
  BY <1>1, DispatchedFields DEF LineTask
<1> HIDE DEF next
<1>3. ~Holds(<<>>, "connect") /\ ~Holds(<<"connect">>, "source")
  BY DEF Holds
<1>4. Len(<<>>) = 0 /\ Len(<<"connect">>) = 1
  OBVIOUS
<1>5. InOrder(Allocated)
  BY <1>1 DEF InOrder
<1>6. InOrder(next)
  BY <1>2, <1>3 DEF InOrder
<1>7. ASSUME NEW a \in {0, 1}
      PROVE  Bounded(Allocated, a)
  BY <1>1, <1>3, <1>4, BoundsAreNumbers DEF Bounded, Open
<1>8. ASSUME NEW a \in {0, 1}
      PROVE  Bounded(next, a)
  BY <1>2, <1>3, <1>4, BoundsAreNumbers DEF Bounded, Open
<1> QED
  BY <1>5, <1>6, <1>7, <1>8 DEF next

LEMMA LessAsked ==
    ASSUME NEW s \in LineType, Bounded(s, 1)
    PROVE  Bounded(s, 0)
<1> DEFINE n == Len(s.queue)
<1>1. n \in Nat /\ n + 0 <= n + 1
  BY DEF LineType
<1> HIDE DEF n
<1> QED
  BY <1>1, BoundsAreNumbers DEF Bounded, n

-----------------------------------------------------------------------------
(***************************************************************************)
(* The queues of all connections.                                          *)
(***************************************************************************)

\* A connection that is left alone, when the controller may have let it go.
LEMMA QueueFrame ==
    ASSUME Typed, QueueInv, NEW c \in Session, line'[c] = line[c],
           MayAsk(c)' => MayAsk(c)
    PROVE  InOrder(line'[c]) /\ Bounded(line'[c], Asks(c)')
<1>1. InOrder(line[c]) /\ Bounded(line[c], Asks(c)) /\ line[c] \in LineType
  BY DEF QueueInv, Typed
<1>2. CASE MayAsk(c) /\ ~MayAsk(c)'
  <2>1. Asks(c) = 1 /\ Asks(c)' = 0
    BY <1>2 DEF Asks
  <2> QED
    BY <1>1, <2>1, LessAsked
<1>3. CASE MayAsk(c) <=> MayAsk(c)'
  <2>1. Asks(c)' = Asks(c)
    BY <1>3 DEF Asks
  <2> QED
    BY <1>1, <2>1
<1> QED
  BY <1>2, <1>3

LEMMA AsksValue == \A c : Asks(c) \in {0, 1}
BY DEF Asks

LEMMA ConnectQueues ==
    ASSUME Typed, OwnInv, QueueInv, PressConnect
    PROVE  QueueInv'
<1> SUFFICES ASSUME NEW c \in Session
             PROVE  InOrder(line'[c]) /\ Bounded(line'[c], Asks(c)')
  BY DEF QueueInv
<1>1. CASE state # "Disconnected" /\ UNCHANGED <<controlVars, line>>
  <2>1. line'[c] = line[c] /\ (MayAsk(c)' => MayAsk(c))
    BY <1>1 DEF controlVars, MayAsk
  <2> QED
    BY <2>1, QueueFrame
<1>2. CASE /\ state = "Disconnected" /\ state' = "Connected"
           /\ sessions' = sessions + 1 /\ connection' = sessions'
           /\ Send(sessions', "connect")
  <2>1. /\ sessions' \in Session /\ sessions' > sessions
        /\ sessions' \in 0..MaxSessions /\ "connect" \in LineTask
    BY <1>2, SessionNumbers DEF PressConnect, Session, LineTask
  <2>2. CASE c = sessions'
    <3>1. line'[c] = Dispatched(line[c], "connect")
      BY <1>2, <2>1, <2>2, SendKeeps
    <3>2. line[c] = Allocated
      BY <2>1, <2>2 DEF OwnInv, Unborn
    <3>3. Asks(c)' \in {0, 1}
      BY DEF Asks
    <3> QED
      BY <3>1, <3>2, <3>3, FirstBounded
  <2>3. CASE c # sessions'
    <3>1. line'[c] = line[c]
      BY <1>2, <2>1, <2>3, SendKeeps
    <3>2. ~MayAsk(c)'
      BY <1>2, <2>3 DEF MayAsk
    <3> QED
      BY <3>1, <3>2, QueueFrame
  <2> QED
    BY <2>2, <2>3
<1> QED
  BY <1>1, <1>2 DEF PressConnect, connect

LEMMA DisconnectQueues ==
    ASSUME Typed, QueueInv, PressDisconnect
    PROVE  QueueInv'
<1> SUFFICES ASSUME NEW c \in Session
             PROVE  InOrder(line'[c]) /\ Bounded(line'[c], Asks(c)')
  BY DEF QueueInv
<1>1. CASE UNCHANGED <<controlVars, line>>
  <2>1. line'[c] = line[c] /\ (MayAsk(c)' => MayAsk(c))
    BY <1>1 DEF controlVars, MayAsk
  <2> QED
    BY <2>1, QueueFrame
<1>2. CASE /\ connection # nil /\ state # "Disconnected"
           /\ state' = "Disconnected" /\ Send(connection, "disconnect")
  <2>1. connection \in 0..MaxSessions /\ "disconnect" \in LineTask
    BY DEF Typed, LineTask
  <2>2. ~MayAsk(c)' /\ Asks(c)' = 0
    BY <1>2 DEF MayAsk, Asks
  <2>3. CASE c = connection
    <3>1. line'[c] = Dispatched(line[c], "disconnect")
      BY <1>2, <2>1, <2>3, SendKeeps
    <3>2. Asks(c) = 1
      BY <1>2, <2>3 DEF Asks, MayAsk, Typed
    <3>3. InOrder(line[c]) /\ Bounded(line[c], 1) /\ line[c] \in LineType
      BY <3>2 DEF QueueInv, Typed
    <3>4. InOrder(line'[c])
      BY <2>1, <3>1, <3>3, CallInOrder
    <3> QED
      BY <2>2, <3>1, <3>3, <3>4, DisconnectBounded
  <2>4. CASE c # connection
    <3>1. line'[c] = line[c]
      BY <1>2, <2>1, <2>4, SendKeeps
    <3> QED
      BY <2>2, <3>1, QueueFrame
  <2> QED
    BY <2>3, <2>4
<1> QED
  BY <1>1, <1>2 DEF PressDisconnect, disconnect

LEMMA TypeQueues ==
    ASSUME Typed, QueueInv, Type
    PROVE  QueueInv'
<1> SUFFICES ASSUME NEW c \in Session
             PROVE  InOrder(line'[c]) /\ Bounded(line'[c], Asks(c)')
  BY DEF QueueInv
<1>1. /\ sessions \in 0..MaxSessions /\ "write" \in LineTask
      /\ Send(sessions, "write") /\ Len(line[sessions].queue) < MaxQueue
      /\ MayAsk(c)' <=> MayAsk(c)
  BY DEF Typed, LineTask, Type, MayAsk, controlVars
<1>2. CASE c = sessions
  <2>1. line'[c] = Dispatched(line[c], "write")
    BY <1>1, <1>2, SendKeeps
  <2>2. line[c] \in LineType /\ InOrder(line[c]) /\ Asks(c)' \in {0, 1}
    BY DEF Typed, QueueInv, Asks
  <2>3. InOrder(line'[c])
    BY <1>1, <2>1, <2>2, CallInOrder
  <2> QED
    BY <1>1, <1>2, <2>1, <2>2, <2>3, WriteBounded
<1>3. CASE c # sessions
  <2>1. line'[c] = line[c]
    BY <1>1, <1>3, SendKeeps
  <2> QED
    BY <1>1, <2>1, QueueFrame
<1> QED
  BY <1>2, <1>3

LEMMA LineQueues ==
    ASSUME Typed, QueueInv, NEW d \in Session, Work(d) \/ SourceFires(d)
    PROVE  QueueInv'
<1> SUFFICES ASSUME NEW c \in Session
             PROVE  InOrder(line'[c]) /\ Bounded(line'[c], Asks(c)')
  BY DEF QueueInv
<1>1. PICK next \in Tasks(line[d]) \cup Fires(line[d]) : LineStep(d, next)
  BY DEF Work, SourceFires
<1>2. /\ line' = [line EXCEPT ![d] = next]
      /\ Asks(c)' = Asks(c) /\ MayAsk(c)' = MayAsk(c)
  BY <1>1 DEF LineStep, Asks, MayAsk, controlVars
<1>3. CASE c = d
  <2>1. /\ line[c] \in LineType /\ InOrder(line[c])
        /\ Asks(c) \in {0, 1} /\ Bounded(line[c], Asks(c))
    BY AsksValue DEF Typed, QueueInv
  <2>2. line'[c] = next
    BY <1>2, <1>3 DEF Typed
  <2>3. InOrder(next) /\ Bounded(next, Asks(c))
    BY <1>1, <1>3, <2>1, TaskBounded, FiresBounded
  <2> QED
    BY <1>2, <2>2, <2>3
<1>4. CASE c # d
  <2>1. line'[c] = line[c]
    BY <1>2, <1>4 DEF Typed
  <2> QED
    BY <1>2, <2>1, QueueFrame
<1> QED
  BY <1>3, <1>4

LEMMA QueueStep ==
    Typed /\ OwnInv /\ QueueInv /\ [Next]_vars => QueueInv'
<1> SUFFICES ASSUME Typed, OwnInv, QueueInv, [Next]_vars PROVE QueueInv'
  OBVIOUS
<1>1. CASE PressConnect
  BY <1>1, ConnectQueues
<1>2. CASE PressDisconnect
  BY <1>2, DisconnectQueues
<1>3. CASE Type
  BY <1>3, TypeQueues
<1>4. CASE Deliver
  <2>1. ASSUME NEW c \in Session
        PROVE  line'[c] = line[c] /\ (MayAsk(c)' => MayAsk(c))
    BY <1>4 DEF Deliver, signalError, MayAsk, controlVars
  <2> QED
    BY <2>1, QueueFrame DEF QueueInv
<1>5. ASSUME NEW d \in Session, Work(d) \/ SourceFires(d)
      PROVE  QueueInv'
  BY <1>5, LineQueues
<1>6. CASE UNCHANGED vars
  BY <1>6 DEF vars, controlVars, QueueInv, Asks, MayAsk
<1> QED
  BY <1>1, <1>2, <1>3, <1>4, <1>5, <1>6 DEF Next

\* Whatever the server sends and however often a send fails, the queue of a
\* connection stays short (TelnetConnection.m:196, 560), and its types.
THEOREM QueuesBounded == Spec => []TypeOK
<1>1. Init => Typed /\ OwnInv /\ QueueInv
  <2> SUFFICES ASSUME Init PROVE QueueInv
    BY OwnInit
  <2>1. \A c \in Session : line[c] = Allocated /\ Asks(c) \in {0, 1}
    BY AsksValue DEF Init
  <2> QED
    BY <2>1, FirstBounded DEF QueueInv
<1>2. Typed /\ OwnInv /\ QueueInv /\ [Next]_vars
        => (Typed /\ OwnInv /\ QueueInv)'
  BY OwnStep, QueueStep
<1>3. Typed /\ QueueInv => TypeOK
  <2> SUFFICES ASSUME Typed, QueueInv PROVE TypeOK
    OBVIOUS
  <2>1. ASSUME NEW c \in Session
        PROVE  Len(line[c].queue) <= MaxQueue + MaxFailures + 4
    <3> DEFINE n == Len(line[c].queue)
    <3>1. n \in Nat /\ Asks(c) \in Nat
      <4>1. line[c].queue \in Seq(LineTask)
        BY DEF Typed, LineType
      <4> QED
        BY <4>1, AsksValue
    <3>2. n + Asks(c) <= MaxQueue + MaxFailures + 4
      BY DEF QueueInv, Bounded
    <3> HIDE DEF n
    <3>3. n <= MaxQueue + MaxFailures + 4
      BY <3>1, <3>2, BoundsAreNumbers
    <3> QED
      BY <3>3 DEF n
  <2> QED
    BY <2>1 DEF Typed, TypeOK
<1> QED
  BY <1>1, <1>2, <1>3, PTL DEF Spec

-----------------------------------------------------------------------------

Byte == 0..255

LEMMA CountedUp ==
  ASSUME NEW S, S \subseteq Nat, 0 \in S, \A n \in S : n + 1 \in S
  PROVE  S = Nat
<1> DEFINE R == OpToRel(<, Nat)
           T == Nat \ S
<1>1. \A x, y \in Nat : <<x, y>> \in R <=> x < y
  BY DEF OpToRel
<1>2. IsWellFoundedOn(R, Nat)
  BY NatLessThanWellFounded
<1> HIDE DEF R
<1>3. ASSUME T # {}
      PROVE  FALSE
  <2>1. T \subseteq Nat
    OBVIOUS
  <2>2. PICK n \in T : \A i \in T : ~(<<i, n>> \in R)
    BY <1>2, <1>3, <2>1, WFMin, Zenon
  <2>3. n \in Nat /\ n # 0 /\ n - 1 \in Nat /\ n - 1 < n
    OBVIOUS
  <2>4. n - 1 \in S
    BY <1>1, <2>2, <2>3
  <2>5. (n - 1) + 1 \in S
    BY <2>4
  <2> QED
    BY <2>3, <2>5
<1> QED
  BY <1>3

(***************************************************************************)
(* The loop of the parser.                                                 *)
(***************************************************************************)

Turn(buffer, left) == [t \in ParserState |-> Round(buffer, t, left)]

\* f[n] is the state after n rounds.
Turns(buffer, s, left, N, f) ==
  f = [n \in 0..N |-> IF n = 0 THEN s ELSE Turn(buffer, left)[f[n - 1]]]

LEMMA TurnsExist ==
  ASSUME NEW buffer, NEW s, NEW left, NEW N \in Nat
  PROVE  \E f : Turns(buffer, s, left, N, f)
<1> DEFINE S == {n \in Nat : \E f : Turns(buffer, s, left, n, f)}
<1> DEFINE turn == Turn(buffer, left)
<1> HIDE DEF turn
<1>1. \A n, f : Turns(buffer, s, left, n, f) <=>
         f = [i \in 0..n |-> IF i = 0 THEN s ELSE turn[f[i - 1]]]
  BY DEF Turns, turn
<1>2. 0 \in S
  <2> DEFINE f == [i \in 0..0 |-> s]
  <2>1. f = [i \in 0..0 |-> IF i = 0 THEN s ELSE turn[f[i - 1]]]
    OBVIOUS
  <2>2. Turns(buffer, s, left, 0, f)
    BY <1>1, <2>1
  <2> QED
    BY <2>2
<1>3. ASSUME NEW n \in S
      PROVE  n + 1 \in S
  <2>1. n \in Nat
    OBVIOUS
  <2>2. PICK f : f = [i \in 0..n |-> IF i = 0 THEN s ELSE turn[f[i - 1]]]
    BY <1>1
  <2> DEFINE g == [i \in 0..(n + 1) |-> IF i <= n THEN f[i] ELSE turn[f[n]]]
             h == [i \in 0..(n + 1) |-> IF i = 0 THEN s ELSE turn[g[i - 1]]]
  <2>3. ASSUME NEW i \in 0..(n + 1)
        PROVE  g[i] = h[i]
    <3>1. CASE i = 0
      BY <2>1, <2>2, <3>1
    <3>2. CASE i \in 1..n
      <4>1. g[i] = f[i] /\ g[i - 1] = f[i - 1]
        BY <2>1, <3>2
      <4>2. f[i] = turn[f[i - 1]]
        BY <2>1, <2>2, <3>2
      <4> QED
        BY <3>2, <4>1, <4>2
    <3>3. CASE i = n + 1
      <4>1. g[i] = turn[f[n]] /\ g[i - 1] = f[n] /\ i # 0
        BY <2>1, <3>3
      <4> QED
        BY <4>1
    <3> QED
      BY <2>1, <3>1, <3>2, <3>3
  <2>4. g = h
    BY <2>3
  <2>5. Turns(buffer, s, left, n + 1, g)
    BY <1>1, <2>4
  <2> QED
    BY <2>1, <2>5
<1>4. S = Nat
  BY <1>2, <1>3, CountedUp
<1> QED
  BY <1>4

LEMMA ParsedIs ==
  ASSUME NEW buffer, NEW s, NEW left, Len(buffer) \in Nat
  PROVE  \E f : Turns(buffer, s, left, Len(buffer), f) /\ Parsed(buffer, s, left) = f[Len(buffer)]
<1> DEFINE turn == Turn(buffer, left)
           Is(f) == f = [n \in 0..Len(buffer) |-> IF n = 0 THEN s ELSE turn[f[n - 1]]]
           f == CHOOSE f : Is(f)
<1>1. PICK g : Turns(buffer, s, left, Len(buffer), g)
  BY TurnsExist
<1>2. \E h : Is(h)
  BY <1>1 DEF Turns
<1>3. Is(f)
  BY <1>2, Zenon
<1>4. Parsed(buffer, s, left) = f[Len(buffer)]
  BY Zenon DEF Parsed, Turn
<1> QED
  BY <1>3, <1>4, Zenon DEF Turns

(***************************************************************************)
(* What a request does.                                                    *)
(***************************************************************************)

Side == {"value", "remoteValue"}

\* The option o of the settings v, with one side of it set.
Set(v, o, side, on) == [v EXCEPT ![o][side] = on]

LEMMA SetIs ==
  ASSUME NEW v \in Settings, NEW o \in Option, NEW side \in Side, NEW on \in BOOLEAN
  PROVE  Set(v, o, side, on) \in Settings
<1>1. v[o] \in [value : BOOLEAN, remoteValue : BOOLEAN]
  BY DEF Settings
<1>2. CASE side = "value"
  <2>1. [v[o] EXCEPT !["value"] = on] \in [value : BOOLEAN, remoteValue : BOOLEAN]
    BY <1>1
  <2> QED
    BY <1>2, <2>1 DEF Settings, Set
<1>3. CASE side = "remoteValue"
  <2>1. [v[o] EXCEPT !["remoteValue"] = on] \in [value : BOOLEAN, remoteValue : BOOLEAN]
    BY <1>1
  <2> QED
    BY <1>3, <2>1 DEF Settings, Set
<1> QED
  BY <1>2, <1>3 DEF Side

LEMMA SetAgain ==
  ASSUME NEW v \in Settings, NEW o \in Option, NEW side \in Side, NEW on \in BOOLEAN,
         v[o][side] = on
  PROVE  Set(v, o, side, on) = v
<1>1. v[o] \in [value : BOOLEAN, remoteValue : BOOLEAN]
  BY DEF Settings
<1>2. [v[o] EXCEPT ![side] = on] = v[o]
  BY <1>1 DEF Side
<1> QED
  BY <1>1, <1>2 DEF Set, Settings

\* What a request leaves alone.
Elsewhere(r, s) == /\ r.i = s.i /\ r.text = s.text
                   /\ r.named = s.named /\ r.password = s.password

LEMMA AnsweredIs ==
  ASSUME NEW s \in ParserState, NEW o \in Option, NEW side \in Side, NEW on \in BOOLEAN
  PROVE  LET r == Answered(s, o, side, on)
         IN  /\ r \in ParserState /\ Elsewhere(r, s) /\ r.sends = s.sends + 1
             /\ r.options = s.options /\ r.told = Set(s.told, o, side, on)
<1> DEFINE v == Set(s.told, o, side, on)
           r == Answered(s, o, side, on)
<1>1. v \in Settings
  BY SetIs DEF ParserState
<1>2. r = [s EXCEPT !.told = v, !.sends = s.sends + 1]
  BY DEF Answered, Set, ParserState
<1> HIDE DEF v, r
<1>3. s.sends + 1 \in Nat
  BY DEF ParserState
<1>4. r \in ParserState
  BY <1>1, <1>2, <1>3 DEF ParserState
<1>5. Elsewhere(r, s) /\ r.sends = s.sends + 1 /\ r.options = s.options /\ r.told = v
  BY <1>2 DEF ParserState, Elsewhere
<1> QED
  BY <1>4, <1>5 DEF v, r

\* Setting an option, without an answer, in what the client and what the server
\* takes for on.
Having(s, v, w) == [s EXCEPT !.options = v, !.told = w]

Became(r, s, v, w) == /\ r \in ParserState /\ Elsewhere(r, s) /\ r.sends = s.sends
                    /\ r.options = v /\ r.told = w

LEMMA SettingIs ==
  ASSUME NEW s \in ParserState, NEW v \in Settings, NEW w \in Settings
  PROVE  Became(Having(s, v, w), s, v, w)
<1>1. PICK r : r = Having(s, v, w)
  OBVIOUS
<1>2. r \in ParserState
  BY <1>1 DEF ParserState, Having
<1>3. Elsewhere(r, s) /\ r.sends = s.sends /\ r.options = v /\ r.told = w
  BY <1>1 DEF ParserState, Elsewhere, Having
<1> QED
  BY <1>1, <1>2, <1>3 DEF Became

LEMMA parseRequestIs ==
  ASSUME NEW s \in ParserState, NEW request \in Verb, NEW o \in Byte
  PROVE  LET r == parseRequest(request, o, s)
         IN  /\ r \in ParserState /\ Elsewhere(r, s)
             /\ r.sends \in s.sends..(s.sends + 1)
             /\ s.told = s.options
                  /\ (o = optionNegotiateAboutWindowSize => request \in {DO, DONT})
                => r.told = r.options
<1> DEFINE side == IF request \in {DO, DONT} THEN "value" ELSE "remoteValue"
           on == request \in {DO, WILL}
           r == parseRequest(request, o, s)
           Goal == /\ r \in ParserState /\ Elsewhere(r, s)
                   /\ r.sends \in s.sends..(s.sends + 1)
                   /\ s.told = s.options
                        /\ (o = optionNegotiateAboutWindowSize => request \in {DO, DONT})
                      => r.told = r.options
<1>1. s.options \in Settings /\ s.told \in Settings /\ s.sends \in Nat
  BY DEF ParserState
<1>2. side \in Side /\ on \in BOOLEAN /\ "value" \in Side
  BY DEF Side
<1>3. CASE o = optionNegotiateAboutWindowSize /\ request = DO
  <2>1. o \in Option
    BY <1>3 DEF Option
  <2> DEFINE v == Set(s.options, o, "value", TRUE)
             t == Having(s, v, s.told)
  <2>2. v \in Settings
    BY <1>1, <1>2, <2>1, SetIs
  <2> HIDE DEF v
  <2>3. Became(t, s, v, s.told)
    BY <1>1, <2>2, SettingIs
  <2>4. r = Answered(t, o, "value", TRUE)
    <3>1. t = [s EXCEPT !.options[o].value = TRUE]
      BY DEF Set, ParserState, Having, v
    <3> HIDE DEF t
    <3> QED
      BY <1>3, <3>1, Zenon DEF parseRequest
  <2> HIDE DEF t, v, r
  <2>5. /\ r \in ParserState /\ Elsewhere(r, t) /\ r.sends = t.sends + 1
        /\ r.options = t.options /\ r.told = Set(t.told, o, "value", TRUE)
    BY <1>2, <2>1, <2>3, <2>4, AnsweredIs DEF Became
  <2> QED
    <3>1. s.told = s.options => r.told = r.options
      BY <2>3, <2>5 DEF v, Became
    <3>2. Elsewhere(r, s) /\ r.sends \in s.sends..(s.sends + 1)
      BY <1>1, <2>3, <2>5 DEF Elsewhere, Became
    <3> QED
      BY <2>5, <3>1, <3>2 DEF r
<1>4. CASE o = optionNegotiateAboutWindowSize /\ request # DO
  <2>1. o \in Option
    BY <1>4 DEF Option
  <2> DEFINE off == s.told[o].value /\ request # DONT
             v == Set(s.options, o, "value", FALSE)
             w == Set(s.told, o, "value", off)
  <2>2. v \in Settings /\ w \in Settings
    BY <1>1, <1>2, <2>1, SetIs
  <2>3. r = Having(s, v, w)
    <3>1. r = [s EXCEPT !.options[o].value = FALSE,
                        !.told[o].value = @ /\ request # DONT]
      BY <1>4, Zenon DEF parseRequest
    <3> HIDE DEF r
    <3> QED
      BY <3>1 DEF Set, ParserState, Having
  <2>4. request = DONT => off = FALSE
    OBVIOUS
  <2> HIDE DEF v, w, r
  <2>5. /\ r \in ParserState /\ Elsewhere(r, s) /\ r.sends = s.sends
        /\ r.options = v /\ r.told = w
    <3>1. Became(Having(s, v, w), s, v, w)
      BY <2>2, SettingIs
    <3> QED
      BY <2>3, <3>1 DEF Became
  <2>6. s.told = s.options /\ request \in {DO, DONT} => v = w
    BY <1>4, <2>4 DEF v, w
  <2> QED
    BY <1>1, <1>4, <2>5, <2>6 DEF r
<1>5. CASE o \in Standard /\ s.options[o][side] # on
  <2>1. o \in Option /\ o # optionNegotiateAboutWindowSize
    BY <1>5 DEF Option, Standard, optionNegotiateAboutWindowSize, optionTerminalType,
       optionNewEnvironment
  <2> DEFINE v == Set(s.options, o, side, on)
             t == Having(s, v, s.told)
  <2>2. v \in Settings
    BY <1>1, <1>2, <2>1, SetIs
  <2> HIDE DEF v
  <2>3. Became(t, s, v, s.told)
    BY <1>1, <2>2, SettingIs
  <2>4. r = Answered(t, o, side, on)
    <3>1. t = [s EXCEPT !.options[o][side] = on]
      BY DEF Set, ParserState, Having, v
    <3> HIDE DEF t
    <3> QED
      BY <1>5, <2>1, <3>1, Zenon DEF parseRequest
  <2> HIDE DEF t, v, r, side, on
  <2>5. /\ r \in ParserState /\ Elsewhere(r, t) /\ r.sends = t.sends + 1
        /\ r.options = t.options /\ r.told = Set(t.told, o, side, on)
    BY <1>2, <2>1, <2>3, <2>4, AnsweredIs DEF Became
  <2> QED
    <3>1. s.told = s.options => r.told = r.options
      BY <2>3, <2>5 DEF v, Became
    <3>2. Elsewhere(r, s) /\ r.sends \in s.sends..(s.sends + 1)
      BY <1>1, <2>3, <2>5 DEF Elsewhere, Became
    <3> QED
      BY <2>5, <3>1, <3>2 DEF r
<1>6. CASE o \in Standard /\ s.options[o][side] = on
  <2>1. o \in Option /\ o # optionNegotiateAboutWindowSize
    BY <1>6 DEF Option, Standard, optionNegotiateAboutWindowSize, optionTerminalType,
       optionNewEnvironment
  <2> DEFINE still == s.told[o][side] /\ on
             w == Set(s.told, o, side, still)
  <2>2. w \in Settings
    BY <1>1, <1>2, <2>1, SetIs
  <2>3. r = Having(s, s.options, w)
    <3>1. r = [s EXCEPT !.told[o][side] = @ /\ on]
      BY <1>6, <2>1, Zenon DEF parseRequest
    <3> HIDE DEF r, side, on
    <3> QED
      BY <3>1 DEF Set, ParserState, Having
  <2> HIDE DEF w, r
  <2>4. /\ r \in ParserState /\ Elsewhere(r, s) /\ r.sends = s.sends
        /\ r.options = s.options /\ r.told = w
    <3>1. Became(Having(s, s.options, w), s, s.options, w)
      BY <1>1, <2>2, SettingIs
    <3> QED
      BY <2>3, <3>1 DEF Became
  <2>5. s.told = s.options => still = on
    BY <1>2, <1>6
  <2> HIDE DEF side, on
  <2>6. s.told = s.options => w = s.told
    BY <1>1, <1>2, <1>6, <2>1, <2>5, SetAgain DEF w
  <2> QED
    BY <1>1, <2>4, <2>6 DEF r
<1>7. CASE o \notin Standard /\ o # optionNegotiateAboutWindowSize
  <2>1. r = [s EXCEPT !.sends = @ + (IF on THEN 1 ELSE 0)]
    BY <1>7, Zenon DEF parseRequest
  <2> HIDE DEF r
  <2>2. /\ r \in ParserState /\ Elsewhere(r, s) /\ r.options = s.options
        /\ r.told = s.told /\ r.sends \in s.sends..(s.sends + 1)
    BY <1>1, <2>1 DEF ParserState, Elsewhere
  <2> QED
    BY <2>2 DEF r
<1> QED
  BY <1>3, <1>4, <1>5, <1>6, <1>7

(***************************************************************************)
(* What a sub option does.                                                 *)
(***************************************************************************)

LEMMA Least ==
  ASSUME NEW S, S \subseteq Nat, S # {}
  PROVE  \E j \in S : \A k \in S : j <= k
<1> DEFINE R == OpToRel(<, Nat)
<1>1. \A x, y \in Nat : <<x, y>> \in R <=> x < y
  BY DEF OpToRel
<1>2. IsWellFoundedOn(R, Nat)
  BY NatLessThanWellFounded
<1> HIDE DEF R
<1>3. PICK j \in S : \A k \in S : ~(<<k, j>> \in R)
  BY <1>2, WFMin, Zenon
<1>4. \A k \in S : ~(k < j)
  BY <1>1, <1>3
<1>5. \A k \in S : j <= k
  BY <1>4
<1> QED
  BY <1>5

EndsAt(buffer, i) == {j \in (i + 2)..(Len(buffer) - 1) :
                      buffer[j] = IAC /\ buffer[j + 1] = SE}

LEMMA SubOptionEndIs ==
  ASSUME NEW buffer \in Seq(Byte), NEW i \in Nat
  PROVE  /\ EndsAt(buffer, i) = {} => SubOptionEnd(buffer, i) = i
         /\ EndsAt(buffer, i) # {} => /\ SubOptionEnd(buffer, i) \in EndsAt(buffer, i)
                                    /\ \A k \in EndsAt(buffer, i) : SubOptionEnd(buffer, i) <= k
<1> DEFINE ends == EndsAt(buffer, i)
<1>1. SubOptionEnd(buffer, i) = IF ends = {} THEN i
                                ELSE CHOOSE j \in ends : \A k \in ends : j <= k
  BY DEF SubOptionEnd, EndsAt
<1>2. ends \subseteq Nat
  BY DEF EndsAt
<1> HIDE DEF ends
<1>3. ASSUME ends # {}
      PROVE  \E j \in ends : \A k \in ends : j <= k
  BY <1>2, <1>3, Least
<1>4. ends = {} => SubOptionEnd(buffer, i) = i
  BY <1>1
<1>5. ends # {} => /\ SubOptionEnd(buffer, i) \in ends
                   /\ \A k \in ends : SubOptionEnd(buffer, i) <= k
  BY <1>1, <1>3
<1> QED
  BY <1>4, <1>5 DEF ends

\* The password is asked for by the first sub option that names the user.
NameKept(r, s) ==
  /\ s.named => r.named
  /\ r.password => s.password \/ (login.user /\ ~s.named /\ r.named)

SameOptions(r, s) == r.options = s.options /\ r.told = s.told

\* The fields of the parser, one at a time.
Fields(r, i, text, named, password, sends, s) ==
  /\ r \in ParserState /\ r.i = i /\ r.text = text /\ r.named = named
  /\ r.password = password /\ r.sends = sends /\ SameOptions(r, s)

LEMMA MovedIs ==
  ASSUME NEW s \in ParserState, NEW i \in Nat
  PROVE  Fields([s EXCEPT !.i = i], i, s.text, s.named, s.password, s.sends, s)
<1>1. PICK r : r = [s EXCEPT !.i = i]
  OBVIOUS
<1>2. r \in ParserState
  BY <1>1 DEF ParserState
<1>3. Fields(r, i, s.text, s.named, s.password, s.sends, s)
  BY <1>1, <1>2 DEF Fields, ParserState, SameOptions
<1> QED
  BY <1>1, <1>3

LEMMA TakenIs ==
  ASSUME NEW s \in ParserState, NEW text \in Seq(Byte)
  PROVE  Fields([s EXCEPT !.text = text], s.i, text, s.named, s.password, s.sends, s)
<1>1. PICK r : r = [s EXCEPT !.text = text]
  OBVIOUS
<1>2. r \in ParserState
  BY <1>1 DEF ParserState, Byte
<1>3. Fields(r, s.i, text, s.named, s.password, s.sends, s)
  BY <1>1, <1>2 DEF Fields, ParserState, SameOptions
<1> QED
  BY <1>1, <1>3

LEMMA SentIs ==
  ASSUME NEW s \in ParserState
  PROVE  Fields([s EXCEPT !.sends = @ + 1],
                s.i, s.text, s.named, s.password, s.sends + 1, s)
<1>1. PICK r : r = [s EXCEPT !.sends = @ + 1]
  OBVIOUS
<1>2. r \in ParserState
  BY <1>1 DEF ParserState
<1>3. Fields(r, s.i, s.text, s.named, s.password, s.sends + 1, s)
  BY <1>1, <1>2 DEF Fields, ParserState, SameOptions
<1> QED
  BY <1>1, <1>3

LEMMA NamedIs ==
  ASSUME NEW s \in ParserState, NEW password \in BOOLEAN
  PROVE  Fields([s EXCEPT !.named = TRUE, !.password = password],
                s.i, s.text, TRUE, password, s.sends, s)
<1>1. PICK u : u = [s EXCEPT !.named = TRUE]
  OBVIOUS
<1>2. u \in ParserState
  BY <1>1 DEF ParserState
<1>3. Fields(u, s.i, s.text, TRUE, s.password, s.sends, s)
  BY <1>1, <1>2 DEF Fields, ParserState, SameOptions
<1>4. PICK r : r = [u EXCEPT !.password = password]
  OBVIOUS
<1>5. r \in ParserState
  BY <1>2, <1>4 DEF ParserState
<1>6. Fields(r, s.i, s.text, TRUE, password, s.sends, s)
  BY <1>2, <1>3, <1>4, <1>5 DEF Fields, ParserState, SameOptions
<1>7. r = [s EXCEPT !.named = TRUE, !.password = password]
  BY <1>1, <1>4
<1> QED
  BY <1>6, <1>7

LEMMA writeNewEnvironmentIs ==
  ASSUME NEW s \in ParserState, login.user \in BOOLEAN
  PROVE  LET r == writeNewEnvironment(s)
         IN  /\ r \in ParserState /\ r.i = s.i /\ r.text = s.text /\ SameOptions(r, s)
             /\ NameKept(r, s) /\ r.sends = s.sends + 1
<1>1. PICK r : r = writeNewEnvironment(s)
  OBVIOUS
<1> DEFINE password == s.password \/ (login.user /\ ~s.named)
<1>2. password \in BOOLEAN
  OBVIOUS
<1>3. PICK u : u = [s EXCEPT !.sends = @ + 1]
  OBVIOUS
<1>4. Fields(u, s.i, s.text, s.named, s.password, s.sends + 1, s)
  BY <1>3, SentIs
<1>5. r = [u EXCEPT !.named = TRUE, !.password = password]
  BY <1>1, <1>3 DEF writeNewEnvironment, ParserState
<1> HIDE DEF password
<1>6. Fields(r, u.i, u.text, TRUE, password, u.sends, u)
  <2>1. Fields([u EXCEPT !.named = TRUE, !.password = password],
               u.i, u.text, TRUE, password, u.sends, u)
    BY <1>2, <1>4, NamedIs DEF Fields
  <2> QED
    BY <1>5, <2>1
<1>7. /\ r \in ParserState /\ r.i = s.i /\ r.text = s.text /\ SameOptions(r, s)
      /\ r.sends = s.sends + 1 /\ r.named = TRUE /\ r.password = password
  BY <1>4, <1>6 DEF Fields, SameOptions
<1>8. NameKept(r, s)
  BY <1>7 DEF NameKept, password
<1> QED
  BY <1>1, <1>7, <1>8

LEMMA parseSubOptionIs ==
  ASSUME NEW buffer \in Seq(Byte), NEW s \in ParserState, NEW left \in Byte,
         login.user \in BOOLEAN
  PROVE  LET r == parseSubOption(buffer, s, left)
         IN  /\ r \in ParserState
             /\ r.i = SubOptionEnd(buffer, s.i) + 2
             /\ r.text = s.text /\ SameOptions(r, s) /\ NameKept(r, s)
             /\ r.sends \in s.sends..(s.sends + 1)
<1> DEFINE end == SubOptionEnd(buffer, s.i)
           next == [s EXCEPT !.i = end + 2]
           r == parseSubOption(buffer, s, left)
           Goal(t) == /\ t \in ParserState
                      /\ t.i = end + 2
                      /\ t.text = s.text /\ SameOptions(t, s) /\ NameKept(t, s)
                      /\ t.sends \in s.sends..(s.sends + 1)
<1>1. end \in Nat
  <2>1. s.i \in Nat
    BY DEF ParserState
  <2>2. EndsAt(buffer, s.i) \subseteq Nat
    BY <2>1 DEF EndsAt
  <2> QED
    BY <2>1, <2>2, SubOptionEndIs
<1>2. r \in {next, [next EXCEPT !.sends = @ + 1], writeNewEnvironment(next)}
  BY DEF parseSubOption
<1>3. s.sends \in Nat
  BY DEF ParserState
<1> HIDE DEF end
<1>4. Fields(next, end + 2, s.text, s.named, s.password, s.sends, s)
  <2>1. end + 2 \in Nat
    BY <1>1
  <2> HIDE DEF Fields
  <2> QED
    BY <2>1, MovedIs
<1> HIDE DEF next
<1>5. Goal(next)
  BY <1>3, <1>4 DEF Fields, NameKept
<1>6. Goal([next EXCEPT !.sends = @ + 1])
  <2>1. PICK t : t = [next EXCEPT !.sends = @ + 1]
    OBVIOUS
  <2>2. Fields(t, next.i, next.text, next.named, next.password, next.sends + 1, next)
    BY <1>4, <2>1, SentIs DEF Fields
  <2> QED
    BY <1>3, <1>4, <2>1, <2>2 DEF Fields, NameKept, SameOptions
<1>7. Goal(writeNewEnvironment(next))
  <2>1. PICK t : t = writeNewEnvironment(next)
    OBVIOUS
  <2>2. /\ t \in ParserState /\ t.i = next.i /\ t.text = next.text /\ SameOptions(t, next)
        /\ NameKept(t, next) /\ t.sends = next.sends + 1
    BY <1>4, <2>1, writeNewEnvironmentIs DEF Fields
  <2> QED
    BY <1>3, <1>4, <2>1, <2>2 DEF Fields, NameKept, SameOptions
<1> HIDE DEF Goal, r
<1>8. Goal(r)
  BY <1>2, <1>5, <1>6, <1>7
<1> QED
  BY <1>8 DEF Goal, r, end

(***************************************************************************)
(* What a round does.                                                      *)
(***************************************************************************)

Taken(s, n, c) == [s EXCEPT !.i = @ + n, !.text = Append(@, c)]

LEMMA TextIs ==
  ASSUME NEW s \in ParserState, NEW n \in Nat, NEW c \in Byte
  PROVE  Fields(Taken(s, n, c), s.i + n, s.text \o <<c>>,
                s.named, s.password, s.sends, s)
<1>1. PICK u : u = [s EXCEPT !.i = s.i + n]
  OBVIOUS
<1>2. s.i + n \in Nat /\ s.text \in Seq(Byte)
  BY DEF ParserState, Byte
<1>3. Fields(u, s.i + n, s.text, s.named, s.password, s.sends, s)
  <2> HIDE DEF Fields
  <2> QED
    BY <1>1, <1>2, MovedIs
<1>4. PICK text \in Seq(Byte) : text = Append(s.text, c)
  BY <1>2, AppendProperties
<1>5. text = s.text \o <<c>>
  BY <1>2, <1>4, AppendIsConcat
<1>6. Fields([u EXCEPT !.text = text], u.i, text, u.named, u.password, u.sends, u)
  BY <1>3, <1>4, TakenIs DEF Fields
<1>7. [u EXCEPT !.text = text] = Taken(s, n, c)
  BY <1>1, <1>4 DEF ParserState, Taken
<1> QED
  BY <1>3, <1>5, <1>6, <1>7 DEF Fields, SameOptions

\* The text in the item that begins at a.
Worth(x, a) == IF x[a] # IAC THEN <<x[a]>>
               ELSE IF x[a + 1] = IAC THEN <<x[a]>> ELSE <<>>

\* A round that takes the bytes from s.i to i.
Took(buffer, r, s, i) ==
  /\ r \in ParserState /\ r.i = i /\ r.text = s.text \o Worth(buffer, s.i)
  /\ NameKept(r, s)
  /\ r.sends \in s.sends..(s.sends + (IF buffer[s.i] = IAC THEN 1 ELSE 0))

LEMMA RoundText ==
  ASSUME NEW buffer \in Seq(Byte), NEW left \in Byte, NEW s \in ParserState,
         s.i \in 1..Len(buffer), buffer[s.i] # IAC
  PROVE  LET r == Round(buffer, s, left)
         IN  Took(buffer, r, s, s.i + 1) /\ SameOptions(r, s)
<1>1. Round(buffer, s, left) = Taken(s, 1, buffer[s.i])
  BY DEF Round, Taken
<1>2. PICK r : r = Round(buffer, s, left)
  OBVIOUS
<1>3. buffer[s.i] \in Byte /\ s.sends \in Nat
  BY DEF ParserState
<1>4. Fields(r, s.i + 1, s.text \o <<buffer[s.i]>>, s.named, s.password, s.sends, s)
  BY <1>1, <1>2, <1>3, TextIs
<1>5. Took(buffer, r, s, s.i + 1) /\ SameOptions(r, s)
  BY <1>3, <1>4 DEF Took, Fields, Worth, NameKept
<1> QED
  BY <1>2, <1>5

LEMMA RoundEscape ==
  ASSUME NEW buffer \in Seq(Byte), NEW left \in Byte, NEW s \in ParserState,
         s.i \in 1..(Len(buffer) - 1), buffer[s.i] = IAC, buffer[s.i + 1] = IAC
  PROVE  LET r == Round(buffer, s, left)
         IN  Took(buffer, r, s, s.i + 2) /\ SameOptions(r, s)
<1>1. Round(buffer, s, left) = Taken(s, 2, buffer[s.i])
  BY DEF Round, Taken
<1>2. PICK r : r = Round(buffer, s, left)
  OBVIOUS
<1>3. buffer[s.i] \in Byte /\ s.sends \in Nat
  BY DEF ParserState
<1>4. Fields(r, s.i + 2, s.text \o <<buffer[s.i]>>, s.named, s.password, s.sends, s)
  BY <1>1, <1>2, <1>3, TextIs
<1>5. Took(buffer, r, s, s.i + 2) /\ SameOptions(r, s)
  BY <1>3, <1>4 DEF Took, Fields, Worth, NameKept
<1> QED
  BY <1>2, <1>5

LEMMA RoundSubOption ==
  ASSUME NEW buffer \in Seq(Byte), NEW left \in Byte, NEW s \in ParserState,
         s.i \in 1..(Len(buffer) - 1), buffer[s.i] = IAC, buffer[s.i + 1] = SB,
         login.user \in BOOLEAN
  PROVE  LET r == Round(buffer, s, left)
         IN  Took(buffer, r, s, SubOptionEnd(buffer, s.i) + 2) /\ SameOptions(r, s)
<1>1. Round(buffer, s, left) = parseSubOption(buffer, s, left)
  BY DEF Round, IAC, SB
<1>2. PICK r : r = Round(buffer, s, left)
  OBVIOUS
<1>3. /\ r \in ParserState
      /\ r.i = SubOptionEnd(buffer, s.i) + 2
      /\ r.text = s.text /\ SameOptions(r, s) /\ NameKept(r, s)
      /\ r.sends \in s.sends..(s.sends + 1)
  <2>1. LET q == parseSubOption(buffer, s, left)
        IN  /\ q \in ParserState
            /\ q.i = SubOptionEnd(buffer, s.i) + 2
            /\ q.text = s.text /\ SameOptions(q, s) /\ NameKept(q, s)
            /\ q.sends \in s.sends..(s.sends + 1)
    BY parseSubOptionIs
  <2> QED
    BY <1>1, <1>2, <2>1
<1>4. Worth(buffer, s.i) = <<>>
  BY DEF Worth, IAC, SB
<1>5. s.text = s.text \o <<>>
  BY DEF ParserState
<1>6. Took(buffer, r, s, SubOptionEnd(buffer, s.i) + 2)
  BY <1>3, <1>4, <1>5 DEF Took
<1> QED
  BY <1>2, <1>3, <1>6

LEMMA RoundCommand ==
  ASSUME NEW buffer \in Seq(Byte), NEW left \in Byte, NEW s \in ParserState,
         s.i \in 1..(Len(buffer) - 1), buffer[s.i] = IAC,
         buffer[s.i + 1] \notin Verb \cup {SB, IAC}
  PROVE  LET r == Round(buffer, s, left)
         IN  Took(buffer, r, s, s.i + 2) /\ SameOptions(r, s)
<1>1. Round(buffer, s, left) = [s EXCEPT !.i = s.i + 2]
  BY DEF Round
<1>2. PICK r : r = Round(buffer, s, left)
  OBVIOUS
<1>3. s.i + 2 \in Nat /\ s.sends \in Nat /\ s.text = s.text \o <<>>
  BY DEF ParserState
<1>4. Fields(r, s.i + 2, s.text, s.named, s.password, s.sends, s)
  <2>1. \A i \in Nat : Fields([s EXCEPT !.i = i], i, s.text, s.named, s.password, s.sends, s)
    BY MovedIs
  <2> QED
    BY <1>1, <1>2, <1>3, <2>1
<1>5. Worth(buffer, s.i) = <<>>
  BY DEF Worth
<1>6. Took(buffer, r, s, s.i + 2) /\ SameOptions(r, s)
  BY <1>3, <1>4, <1>5 DEF Took, Fields, NameKept
<1> QED
  BY <1>2, <1>6

LEMMA RoundRequest ==
  ASSUME NEW buffer \in Seq(Byte), NEW left \in Byte, NEW s \in ParserState,
         s.i \in 1..(Len(buffer) - 2), buffer[s.i] = IAC, buffer[s.i + 1] \in Verb
  PROVE  LET r == Round(buffer, s, left)
         IN  /\ Took(buffer, r, s, s.i + 3)
             /\ s.told = s.options
                  /\ (buffer[s.i + 2] = optionNegotiateAboutWindowSize
                        => buffer[s.i + 1] \in {DO, DONT})
                => r.told = r.options
<1> DEFINE c == buffer[s.i + 1]
           o == buffer[s.i + 2]
           t == [s EXCEPT !.i = s.i + 3]
<1>1. c # IAC /\ c # SB
  BY DEF Verb, IAC, SB, DO, DONT, WILL, WONT
<1>2. Round(buffer, s, left) = parseRequest(c, o, t)
  BY <1>1 DEF Round
<1>3. PICK r : r = Round(buffer, s, left)
  OBVIOUS
<1>4. s.i + 3 \in Nat /\ s.sends \in Nat /\ s.text = s.text \o <<>> /\ o \in Byte
  BY DEF ParserState
<1>5. Fields(t, s.i + 3, s.text, s.named, s.password, s.sends, s)
  BY <1>4, MovedIs
<1> HIDE DEF t, c, o
<1>6. /\ r \in ParserState /\ Elsewhere(r, t) /\ r.sends \in t.sends..(t.sends + 1)
      /\ t.told = t.options
           /\ (o = optionNegotiateAboutWindowSize => c \in {DO, DONT})
         => r.told = r.options
  <2>1. t \in ParserState /\ c \in Verb
    BY <1>5 DEF Fields, c
  <2> QED
    BY <1>2, <1>3, <1>4, <2>1, parseRequestIs
<1>7. Worth(buffer, s.i) = <<>>
  BY <1>1 DEF Worth, c
<1>8. Took(buffer, r, s, s.i + 3)
  BY <1>4, <1>5, <1>6, <1>7 DEF Took, Fields, Elsewhere, NameKept
<1> QED
  BY <1>3, <1>5, <1>6, <1>8 DEF Fields, SameOptions, c, o

\* A round that is the last leaves two bytes at most.
LEMMA RoundStays ==
  ASSUME NEW buffer \in Seq(Byte), NEW left \in Byte, NEW s \in ParserState, s.i >= 1,
         \/ s.i > Len(buffer)
         \/ s.i = Len(buffer) /\ buffer[s.i] = IAC
         \/ s.i = Len(buffer) - 1 /\ buffer[s.i] = IAC /\ buffer[s.i + 1] \in Verb
  PROVE  Round(buffer, s, left) = s
<1>1. s.i \in Nat
  BY DEF ParserState
<1>2. CASE s.i > Len(buffer)
  <2>1. ~(s.i + 0 <= Len(buffer))
    BY <1>1, <1>2
  <2> QED
    BY <2>1, Zenon DEF Round
<1>3. CASE s.i = Len(buffer) /\ buffer[s.i] = IAC
  <2>1. s.i + 0 <= Len(buffer) /\ ~(s.i + 1 <= Len(buffer))
    BY <1>1, <1>3
  <2> QED
    BY <1>3, <2>1, Zenon DEF Round
<1>4. CASE s.i = Len(buffer) - 1 /\ buffer[s.i] = IAC /\ buffer[s.i + 1] \in Verb
  <2>1. s.i + 0 <= Len(buffer) /\ s.i + 1 <= Len(buffer) /\ ~(s.i + 2 <= Len(buffer))
    BY <1>1, <1>4
  <2>2. buffer[s.i + 1] # IAC /\ buffer[s.i + 1] # SB
    BY <1>4 DEF Verb, IAC, SB, DO, DONT, WILL, WONT
  <2> QED
    BY <1>4, <2>1, <2>2, Zenon DEF Round
<1> QED
  BY <1>2, <1>3, <1>4

LEMMA RoundIs ==
  ASSUME NEW buffer \in Seq(Byte), NEW left \in Byte, NEW s \in ParserState, s.i >= 1,
         login.user \in BOOLEAN
  PROVE  LET r == Round(buffer, s, left)
         IN  /\ r \in ParserState /\ NameKept(r, s)
             /\ \/ r = s /\ s.i + 1 >= Len(buffer)
                \/ r.i > s.i /\ r.i <= Len(buffer) + 1
<1> DEFINE r == Round(buffer, s, left)
           L == Len(buffer)
           Goal == /\ r \in ParserState /\ NameKept(r, s)
                   /\ \/ r = s /\ s.i + 1 >= L
                      \/ r.i > s.i /\ r.i <= L + 1
<1>1. s.i \in Nat /\ L \in Nat
  BY DEF ParserState
<1> HIDE DEF r
<1>2. ASSUME s.i > L \/ (s.i = L /\ buffer[s.i] = IAC)
             \/ (s.i = L - 1 /\ buffer[s.i] = IAC /\ buffer[s.i + 1] \in Verb)
      PROVE  Goal
  <2>1. r = s
    BY <1>2, RoundStays DEF r
  <2> QED
    BY <1>1, <1>2, <2>1 DEF NameKept
<1>3. ASSUME NEW i \in Nat, Took(buffer, r, s, i), i > s.i, i <= L + 1
      PROVE  Goal
  BY <1>3 DEF Took
<1>4. ASSUME s.i <= L /\ buffer[s.i] # IAC
      PROVE  Goal
  <2>1. Took(buffer, r, s, s.i + 1)
    BY <1>1, <1>4, RoundText DEF r
  <2> QED
    BY <1>1, <1>3, <1>4, <2>1
<1>5. ASSUME s.i < L /\ buffer[s.i] = IAC /\ buffer[s.i + 1] = IAC
      PROVE  Goal
  <2>1. Took(buffer, r, s, s.i + 2)
    BY <1>1, <1>5, RoundEscape DEF r
  <2> QED
    BY <1>1, <1>3, <1>5, <2>1
<1>6. ASSUME s.i < L /\ buffer[s.i] = IAC /\ buffer[s.i + 1] = SB
      PROVE  Goal
  <2> DEFINE end == SubOptionEnd(buffer, s.i)
  <2>1. Took(buffer, r, s, end + 2)
    BY <1>1, <1>6, RoundSubOption DEF r
  <2>2. end = s.i \/ end \in (s.i + 2)..(L - 1)
    BY <1>1, SubOptionEndIs DEF EndsAt
  <2> HIDE DEF end
  <2> QED
    BY <1>1, <1>3, <1>6, <2>1, <2>2
<1>7. ASSUME s.i < L /\ buffer[s.i] = IAC /\ buffer[s.i + 1] \notin Verb \cup {SB, IAC}
      PROVE  Goal
  <2>1. Took(buffer, r, s, s.i + 2)
    BY <1>1, <1>7, RoundCommand DEF r
  <2> QED
    BY <1>1, <1>3, <1>7, <2>1
<1>8. ASSUME s.i < L - 1 /\ buffer[s.i] = IAC /\ buffer[s.i + 1] \in Verb
      PROVE  Goal
  <2>1. Took(buffer, r, s, s.i + 3)
    BY <1>1, <1>8, RoundRequest DEF r
  <2> QED
    BY <1>1, <1>3, <1>8, <2>1
<1>9. Goal
  BY <1>1, <1>2, <1>4, <1>5, <1>6, <1>7, <1>8
<1> QED
  BY <1>9 DEF r

(***************************************************************************)
(* What the loop does: what the rounds keep holds at its end, and a state  *)
(* that is not the end of the data moves on with every round, so that as   *)
(* many rounds as there are bytes are enough.                              *)
(***************************************************************************)

LEMMA LoopKeeps ==
  ASSUME NEW buffer \in Seq(Byte), NEW left \in Byte, login.user \in BOOLEAN,
         NEW W, W \subseteq ParserState, \A t \in W : t.i >= 1,
         \A t \in W : Round(buffer, t, left) \in W,
         NEW s \in W
  PROVE  /\ Parsed(buffer, s, left) \in W
         /\ Round(buffer, Parsed(buffer, s, left), left) = Parsed(buffer, s, left)
<1> DEFINE L == Len(buffer)
<1>1. L \in Nat
  OBVIOUS
<1>2. PICK f : Turns(buffer, s, left, L, f) /\ Parsed(buffer, s, left) = f[L]
  BY <1>1, ParsedIs, Zenon
<1> HIDE DEF L
<1>3. /\ f[0] = s
      /\ \A n \in 0..L : n + 1 \in 0..L => f[n + 1] = Turn(buffer, left)[f[n]]
  <2>1. f = [n \in 0..L |-> IF n = 0 THEN s ELSE Turn(buffer, left)[f[n - 1]]]
    BY <1>2 DEF Turns
  <2> QED
    BY <1>1, <2>1
<1> DEFINE Behind(n) == f[n].i >= n + 1 \/ Round(buffer, f[n], left) = f[n]
           S == {n \in Nat : n <= L => f[n] \in W /\ Behind(n)}
<1>4. 0 \in S
  <2>1. f[0] \in W /\ f[0].i >= 0 + 1
    BY <1>3
  <2> QED
    BY <2>1
<1>5. ASSUME NEW n \in S
      PROVE  n + 1 \in S
  <2>1. n \in Nat
    OBVIOUS
  <2>2. CASE ~(n + 1 <= L)
    BY <2>1, <2>2
  <2>3. ASSUME n + 1 <= L
        PROVE  n + 1 \in S
    <3>1. n \in 0..L /\ n + 1 \in 0..L /\ n <= L
      BY <1>1, <2>1, <2>3
    <3>2. f[n] \in W /\ Behind(n)
      BY <3>1
    <3>3. PICK t \in W : t = f[n]
      BY <3>2
    <3>4. PICK r \in W : r = Round(buffer, t, left)
      OBVIOUS
    <3>5. f[n + 1] = r
      BY <1>3, <3>1, <3>3, <3>4 DEF Turn
    <3>6. r = t \/ r.i > t.i
      <4>1. t \in ParserState /\ t.i >= 1
        OBVIOUS
      <4> QED
        BY <3>4, <4>1, RoundIs DEF L
    <3>7. t.i \in Nat /\ r.i \in Nat
      BY DEF ParserState
    <3>8. Behind(n + 1)
      <4>1. CASE r = t
        BY <3>4, <3>5, <4>1
      <4>2. CASE r # t
        <5>1. f[n].i >= n + 1
          BY <3>2, <3>3, <3>4, <4>2
        <5>2. f[n + 1].i >= (n + 1) + 1
          BY <2>1, <3>3, <3>5, <3>6, <3>7, <4>2, <5>1
        <5> QED
          BY <5>2
      <4> QED
        BY <4>1, <4>2
    <3> QED
      BY <2>1, <3>5, <3>8
  <2> QED
    BY <2>2, <2>3
<1>6. S = Nat
  <2>1. S \subseteq Nat
    OBVIOUS
  <2> HIDE DEF S
  <2> QED
    BY <1>4, <1>5, <2>1, CountedUp
<1>7. f[L] \in W /\ Behind(L)
  BY <1>1, <1>6
<1>8. Round(buffer, f[L], left) = f[L]
  <2>1. CASE f[L].i >= L + 1
    <3>1. PICK t \in W : t = f[L]
      BY <1>7
    <3>2. t \in ParserState /\ t.i >= 1 /\ t.i \in Nat
      BY DEF ParserState
    <3>3. t.i > Len(buffer)
      BY <1>1, <2>1, <3>1, <3>2 DEF L
    <3> QED
      BY <3>1, <3>2, <3>3, RoundStays
  <2> QED
    BY <1>7, <2>1
<1> QED
  BY <1>2, <1>7, <1>8 DEF L

LEMMA ParsedType ==
  ASSUME NEW buffer \in Seq(Byte), NEW left \in Byte, login.user \in BOOLEAN,
         NEW s \in ParserState, s.i = 1
  PROVE  LET r == Parsed(buffer, s, left)
         IN  /\ r \in ParserState /\ NameKept(r, s)
             /\ r.i \in 1..(Len(buffer) + 1) /\ r.i + 1 >= Len(buffer)
<1> DEFINE W == {t \in ParserState : t.i \in 1..(Len(buffer) + 1) /\ NameKept(t, s)}
<1>1. s \in W
  BY DEF NameKept
<1>2. ASSUME NEW t \in W
      PROVE  Round(buffer, t, left) \in W
  <2>1. t \in ParserState /\ t.i >= 1 /\ t.i \in 1..(Len(buffer) + 1) /\ NameKept(t, s)
    OBVIOUS
  <2>2. PICK r : r = Round(buffer, t, left)
    OBVIOUS
  <2>3. /\ r \in ParserState /\ NameKept(r, t)
        /\ \/ r = t /\ t.i + 1 >= Len(buffer)
           \/ r.i > t.i /\ r.i <= Len(buffer) + 1
    BY <2>1, <2>2, RoundIs
  <2>4. r.i \in Nat
    BY <2>3 DEF ParserState
  <2>5. r.i \in 1..(Len(buffer) + 1)
    BY <2>1, <2>3, <2>4
  <2>6. NameKept(r, s)
    BY <2>1, <2>3 DEF NameKept
  <2> QED
    BY <2>2, <2>3, <2>5, <2>6
<1>3. W \subseteq ParserState /\ \A t \in W : t.i >= 1
  OBVIOUS
<1> HIDE DEF W
<1>4. PICK r \in W : r = Parsed(buffer, s, left) /\ Round(buffer, r, left) = r
  BY <1>1, <1>2, <1>3, LoopKeeps
<1>5. /\ r \in ParserState /\ NameKept(r, s)
      /\ r.i \in 1..(Len(buffer) + 1) /\ r.i >= 1
  BY DEF W
<1>6. r.i + 1 >= Len(buffer)
  BY <1>4, <1>5, RoundIs
<1> QED
  BY <1>4, <1>5, <1>6

(***************************************************************************)
(* The types.                                                              *)
(***************************************************************************)

LEMMA LoginType ==
  ASSUME ConnTypeOK
  PROVE  login.user \in BOOLEAN /\ login.password \in BOOLEAN
BY TelnetAssumption DEF ConnTypeOK

LEMMA DisconnectsType ==
  ASSUME NEW n \in Nat
  PROVE  Disconnects(n) \in Seq(Task) /\ Len(Disconnects(n)) = n
<1>1. Disconnects(n) \in [1..n -> Task]
  BY DEF Disconnects, Task
<1> QED
  BY <1>1

LEMMA InitType == ConnInit => ConnTypeOK
<1> SUFFICES ASSUME ConnInit PROVE ConnTypeOK
  OBVIOUS
<1> DEFINE off == [o \in Option |-> [value |-> FALSE, remoteValue |-> FALSE]]
<1>1. off \in Settings
  BY DEF Settings
<1>2. options = off /\ told = off
  BY DEF ConnInit
<1>3. MaxMessages \in Nat
  BY TelnetAssumption, LineAssumption
<1> HIDE DEF off
<1>4. login \in Login /\ queue \in Seq(Task) /\ messages \in 0..MaxMessages
  BY <1>3 DEF ConnInit, Task
<1>5. /\ inBuffer \in Seq(0..255) /\ Len(inBuffer) <= 2
      /\ wire \in Seq(0..255) /\ shown \in Seq(0..255) /\ said \in Seq(0..255)
      /\ events \in Seq({"CONNECTED", "DISCONNECTED"})
  BY DEF ConnInit
<1>6. /\ fd \in BOOLEAN /\ readSource \in BOOLEAN
      /\ userNameSent \in BOOLEAN /\ needsSendingPassword \in BOOLEAN
      /\ isConnectedSent \in BOOLEAN /\ eof \in BOOLEAN /\ broken \in BOOLEAN
      /\ promptSeen \in BOOLEAN /\ passwordSent \in BOOLEAN /\ endAsked \in BOOLEAN
  BY DEF ConnInit
<1> QED
  BY <1>1, <1>2, <1>4, <1>5, <1>6 DEF ConnTypeOK

LEMMA SentType ==
  ASSUME ConnTypeOK, queue # <<>>, NEW n \in Nat, NEW ok \in BOOLEAN,
         Sent(Tail(queue), n, ok)
  PROVE  queue' \in Seq(Task) /\ broken' \in BOOLEAN
<1>1. queue \in Seq(Task) /\ Tail(queue) \in Seq(Task) /\ broken \in BOOLEAN
  BY DEF ConnTypeOK
<1>2. Disconnects(n) \in Seq(Task)
  BY DisconnectsType
<1>3. Tail(queue) \o Disconnects(n) \in Seq(Task)
  BY <1>1, <1>2, ConcatProperties
<1> QED
  BY <1>1, <1>3 DEF Sent

\* What a read begins with.
Begin == [i |-> 1, text |-> <<>>, options |-> options, told |-> told,
          named |-> userNameSent, password |-> needsSendingPassword, sends |-> 0]

LEMMA BeginType ==
  ASSUME ConnTypeOK
  PROVE  Begin \in ParserState /\ Begin.i = 1 /\ Begin.text = <<>> /\ Begin.sends = 0
         /\ Begin.options = options /\ Begin.told = told /\ Begin.named = userNameSent
         /\ Begin.password = needsSendingPassword
BY DEF ConnTypeOK, Begin, ParserState

\* The bytes a read has before it.
Buffer(n) == inBuffer \o SubSeq(wire, 1, n)

LEMMA BufferType ==
  ASSUME ConnTypeOK, NEW n \in 1..Len(wire)
  PROVE  /\ Buffer(n) \in Seq(Byte) /\ Len(Buffer(n)) = Len(inBuffer) + n
         /\ SubSeq(wire, n + 1, Len(wire)) \in Seq(Byte)
<1>1. inBuffer \in Seq(Byte) /\ wire \in Seq(Byte)
  BY DEF ConnTypeOK, Byte
<1>2. SubSeq(wire, 1, n) \in Seq(Byte) /\ Len(SubSeq(wire, 1, n)) = n
  BY <1>1, SubSeqProperties
<1>3. SubSeq(wire, n + 1, Len(wire)) \in Seq(Byte)
  BY <1>1, SubSeqProperties
<1> QED
  BY <1>1, <1>2, <1>3, ConcatProperties DEF Buffer

LEMMA UnparsedType ==
  ASSUME NEW buffer \in Seq(Byte), NEW s \in ParserState, s.i \in 1..(Len(buffer) + 1)
  PROVE  /\ Unparsed(buffer, s) \in Seq(Byte)
         /\ Len(Unparsed(buffer, s)) = Len(buffer) - s.i + 1
BY SubSeqProperties DEF Unparsed

LEMMA ReceivedType ==
  ASSUME ConnTypeOK, queue # <<>>, NEW n \in 1..Len(wire), NEW left \in Byte,
         NEW ok \in BOOLEAN, Received(n, left, ok),
         UNCHANGED <<fd, readSource, eof, messages, said, login, passwordSent, endAsked>>
  PROVE  ConnTypeOK'
<1> DEFINE s == Parsed(Buffer(n), Begin, left)
           tail == SubSeq(wire, n + 1, Len(wire))
           anonymous == ~isConnectedSent /\ ~login.user /\ ~login.password
           rest == IF ok THEN Tail(queue) ELSE Tail(queue) \o Disconnects(s.sends)
           password == IF s.password THEN <<"writePassword">> ELSE <<>>
<1>1. /\ s \in ParserState
      /\ s.i \in 1..(Len(Buffer(n)) + 1) /\ s.i + 1 >= Len(Buffer(n))
  <2>1. Buffer(n) \in Seq(Byte) /\ Begin \in ParserState /\ Begin.i = 1
        /\ login.user \in BOOLEAN
    BY BufferType, BeginType, LoginType
  <2> QED
    BY <2>1, ParsedType
<1>2. /\ wire' = tail
      /\ inBuffer' = Unparsed(Buffer(n), s)
      /\ shown' = shown \o s.text
      /\ options' = s.options
      /\ told' = s.told
      /\ userNameSent' = s.named
      /\ needsSendingPassword' = FALSE
      /\ isConnectedSent' = (isConnectedSent \/ anonymous)
      /\ events' = (IF anonymous THEN Append(events, "CONNECTED") ELSE events)
      /\ promptSeen' = (promptSeen \/ (userNameSent /\ login.user))
      /\ queue' = rest \o password
      /\ broken' = (broken \/ ~ok)
  BY DEF Received, Begin, Buffer
<1>3. tail \in Seq(Byte) /\ Buffer(n) \in Seq(Byte)
  BY BufferType
<1> HIDE DEF s, tail
<1>4. rest \in Seq(Task)
  <2>1. Tail(queue) \in Seq(Task)
    BY DEF ConnTypeOK
  <2>2. Disconnects(s.sends) \in Seq(Task)
    <3>1. s.sends \in Nat
      BY <1>1 DEF ParserState
    <3> QED
      BY <3>1, DisconnectsType
  <2>3. Tail(queue) \o Disconnects(s.sends) \in Seq(Task)
    BY <2>1, <2>2, ConcatProperties
  <2> QED
    BY <2>1, <2>3
<1>5. password \in Seq(Task)
  <2>1. <<"writePassword">> \in Seq(Task) /\ <<>> \in Seq(Task)
    BY DEF Task
  <2> QED
    BY <2>1
<1> HIDE DEF rest, password
<1>6. queue' \in Seq(Task)
  BY <1>2, <1>4, <1>5, ConcatProperties
<1>7. inBuffer' \in Seq(Byte) /\ Len(inBuffer') <= 2
  <2>1. /\ Unparsed(Buffer(n), s) \in Seq(Byte)
        /\ Len(Unparsed(Buffer(n), s)) = Len(Buffer(n)) - s.i + 1
    BY <1>1, <1>3, UnparsedType
  <2>2. s.i \in Nat /\ Len(Buffer(n)) \in Nat
    BY <1>1, <1>3 DEF ParserState
  <2>3. Len(Unparsed(Buffer(n), s)) <= 2
    BY <1>1, <2>1, <2>2
  <2> QED
    BY <1>2, <2>1, <2>3
<1>8. shown' \in Seq(Byte)
  BY <1>1, <1>2, ConcatProperties DEF ConnTypeOK, ParserState, Byte
<1>9. options' \in Settings /\ told' \in Settings /\ userNameSent' \in BOOLEAN
  BY <1>1, <1>2 DEF ParserState
<1>10. events' \in Seq({"CONNECTED", "DISCONNECTED"})
  BY <1>2, AppendProperties DEF ConnTypeOK
<1>11. wire' \in Seq(Byte)
  BY <1>2, <1>3
<1>12. /\ needsSendingPassword' \in BOOLEAN /\ isConnectedSent' \in BOOLEAN
       /\ promptSeen' \in BOOLEAN /\ broken' \in BOOLEAN
  BY <1>2 DEF ConnTypeOK
<1> HIDE DEF anonymous
<1> QED
  BY <1>6, <1>7, <1>8, <1>9, <1>10, <1>11, <1>12 DEF ConnTypeOK, Byte

LEMMA ServerSendsType ==
  ASSUME ConnTypeOK, ServerSends
  PROVE  wire' \in Seq(Byte) /\ said' \in Seq(Byte) /\ messages' \in 0..MaxMessages
<1>1. PICK m \in Message : wire' = wire \o m /\ said' = said \o TextOf(m)
  BY DEF ServerSends
<1>2. m \in Seq(Byte) /\ TextOf(m) \in Seq(Byte)
  <2>1. m \in Seq(Byte)
    BY TelnetAssumption DEF Byte
  <2>2. <<IAC>> \in Seq(Byte) /\ <<>> \in Seq(Byte)
    BY DEF IAC, Byte
  <2> QED
    BY <2>1, <2>2 DEF TextOf
<1>3. wire \in Seq(Byte) /\ said \in Seq(Byte)
  BY DEF ConnTypeOK, Byte
<1>4. wire' \in Seq(Byte) /\ said' \in Seq(Byte)
  BY <1>1, <1>2, <1>3, ConcatProperties
<1>5. messages' \in 0..MaxMessages
  BY TelnetAssumption, LineAssumption DEF ServerSends, ConnTypeOK
<1> QED
  BY <1>4, <1>5

\* Everything but the queue, the socket and the events.
Others == <<flags, serverVars, parserVars, history>>

LEMMA OthersType ==
  ASSUME ConnTypeOK, UNCHANGED Others, queue' \in Seq(Task), fd' \in BOOLEAN,
         readSource' \in BOOLEAN, events' \in Seq({"CONNECTED", "DISCONNECTED"})
  PROVE  ConnTypeOK'
BY DEF ConnTypeOK, Others, flags, serverVars, parserVars, history

LEMMA QueueType ==
  ASSUME ConnTypeOK, NEW task \in Task
  PROVE  /\ Append(queue, task) \in Seq(Task)
         /\ queue # <<>> => /\ Tail(queue) \in Seq(Task)
                            /\ Append(Tail(queue), task) \in Seq(Task)
BY AppendProperties DEF ConnTypeOK

LEMMA RunTaskType ==
  ASSUME ConnTypeOK, RunTask
  PROVE  ConnTypeOK'
<1>1. queue # <<>>
  BY DEF RunTask, connectTask, SourceCancelled, ReceiveFailed, newTerminalDataAvailable,
         writePassword, writeFrom, writeNothing, disconnectTask, Starts
<1>2. "disconnect" \in Task
  BY DEF Task
<1>3. /\ Tail(queue) \in Seq(Task) /\ Append(Tail(queue), "disconnect") \in Seq(Task)
  BY <1>1, <1>2, QueueType
<1>4. /\ fd \in BOOLEAN /\ readSource \in BOOLEAN
      /\ events \in Seq({"CONNECTED", "DISCONNECTED"})
      /\ Append(events, "CONNECTED") \in Seq({"CONNECTED", "DISCONNECTED"})
      /\ Append(events, "DISCONNECTED") \in Seq({"CONNECTED", "DISCONNECTED"})
  BY AppendProperties DEF ConnTypeOK
<1>5. CASE connectTask
  <2>1. /\ UNCHANGED Others /\ queue' \in Seq(Task) /\ fd' \in BOOLEAN
        /\ readSource' \in BOOLEAN /\ events' = events
    BY <1>3, <1>5 DEF connectTask, Others
  <2> QED
    BY <1>4, <2>1, OthersType
<1>6. CASE SourceCancelled
  BY <1>3, <1>4, <1>6, OthersType DEF SourceCancelled, Others
<1>7. CASE ReceiveFailed
  BY <1>3, <1>4, <1>7, OthersType DEF ReceiveFailed, Others
<1>8. CASE newTerminalDataAvailable
  <2>1. PICK n \in 1..Len(wire), left \in {0, optionSend}, ok \in BOOLEAN :
          Received(n, left, ok)
    BY <1>8 DEF newTerminalDataAvailable
  <2>2. UNCHANGED <<fd, readSource, eof, messages, said, login, passwordSent, endAsked>>
    BY <1>8 DEF newTerminalDataAvailable
  <2>3. left \in Byte
    BY DEF Byte, optionSend
  <2> QED
    BY <1>1, <2>1, <2>2, <2>3, ReceivedType
<1>9. CASE writePassword
  <2>1. CASE login.password
    <3>1. PICK ok \in {FALSE, fd} :
            Sent(Tail(queue), 1, ok) /\ passwordSent' = (passwordSent \/ ok)
      BY <1>9, <2>1 DEF writePassword
    <3>2. ok \in BOOLEAN
      BY <1>4
    <3>3. queue' \in Seq(Task) /\ broken' \in BOOLEAN
      BY <1>1, <3>1, <3>2, SentType
    <3>4. passwordSent' \in BOOLEAN
      BY <3>1, <3>2 DEF ConnTypeOK
    <3>5. events' = Append(events, "CONNECTED")
          /\ UNCHANGED <<fd, readSource, flags, serverVars, parserVars,
                         login, promptSeen, endAsked>>
      BY <1>9, <2>1 DEF writePassword
    <3> QED
      BY <1>4, <3>3, <3>4, <3>5 DEF ConnTypeOK, flags, serverVars, parserVars
  <2>2. CASE ~login.password
    BY <1>3, <1>4, <1>9, <2>2, OthersType DEF writePassword, Others, history
  <2> QED
    BY <2>1, <2>2
<1>10. CASE writeFrom
  <2>1. PICK ok \in {FALSE, fd} : Sent(Tail(queue), 1, ok)
    BY <1>10 DEF writeFrom
  <2>2. ok \in BOOLEAN
    BY <1>4
  <2>3. queue' \in Seq(Task) /\ broken' \in BOOLEAN
    BY <1>1, <2>1, <2>2, SentType
  <2> QED
    BY <1>10, <2>3 DEF writeFrom, ConnTypeOK, flags, serverVars, parserVars
<1>11. CASE writeNothing
  <2>1. queue' \in Seq(Task) /\ broken' \in BOOLEAN
    BY <1>1, <1>11, SentType DEF writeNothing
  <2> QED
    BY <1>11, <2>1 DEF writeNothing, ConnTypeOK, flags, serverVars, parserVars
<1>12. CASE disconnectTask
  BY <1>3, <1>4, <1>12, OthersType DEF disconnectTask, Others
<1> QED
  BY <1>5, <1>6, <1>7, <1>8, <1>9, <1>10, <1>11, <1>12 DEF RunTask

LEMMA TypeStep ==
  ASSUME ConnTypeOK, [ConnNext]_connVars
  PROVE  ConnTypeOK'
<1>1. CASE RunTask
  BY <1>1, RunTaskType
<1>2. CASE SourceReady
  BY <1>2, QueueType, OthersType DEF SourceReady, Others, ConnTypeOK, Task
<1>3. CASE ServerSends
  <2>1. wire' \in Seq(Byte) /\ said' \in Seq(Byte) /\ messages' \in 0..MaxMessages
    BY <1>3, ServerSendsType
  <2> QED
    BY <1>3, <2>1 DEF ServerSends, ConnTypeOK, Byte, flags, parserVars, history
<1>4. CASE ServerCloses
  BY <1>4 DEF ServerCloses, ConnTypeOK, flags, parserVars, history
<1>5. CASE TypeKey
  BY <1>5, QueueType, OthersType DEF TypeKey, Others, ConnTypeOK, Task
<1>6. CASE endConnection
  <2>1. queue' \in Seq(Task)
    BY <1>6, QueueType DEF endConnection, Task
  <2> QED
    BY <1>6, <2>1 DEF endConnection, ConnTypeOK, flags, serverVars, parserVars
<1>7. CASE UNCHANGED connVars
  BY <1>7 DEF connVars, ConnTypeOK, flags, serverVars, parserVars, history
<1> QED
  BY <1>1, <1>2, <1>3, <1>4, <1>5, <1>6, <1>7 DEF ConnNext

\* Every variable has its type, and a read leaves at most two bytes behind,
\* whatever the bytes are and wherever TCP cuts them (newTerminalDataAvailable).
THEOREM ConnectionTypes == ConnSpec => []ConnTypeOK
<1>1. ConnTypeOK /\ [ConnNext]_connVars => ConnTypeOK'
  BY TypeStep
<1> QED
  BY InitType, <1>1, PTL DEF ConnSpec

(***************************************************************************)
(* The items of the stream: a byte of text, a command, a request, a sub    *)
(* option.  An item that begins at a ends before b.                        *)
(***************************************************************************)

Item(x, a, b) ==
  \/ x[a] # IAC /\ b = a + 1
  \/ x[a] = IAC /\ x[a + 1] \notin Verb \cup {SB} /\ b = a + 2
  \/ /\ x[a] = IAC /\ x[a + 1] \in Verb /\ b = a + 3
     /\ x[a + 2] = optionNegotiateAboutWindowSize => x[a + 1] \in {DO, DONT}
  \/ /\ x[a] = IAC /\ x[a + 1] = SB /\ b >= a + 4
     /\ x[b - 2] = IAC /\ x[b - 1] = SE
     /\ \A i \in (a + 2)..(b - 3) : x[i] # IAC \/ x[i + 1] # SE

\* The answers an item may ask for.
AsksOf(x, a) == IF x[a] = IAC THEN 1 ELSE 0

LEMMA ItemEnds ==
  ASSUME NEW x, NEW a \in Int, NEW b \in Int, Item(x, a, b)
  PROVE  a < b /\ (x[a] = IAC => a + 1 < b)
BY DEF Item

\* The bytes of x from a on, before b, are in y too, d places later.
Copied(x, y, d, a, b) == \A i \in a..(b - 1) : y[i + d] = x[i]

LEMMA ItemMoves ==
  ASSUME NEW x, NEW y, NEW d \in Int, NEW a \in Int, NEW b \in Int, Item(x, a, b),
         Copied(x, y, d, a, b)
  PROVE  Item(y, a + d, b + d) /\ Worth(y, a + d) = Worth(x, a)
         /\ AsksOf(y, a + d) = AsksOf(x, a)
<1> USE DEF Copied
<1>1. a < b /\ (x[a] = IAC => a + 1 < b)
  BY ItemEnds
<1>2. y[a + d] = x[a]
  BY <1>1
<1>3. x[a] = IAC => y[(a + d) + 1] = x[a + 1]
  <2>1. SUFFICES ASSUME x[a] = IAC
                 PROVE  y[(a + d) + 1] = x[a + 1]
    OBVIOUS
  <2>2. a + 1 \in a..(b - 1) /\ (a + 1) + d = (a + d) + 1
    BY <1>1, <2>1
  <2> QED
    BY <2>2
<1>4. Worth(y, a + d) = Worth(x, a) /\ AsksOf(y, a + d) = AsksOf(x, a)
  BY <1>2, <1>3 DEF Worth, AsksOf
<1>5. CASE x[a] # IAC /\ b = a + 1
  <2>1. y[a + d] # IAC /\ b + d = (a + d) + 1
    BY <1>2, <1>5
  <2> QED
    BY <1>4, <2>1 DEF Item
<1>6. CASE x[a] = IAC /\ x[a + 1] \notin Verb \cup {SB} /\ b = a + 2
  <2>1. y[a + d] = IAC /\ y[(a + d) + 1] \notin Verb \cup {SB} /\ b + d = (a + d) + 2
    BY <1>2, <1>3, <1>6
  <2> QED
    BY <1>4, <2>1 DEF Item
<1>7. CASE /\ x[a] = IAC /\ x[a + 1] \in Verb /\ b = a + 3
           /\ x[a + 2] = optionNegotiateAboutWindowSize => x[a + 1] \in {DO, DONT}
  <2>1. a + 2 \in a..(b - 1) /\ (a + 2) + d = (a + d) + 2 /\ b + d = (a + d) + 3
    BY <1>7
  <2>2. y[(a + d) + 2] = x[a + 2]
    BY <2>1
  <2> QED
    BY <1>2, <1>3, <1>4, <1>7, <2>1, <2>2 DEF Item
<1>8. CASE /\ x[a] = IAC /\ x[a + 1] = SB /\ b >= a + 4
           /\ x[b - 2] = IAC /\ x[b - 1] = SE
           /\ \A i \in (a + 2)..(b - 3) : x[i] # IAC \/ x[i + 1] # SE
  <2>1. /\ b - 2 \in a..(b - 1) /\ (b - 2) + d = (b + d) - 2
        /\ b - 1 \in a..(b - 1) /\ (b - 1) + d = (b + d) - 1
        /\ b + d >= (a + d) + 4
    BY <1>8
  <2>2. y[(b + d) - 2] = IAC /\ y[(b + d) - 1] = SE
    BY <1>8, <2>1
  <2>3. ASSUME NEW i \in ((a + d) + 2)..((b + d) - 3)
        PROVE  y[i] # IAC \/ y[i + 1] # SE
    <3> DEFINE k == i - d
    <3>1. /\ k \in (a + 2)..(b - 3) /\ k \in a..(b - 1) /\ k + d = i
          /\ k + 1 \in a..(b - 1) /\ (k + 1) + d = i + 1
      BY <1>8
    <3> HIDE DEF k
    <3>2. y[i] = x[k] /\ y[i + 1] = x[k + 1]
      BY <3>1
    <3> QED
      BY <1>8, <3>1, <3>2
  <2>4. y[a + d] = IAC /\ y[(a + d) + 1] = SB
    BY <1>2, <1>3, <1>8
  <2>5. Item(y, a + d, b + d)
    BY <2>1, <2>2, <2>3, <2>4 DEF Item
  <2> QED
    BY <1>4, <2>5
<1> QED
  BY <1>5, <1>6, <1>7, <1>8 DEF Item

\* The sub option that is looked for is the item's.
LEMMA ItemSubOption ==
  ASSUME NEW x \in Seq(Byte), NEW a \in 1..Len(x), NEW b \in 1..(Len(x) + 1), Item(x, a, b),
         x[a] = IAC, x[a + 1] = SB
  PROVE  SubOptionEnd(x, a) = b - 2
<1>1. /\ b >= a + 4 /\ x[b - 2] = IAC /\ x[b - 1] = SE
      /\ \A i \in (a + 2)..(b - 3) : x[i] # IAC \/ x[i + 1] # SE
  BY DEF Item, Verb, SB, DO, DONT, WILL, WONT
<1>2. b - 2 \in EndsAt(x, a)
  <2>1. b - 2 \in (a + 2)..(Len(x) - 1) /\ (b - 2) + 1 = b - 1
    BY <1>1
  <2> QED
    BY <1>1, <2>1 DEF EndsAt
<1>3. PICK e : e = SubOptionEnd(x, a)
  OBVIOUS
<1>4. e \in EndsAt(x, a) /\ e <= b - 2
  BY <1>2, <1>3, SubOptionEndIs
<1>5. e \in (a + 2)..(Len(x) - 1) /\ x[e] = IAC /\ x[e + 1] = SE
  BY <1>4 DEF EndsAt
<1>6. ~(e < b - 2)
  <2>1. e < b - 2 => e \in (a + 2)..(b - 3)
    BY <1>5
  <2> QED
    BY <1>1, <1>5, <2>1
<1> QED
  BY <1>3, <1>4, <1>5, <1>6

LEMMA RoundItem ==
  ASSUME NEW buffer \in Seq(Byte), NEW left \in Byte, NEW s \in ParserState,
         login.user \in BOOLEAN, s.i \in 1..Len(buffer), NEW b \in 1..(Len(buffer) + 1),
         Item(buffer, s.i, b)
  PROVE  LET r == Round(buffer, s, left)
         IN  Took(buffer, r, s, b) /\ (s.told = s.options => r.told = r.options)
<1> DEFINE L == Len(buffer)
<1>1. PICK r : r = Round(buffer, s, left)
  OBVIOUS
<1>2. s.i \in Int /\ L \in Int
  OBVIOUS
<1> DEFINE Goal == Took(buffer, r, s, b) /\ (s.told = s.options => r.told = r.options)
<1>3. ASSUME buffer[s.i] # IAC /\ b = s.i + 1
      PROVE  Goal
  <2>1. Took(buffer, r, s, s.i + 1) /\ SameOptions(r, s)
    BY <1>1, <1>3, RoundText
  <2> QED
    BY <1>3, <2>1 DEF SameOptions
<1>4. ASSUME buffer[s.i] = IAC, buffer[s.i + 1] \notin Verb \cup {SB}, b = s.i + 2
      PROVE  Goal
  <2>1. s.i \in 1..(L - 1)
    BY <1>2, <1>4
  <2>2. CASE buffer[s.i + 1] = IAC
    <3>1. Took(buffer, r, s, s.i + 2) /\ SameOptions(r, s)
      BY <1>1, <1>4, <2>1, <2>2, RoundEscape
    <3> QED
      BY <1>4, <3>1 DEF SameOptions
  <2>3. CASE buffer[s.i + 1] # IAC
    <3>1. buffer[s.i + 1] \notin Verb \cup {SB, IAC}
      BY <1>4, <2>3
    <3>2. Took(buffer, r, s, s.i + 2) /\ SameOptions(r, s)
      BY <1>1, <1>4, <2>1, <3>1, RoundCommand
    <3> QED
      BY <1>4, <3>2 DEF SameOptions
  <2> QED
    BY <2>2, <2>3
<1>5. ASSUME buffer[s.i] = IAC, buffer[s.i + 1] \in Verb, b = s.i + 3,
             buffer[s.i + 2] = optionNegotiateAboutWindowSize
               => buffer[s.i + 1] \in {DO, DONT}
      PROVE  Goal
  <2>1. s.i \in 1..(L - 2)
    BY <1>2, <1>5
  <2>2. /\ Took(buffer, r, s, s.i + 3)
        /\ s.told = s.options => r.told = r.options
    BY <1>1, <1>5, <2>1, RoundRequest
  <2> QED
    BY <1>5, <2>2
<1>6. ASSUME buffer[s.i] = IAC, buffer[s.i + 1] = SB, b >= s.i + 4
      PROVE  Goal
  <2>1. s.i \in 1..(L - 1)
    BY <1>2, <1>6
  <2>2. SubOptionEnd(buffer, s.i) = b - 2
    BY <1>6, ItemSubOption
  <2>3. Took(buffer, r, s, SubOptionEnd(buffer, s.i) + 2) /\ SameOptions(r, s)
    BY <1>1, <1>6, <2>1, RoundSubOption
  <2>4. (b - 2) + 2 = b
    OBVIOUS
  <2> QED
    BY <2>2, <2>3, <2>4 DEF SameOptions
<1>7. Goal
  BY <1>3, <1>4, <1>5, <1>6 DEF Item
<1> QED
  BY <1>1, <1>7

\* What is cut within an item, other than a sub option, stays.
LEMMA RoundCut ==
  ASSUME NEW x \in Seq(Byte), NEW buffer \in Seq(Byte), NEW left \in Byte,
         NEW s \in ParserState, s.i \in 1..Len(buffer), NEW b \in Int,
         Len(buffer) <= Len(x), \A i \in 1..Len(buffer) : buffer[i] = x[i],
         Item(x, s.i, b), b > Len(buffer) + 1, x[s.i] = IAC => x[s.i + 1] # SB
  PROVE  Round(buffer, s, left) = s
<1> DEFINE L == Len(buffer)
<1>1. s.i \in Int /\ L \in Int /\ s.i >= 1 /\ buffer[s.i] = x[s.i]
  OBVIOUS
<1>2. s.i + 1 <= L => buffer[s.i + 1] = x[s.i + 1]
  BY <1>1
<1>3. x[s.i] = IAC
  BY <1>1 DEF Item
<1>4. b = s.i + 2 \/ (b = s.i + 3 /\ x[s.i + 1] \in Verb)
  BY <1>3 DEF Item
<1>5. \/ s.i = L /\ buffer[s.i] = IAC
      \/ s.i = L - 1 /\ buffer[s.i] = IAC /\ buffer[s.i + 1] \in Verb
  <2>1. CASE s.i = L
    BY <1>1, <1>3, <2>1
  <2>2. CASE s.i # L
    <3>1. s.i < L /\ b > L + 1
      BY <1>1, <2>2
    <3>2. s.i = L - 1 /\ b = s.i + 3
      BY <1>1, <1>4, <3>1
    <3>3. x[s.i + 1] \in Verb /\ s.i + 1 <= L
      BY <1>1, <1>4, <3>1, <3>2
    <3> QED
      BY <1>1, <1>2, <1>3, <3>2, <3>3
  <2> QED
    BY <2>1, <2>2
<1> QED
  BY <1>1, <1>5, RoundStays

LEMMA SubSeqMoves ==
  ASSUME NEW x \in Seq(Byte), NEW y, NEW d \in Int, NEW a \in Nat \ {0}, NEW b \in 0..Len(x),
         Copied(x, y, d, a, b + 1)
  PROVE  SubSeq(y, a + d, b + d) = SubSeq(x, a, b)
<1>c. \A i \in a..b : x[i] \in Byte /\ y[i + d] = x[i]
  BY DEF Copied
<1> DEFINE u == SubSeq(x, a, b)
           v == SubSeq(y, a + d, b + d)
           A == a + d
           B == b + d
<1>1. /\ u \in Seq(Byte) /\ Len(u) = (IF a <= b THEN b - a + 1 ELSE 0)
      /\ \A i \in 1..(b - a + 1) : u[i] = x[a + i - 1]
  BY SubSeqProperties
<1>2. A \in Int /\ B \in Int
  OBVIOUS
<1>3. ASSUME NEW i \in A..B
      PROVE  y[i] \in Byte
  <2>1. PICK k \in a..b : k + d = i
    <3>1. i - d \in a..b /\ (i - d) + d = i
      OBVIOUS
    <3> QED
      BY <3>1
  <2> QED
    BY <1>c, <2>1
<1> HIDE DEF A, B
<1>4. /\ SubSeq(y, A, B) \in Seq(Byte) /\ Len(SubSeq(y, A, B)) = (IF A <= B THEN B - A + 1 ELSE 0)
      /\ \A i \in 1..(B - A + 1) : SubSeq(y, A, B)[i] = y[A + i - 1]
  BY <1>2, <1>3, SubSeqProperties
<1>5. /\ v \in Seq(Byte) /\ Len(v) = (IF a <= b THEN b - a + 1 ELSE 0)
      /\ \A i \in 1..(b - a + 1) : v[i] = y[(a + i - 1) + d]
  BY <1>4 DEF A, B
<1> HIDE DEF u, v
<1>6. ASSUME NEW i \in 1..Len(u)
      PROVE  u[i] = v[i]
  <2>1. i \in 1..(b - a + 1)
    BY <1>1
  <2>2. PICK k \in a..b : k = a + i - 1
    BY <2>1
  <2>3. u[i] = x[k] /\ v[i] = y[k + d]
    BY <1>1, <1>5, <2>1, <2>2
  <2> QED
    BY <1>c, <2>3
<1>7. u = v
  <2>1. Len(u) = Len(v)
    BY <1>1, <1>5
  <2> QED
    BY <1>1, <1>5, <1>6, <2>1, SeqEqual
<1> QED
  BY <1>7 DEF u, v

\* The item of x from a on has the text of t after p, up to r.
Shows(x, a, b, t, p, r) == Item(x, a, b) /\ SubSeq(t, p + 1, r) = Worth(x, a)

\* All of x is in y, d places later.
Within(x, y, d) == \A i \in 1..Len(x) : y[i + d] = x[i]

TextWithin(t, q, f) ==
  \A p \in Nat, r \in 0..Len(t) : SubSeq(q, (p + f) + 1, r + f) = SubSeq(t, p + 1, r)

LEMMA TextMoves ==
  ASSUME NEW t \in Seq(Byte), NEW q \in Seq(Byte), NEW f \in Int, Within(t, q, f)
  PROVE  TextWithin(t, q, f)
<1>1. SUFFICES ASSUME NEW p \in Nat, NEW r \in 0..Len(t)
               PROVE  SubSeq(q, (p + f) + 1, r + f) = SubSeq(t, p + 1, r)
  BY DEF TextWithin
<1> DEFINE d == p + 1
<1>2. Copied(t, q, f, d, r + 1)
  <2>1. ASSUME NEW i \in d..((r + 1) - 1)
        PROVE  q[i + f] = t[i]
    <3>1. i \in 1..Len(t)
      OBVIOUS
    <3> QED
      BY <3>1 DEF Within
  <2> QED
    BY <2>1 DEF Copied
<1>3. d \in Nat \ {0} /\ (p + f) + 1 = d + f
  OBVIOUS
<1> HIDE DEF d
<1>4. SubSeq(q, d + f, r + f) = SubSeq(t, d, r)
  BY <1>2, <1>3, SubSeqMoves
<1>5. SubSeq(q, (p + f) + 1, r + f) = SubSeq(q, d + f, r + f)
  BY <1>3, Zenon
<1> QED
  BY <1>4, <1>5 DEF d

(***************************************************************************)
(* A stream x and the text t in it.  A mark is a place where an item may   *)
(* begin, with the bytes of the text that are in the items before it and   *)
(* the answers they may have asked for, c at most.  A trail is a set of    *)
(* marks from which the items lead on to the end of both.                  *)
(***************************************************************************)

MarkOf(x, t, c) == [at : 1..(Len(x) + 1), seen : 0..Len(t), asked : 0..c]

Leads(x, t, m, n) ==
  /\ Shows(x, m.at, n.at, t, m.seen, n.seen) /\ m.seen <= n.seen
  /\ n.asked = m.asked + AsksOf(x, m.at)

Over(x, t, m) == m.at = Len(x) + 1 /\ m.seen = Len(t)

Trail(C, x, t, c) ==
  /\ C \subseteq MarkOf(x, t, c)
  /\ \A m \in C : Over(x, t, m) \/ \E n \in C : Leads(x, t, m, n)

LEMMA MarkIs ==
  ASSUME NEW x \in Seq(Byte), NEW t \in Seq(Byte), NEW c \in Nat, NEW C,
         Trail(C, x, t, c), NEW m \in C
  PROVE  /\ m \in MarkOf(x, t, c)
         /\ m.at \in 1..(Len(x) + 1) /\ m.at \in Int
         /\ m.seen \in 0..Len(t) /\ m.seen \in Nat
         /\ m.asked \in 0..c /\ m.asked \in Nat
<1>1. m \in MarkOf(x, t, c)
  BY DEF Trail
<1>2. Len(x) \in Nat /\ Len(t) \in Nat
  OBVIOUS
<1> QED
  BY <1>1, <1>2 DEF MarkOf

LEMMA MarkLeads ==
  ASSUME NEW x, NEW t, NEW c, NEW C, Trail(C, x, t, c), NEW m \in C
  PROVE  Over(x, t, m) \/ \E n \in C : Leads(x, t, m, n)
BY DEF Trail

\* The text up to r is the text up to p and what lies between.
LEMMA SubSeqJoins ==
  ASSUME NEW t \in Seq(Byte), NEW o \in Nat, NEW p \in Nat, NEW r \in 0..Len(t),
         o <= p, p <= r
  PROVE  SubSeq(t, o + 1, r) = SubSeq(t, o + 1, p) \o SubSeq(t, p + 1, r)
<1> DEFINE u == SubSeq(t, o + 1, r)
           v == SubSeq(t, o + 1, p)
           w == SubSeq(t, p + 1, r)
<1>1. o + 1 \in Int /\ p + 1 \in Int /\ r \in Int /\ p \in Int
  OBVIOUS
<1>2. /\ u \in Seq(Byte) /\ Len(u) = r - o
      /\ \A i \in 1..(r - o) : u[i] = t[(o + 1) + i - 1]
  BY <1>1, SubSeqProperties
<1>3. /\ v \in Seq(Byte) /\ Len(v) = p - o
      /\ \A i \in 1..(p - o) : v[i] = t[(o + 1) + i - 1]
  BY <1>1, SubSeqProperties
<1>4. /\ w \in Seq(Byte) /\ Len(w) = r - p
      /\ \A i \in 1..(r - p) : w[i] = t[(p + 1) + i - 1]
  BY <1>1, SubSeqProperties
<1> HIDE DEF u, v, w
<1>5. /\ v \o w \in Seq(Byte) /\ Len(v \o w) = r - o
      /\ \A i \in 1..(r - o) : (v \o w)[i] = IF i <= p - o THEN v[i] ELSE w[i - (p - o)]
  <2>1. /\ v \o w \in Seq(Byte) /\ Len(v \o w) = Len(v) + Len(w)
        /\ \A i \in 1..(Len(v) + Len(w)) :
             (v \o w)[i] = IF i <= Len(v) THEN v[i] ELSE w[i - Len(v)]
    BY <1>3, <1>4, ConcatProperties
  <2>2. Len(v) + Len(w) = r - o
    BY <1>3, <1>4
  <2> QED
    BY <1>3, <2>1, <2>2
<1>6. ASSUME NEW i \in 1..(r - o)
      PROVE  u[i] = (v \o w)[i]
  <2>1. CASE i <= p - o
    BY <1>2, <1>3, <1>5, <2>1
  <2>2. CASE ~(i <= p - o)
    <3>1. PICK k \in 1..(r - p) : k = i - (p - o)
      BY <2>2
    <3>2. (p + 1) + k - 1 = (o + 1) + i - 1
      BY <3>1
    <3> QED
      BY <1>2, <1>4, <1>5, <2>2, <3>1, <3>2
  <2> QED
    BY <2>1, <2>2
<1>7. u = v \o w
  BY <1>2, <1>5, <1>6, SeqEqual
<1> QED
  BY <1>7 DEF u, v, w

Prefixes(buffer, x) ==
  Len(buffer) <= Len(x) /\ \A i \in 1..Len(buffer) : buffer[i] = x[i]

\* The first k bytes of x are short of an item.
Stuck(x, k) == \A b \in 1..(k + 1) : ~Item(x, 1, b)

\* An item that the end of the first l bytes cuts is no sub option, if it begins
\* at the first byte or behind the first k.
CutsNoSubOption(x, l, k) ==
  \A a \in 1..l, b \in 1..(Len(x) + 1) :
    Item(x, a, b) /\ b > l + 1 /\ (a = 1 \/ a > k)
      => ~(x[a] = IAC /\ x[a + 1] = SB)

\* The parser began in s at the mark m and is at the mark p in r.
Reached(buffer, t, k, s, m, r, p) ==
  /\ r \in ParserState /\ r.i = p.at /\ p.at <= Len(buffer) + 1
  /\ p.at = 1 \/ p.at > k
  /\ m.seen <= p.seen /\ r.text = SubSeq(t, m.seen + 1, p.seen)
  /\ r.sends <= p.asked
  /\ s.told = s.options => r.told = r.options

LEMMA RoundReaches ==
  ASSUME NEW x \in Seq(Byte), NEW t \in Seq(Byte), NEW c \in Nat, NEW C,
         Trail(C, x, t, c), NEW buffer \in Seq(Byte), Prefixes(buffer, x),
         NEW left \in Byte, login.user \in BOOLEAN, NEW k \in 0..Len(buffer),
         Stuck(x, k), CutsNoSubOption(x, Len(buffer), k), NEW s, NEW m, m.seen \in Nat,
         NEW p \in C, NEW r, Reached(buffer, t, k, s, m, r, p)
  PROVE  \E q \in C : Reached(buffer, t, k, s, m, Round(buffer, r, left), q)
<1>1. /\ r \in ParserState /\ r.i = p.at /\ p.at <= Len(buffer) + 1
      /\ p.at = 1 \/ p.at > k
      /\ m.seen <= p.seen /\ r.text = SubSeq(t, m.seen + 1, p.seen)
      /\ r.sends <= p.asked
      /\ s.told = s.options => r.told = r.options
  BY Zenon DEF Reached
<1>2. PICK L \in Nat : L = Len(buffer)
  OBVIOUS
<1>3. PICK X \in Nat : X = Len(x)
  OBVIOUS
<1>4. L <= X /\ k \in Nat /\ k <= L
  BY <1>2, <1>3 DEF Prefixes
<1>5. /\ p.at \in 1..(X + 1) /\ p.at \in Int /\ p.seen \in 0..Len(t) /\ p.seen \in Nat
      /\ p.asked \in Nat
  BY <1>3, MarkIs
<1>6. CASE p.at > L
  <2>1. Round(buffer, r, left) = r
    BY <1>1, <1>2, <1>5, <1>6, RoundStays
  <2> QED
    BY <2>1
<1>7. CASE p.at <= L
  <2>1. ~Over(x, t, p)
    BY <1>3, <1>4, <1>5, <1>7 DEF Over
  <2>2. PICK n \in C : Leads(x, t, p, n)
    BY <2>1, MarkLeads
  <2>3. /\ Item(x, p.at, n.at) /\ SubSeq(t, p.seen + 1, n.seen) = Worth(x, p.at)
        /\ p.seen <= n.seen /\ n.asked = p.asked + AsksOf(x, p.at)
    BY <2>2 DEF Leads, Shows
  <2>4. /\ n.at \in 1..(X + 1) /\ n.at \in Int /\ n.seen \in 0..Len(t) /\ n.seen \in Nat
        /\ n.asked \in Nat
    BY <1>3, MarkIs
  <2>5. p.at < n.at
    BY <1>5, <2>3, <2>4, ItemEnds
  <2>6. r.i \in 1..Len(buffer)
    BY <1>1, <1>2, <1>5, <1>7
  <2>7. CASE n.at <= L + 1
    <3>1. Copied(x, buffer, 0, p.at, n.at)
      <4>1. ASSUME NEW i \in p.at..(n.at - 1)
            PROVE  buffer[i + 0] = x[i]
        <5>1. i \in 1..Len(buffer) /\ i + 0 = i
          BY <1>2, <1>5, <2>4, <2>7
        <5> QED
          BY <5>1 DEF Prefixes
      <4> QED
        BY <4>1 DEF Copied
    <3>2. /\ Item(buffer, p.at + 0, n.at + 0) /\ Worth(buffer, p.at + 0) = Worth(x, p.at)
          /\ AsksOf(buffer, p.at + 0) = AsksOf(x, p.at)
      <4>1. 0 \in Int
        OBVIOUS
      <4> QED
        BY <1>5, <2>3, <2>4, <3>1, <4>1, ItemMoves
    <3>3. p.at + 0 = p.at /\ n.at + 0 = n.at
      BY <1>5, <2>4
    <3>4. PICK u : u = Round(buffer, r, left)
      OBVIOUS
    <3>5. n.at \in 1..(Len(buffer) + 1)
      BY <1>2, <2>4, <2>7
    <3>6. Took(buffer, u, r, n.at) /\ (r.told = r.options => u.told = u.options)
      BY <1>1, <2>6, <3>2, <3>3, <3>4, <3>5, RoundItem
    <3>7. /\ u \in ParserState /\ u.i = n.at /\ u.text = r.text \o Worth(x, p.at)
          /\ u.sends \in r.sends..(r.sends + AsksOf(x, p.at))
      BY <1>1, <3>2, <3>3, <3>6 DEF Took, AsksOf
    <3>8. n.at = 1 \/ n.at > k
      <4>1. CASE p.at = 1
        <5>1. ~(n.at \in 1..(k + 1))
          BY <2>3, <4>1 DEF Stuck
        <5> QED
          BY <1>4, <2>4, <5>1
      <4>2. CASE p.at > k
        BY <1>4, <1>5, <2>4, <2>5, <4>2
      <4> QED
        BY <1>1, <4>1, <4>2
    <3>9. u.text = SubSeq(t, m.seen + 1, n.seen)
      <4>1. PICK o \in Nat : o = m.seen
        OBVIOUS
      <4>2. PICK g \in Nat : g = p.seen
        BY <1>5
      <4>3. PICK h \in 0..Len(t) : h = n.seen
        BY <2>4
      <4>4. o <= g /\ g <= h
        BY <1>1, <2>3, <4>1, <4>2, <4>3
      <4>5. SubSeq(t, o + 1, h) = SubSeq(t, o + 1, g) \o SubSeq(t, g + 1, h)
        BY <4>4, SubSeqJoins
      <4> QED
        BY <1>1, <2>3, <3>7, <4>1, <4>2, <4>3, <4>5, Zenon
    <3>10. u.sends <= n.asked
      <4>1. AsksOf(x, p.at) \in Int /\ r.sends \in Int
        BY <1>1 DEF AsksOf, ParserState
      <4>2. u.sends \in Int
        BY <3>7 DEF ParserState
      <4>3. PICK d \in Int : d = AsksOf(x, p.at)
        BY <4>1
      <4>4. u.sends \in r.sends..(r.sends + d) /\ n.asked = p.asked + d
        BY <2>3, <3>7, <4>3
      <4>5. r.sends <= p.asked
        BY <1>1
      <4>6. PICK v \in Int : v = u.sends
        BY <4>2
      <4>7. PICK w \in Int : w = r.sends
        BY <4>1
      <4>8. PICK z \in Int : z = p.asked
        BY <1>5
      <4>9. v <= w + d /\ w <= z
        BY <4>4, <4>5, <4>6, <4>7, <4>8
      <4>10. v <= z + d
        BY <4>9
      <4>11. n.asked = z + d
        BY <4>4, <4>8
      <4> QED
        BY <4>6, <4>10, <4>11, Zenon
    <3>11. m.seen <= n.seen
      <4>1. PICK o \in Nat : o = m.seen
        OBVIOUS
      <4>2. PICK g \in Nat : g = p.seen
        BY <1>5
      <4>3. PICK h \in 0..Len(t) : h = n.seen
        BY <2>4
      <4>4. o <= g
        BY <1>1, <4>1, <4>2, Zenon
      <4>5. g <= h
        BY <2>3, <4>2, <4>3, Zenon
      <4>6. o <= h
        BY <4>4, <4>5
      <4> QED
        BY <4>1, <4>3, <4>6, Zenon
    <3>12. n.at <= Len(buffer) + 1
      BY <1>2, <2>4, <2>7
    <3>13. s.told = s.options => u.told = u.options
      BY <1>1, <3>6, Zenon
    <3>14. Reached(buffer, t, k, s, m, u, n)
      BY <3>7, <3>8, <3>9, <3>10, <3>11, <3>12, <3>13, Zenon DEF Reached
    <3> QED
      BY <3>4, <3>14
  <2>8. CASE n.at > L + 1
    <3>1. x[r.i] = IAC => x[r.i + 1] # SB
      <4>1. p.at \in 1..Len(buffer) /\ n.at \in 1..(Len(x) + 1) /\ n.at > Len(buffer) + 1
        BY <1>1, <1>2, <1>3, <2>4, <2>6, <2>8
      <4> QED
        BY <1>1, <2>3, <4>1 DEF CutsNoSubOption
    <3>2. Len(buffer) <= Len(x) /\ \A i \in 1..Len(buffer) : buffer[i] = x[i]
      BY DEF Prefixes
    <3>3. Round(buffer, r, left) = r
      BY <1>1, <1>2, <2>3, <2>4, <2>6, <2>8, <3>1, <3>2, RoundCut
    <3> QED
      BY <3>3
  <2> QED
    BY <1>2, <2>4, <2>7, <2>8
<1> QED
  BY <1>2, <1>5, <1>6, <1>7

LEMMA ParsedReaches ==
  ASSUME NEW x \in Seq(Byte), NEW t \in Seq(Byte), NEW c \in Nat, NEW C,
         Trail(C, x, t, c), NEW buffer \in Seq(Byte), Prefixes(buffer, x),
         NEW left \in Byte, login.user \in BOOLEAN, NEW k \in 0..Len(buffer),
         Stuck(x, k), CutsNoSubOption(x, Len(buffer), k), NEW m \in C, m.at = 1,
         NEW s \in ParserState, s.i = 1, s.text = <<>>, s.sends = 0
  PROVE  LET r == Parsed(buffer, s, left)
         IN  /\ Round(buffer, r, left) = r
             /\ \E p \in C : Reached(buffer, t, k, s, m, r, p)
<1> DEFINE W == {r \in ParserState : \E p \in C : Reached(buffer, t, k, s, m, r, p)}
<1>1. m.seen \in Nat /\ m.asked \in Nat /\ m.seen \in 0..Len(t)
  BY MarkIs
<1>2. s \in W
  <2>1. SubSeq(t, m.seen + 1, m.seen) = <<>>
    <3>1. PICK o \in 0..Len(t) : o = m.seen
      BY <1>1
    <3>2. SubSeq(t, o + 1, o) = <<>>
      <4>1. Len(SubSeq(t, o + 1, o)) = 0 /\ SubSeq(t, o + 1, o) \in Seq(Byte)
        BY SubSeqProperties
      <4> QED
        BY <4>1, EmptySeq
    <3> QED
      BY <3>1, <3>2, Zenon
  <2>2. s.sends <= m.asked /\ m.seen <= m.seen /\ m.at <= Len(buffer) + 1
    BY <1>1
  <2>3. Reached(buffer, t, k, s, m, s, m)
    BY <2>1, <2>2, Zenon DEF Reached
  <2> QED
    BY <2>3
<1>3. ASSUME NEW r \in W
      PROVE  Round(buffer, r, left) \in W /\ r.i >= 1
  <2>1. PICK p \in C : Reached(buffer, t, k, s, m, r, p)
    OBVIOUS
  <2>2. r.i >= 1
    <3>1. p.at \in 1..(Len(x) + 1)
      BY MarkIs
    <3> QED
      BY <2>1, <3>1 DEF Reached
  <2>3. PICK q \in C : Reached(buffer, t, k, s, m, Round(buffer, r, left), q)
    BY <1>1, <2>1, RoundReaches, Zenon
  <2>4. Round(buffer, r, left) \in ParserState
    BY <2>3, Zenon DEF Reached
  <2> QED
    BY <2>2, <2>3, <2>4
<1>4. W \subseteq ParserState
  OBVIOUS
<1> HIDE DEF W
<1>5. Parsed(buffer, s, left) \in W
      /\ Round(buffer, Parsed(buffer, s, left), left) = Parsed(buffer, s, left)
  BY <1>2, <1>3, <1>4, LoopKeeps, Zenon
<1> QED
  BY <1>5 DEF W

\* What is left of a trail behind d bytes.
Back(m, d) == [at |-> m.at - d, seen |-> m.seen, asked |-> m.asked]

LEMMA LeadsBack ==
  ASSUME NEW x \in Seq(Byte), NEW t \in Seq(Byte), NEW c \in Nat, NEW C, Trail(C, x, t, c),
         NEW d \in Nat, NEW y \in Seq(Byte), Copied(x, y, 0 - d, d + 1, Len(x) + 1),
         NEW m \in C, NEW n \in C, m.at > d, Leads(x, t, m, n)
  PROVE  Leads(y, t, Back(m, d), Back(n, d)) /\ n.at > d
<1>1. PICK a \in Int : a = m.at
  BY MarkIs
<1>2. PICK b \in Int : b = n.at
  BY MarkIs
<1>3. PICK p \in Nat : p = m.seen
  BY MarkIs
<1>4. PICK r \in 0..Len(t) : r = n.seen
  BY MarkIs
<1>5. b <= Len(x) + 1
  <2>1. n.at \in 1..(Len(x) + 1)
    BY MarkIs
  <2> QED
    BY <1>2, <2>1
<1>6. /\ Shows(x, a, b, t, p, r) /\ p <= r
      /\ n.asked = m.asked + AsksOf(x, a)
  BY <1>1, <1>2, <1>3, <1>4, Zenon DEF Leads
<1>7. a < b
  BY <1>6, ItemEnds DEF Shows
<1>8. PICK e \in Int : e = 0 - d
  OBVIOUS
<1>9. Copied(x, y, e, a, b)
  <2>1. ASSUME NEW i \in a..(b - 1)
        PROVE  y[i + e] = x[i]
    <3>1. i \in (d + 1)..((Len(x) + 1) - 1)
      BY <1>1, <1>5
    <3> QED
      BY <1>8, <3>1 DEF Copied
  <2> QED
    BY <2>1 DEF Copied
<1>10. Shows(y, a + e, b + e, t, p, r) /\ AsksOf(y, a + e) = AsksOf(x, a)
  BY <1>6, <1>9, ItemMoves DEF Shows
<1>11. /\ Back(m, d).at = a + e /\ Back(n, d).at = b + e
       /\ Back(m, d).seen = p /\ Back(n, d).seen = r
       /\ Back(m, d).asked = m.asked /\ Back(n, d).asked = n.asked
  <2>1. a - d = a + e /\ b - d = b + e
    BY <1>8
  <2> QED
    BY <1>1, <1>2, <1>3, <1>4, <2>1 DEF Back
<1>12. Leads(y, t, Back(m, d), Back(n, d))
  BY <1>6, <1>10, <1>11, Zenon DEF Leads
<1> QED
  BY <1>1, <1>2, <1>7, <1>12

LEMMA TrailRests ==
  ASSUME NEW x \in Seq(Byte), NEW t \in Seq(Byte), NEW c \in Nat, NEW C, Trail(C, x, t, c),
         NEW d \in 0..Len(x), NEW y \in Seq(Byte), Copied(x, y, 0 - d, d + 1, Len(x) + 1),
         Len(y) = Len(x) - d
  PROVE  Trail({Back(m, d) : m \in {n \in C : n.at > d}}, y, t, c)
<1> DEFINE D == {Back(m, d) : m \in {n \in C : n.at > d}}
<1>1. D \subseteq MarkOf(y, t, c)
  <2>1. ASSUME NEW m \in C, m.at > d
        PROVE  Back(m, d) \in MarkOf(y, t, c)
    <3>1. PICK a \in 1..(Len(x) + 1) : a = m.at
      BY MarkIs
    <3>2. m.seen \in 0..Len(t) /\ m.asked \in 0..c
      BY MarkIs
    <3>3. a - d \in 1..(Len(y) + 1)
      BY <2>1, <3>1
    <3> QED
      BY <3>1, <3>2, <3>3 DEF Back, MarkOf
  <2> QED
    BY <2>1
<1>2. ASSUME NEW m \in C, m.at > d
      PROVE  Over(y, t, Back(m, d)) \/ \E q \in D : Leads(y, t, Back(m, d), q)
  <2>1. CASE Over(x, t, m)
    BY <2>1 DEF Over, Back
  <2>2. CASE ~Over(x, t, m)
    <3>1. PICK n \in C : Leads(x, t, m, n)
      BY <2>2, MarkLeads
    <3>2. Leads(y, t, Back(m, d), Back(n, d)) /\ n.at > d
      <4>1. d \in Nat
        OBVIOUS
      <4> QED
        BY <1>2, <3>1, <4>1, LeadsBack
    <3>3. Back(n, d) \in D
      BY <3>2
    <3> QED
      BY <3>2, <3>3
  <2> QED
    BY <2>1, <2>2
<1>3. ASSUME NEW q \in D
      PROVE  Over(y, t, q) \/ \E r \in D : Leads(y, t, q, r)
  <2>1. PICK m \in C : m.at > d /\ q = Back(m, d)
    OBVIOUS
  <2> HIDE DEF D
  <2> QED
    BY <1>2, <2>1
<1> QED
  BY <1>1, <1>3 DEF Trail

\* A mark of a stream and a text that begin e and f later, behind q answers.
Ahead(m, e, f, q) == [at |-> m.at + e, seen |-> m.seen + f, asked |-> m.asked + q]

LEMMA LeadsAhead ==
  ASSUME NEW x \in Seq(Byte), NEW t \in Seq(Byte), NEW c \in Nat, NEW C, Trail(C, x, t, c),
         NEW y \in Seq(Byte), NEW v \in Seq(Byte), NEW e \in Int, NEW f \in Int, NEW q \in Int,
         Within(x, y, e), Within(t, v, f), NEW m \in C, NEW n \in C, Leads(x, t, m, n)
  PROVE  Leads(y, v, Ahead(m, e, f, q), Ahead(n, e, f, q))
<1>1. PICK a \in Int : a = m.at
  BY MarkIs
<1>2. PICK b \in Int : b = n.at
  BY MarkIs
<1>3. PICK p \in Nat : p = m.seen
  BY MarkIs
<1>4. PICK r \in 0..Len(t) : r = n.seen
  BY MarkIs
<1>5. a >= 1 /\ b <= Len(x) + 1
  <2>1. m.at \in 1..(Len(x) + 1) /\ n.at \in 1..(Len(x) + 1)
    BY MarkIs
  <2> QED
    BY <1>1, <1>2, <2>1
<1>6. /\ Shows(x, a, b, t, p, r) /\ p <= r
      /\ n.asked = m.asked + AsksOf(x, a)
  BY <1>1, <1>2, <1>3, <1>4, Zenon DEF Leads
<1>7. Copied(x, y, e, a, b)
  <2>1. ASSUME NEW i \in a..(b - 1)
        PROVE  y[i + e] = x[i]
    <3>1. i \in 1..Len(x)
      BY <1>5
    <3> QED
      BY <3>1 DEF Within
  <2> QED
    BY <2>1 DEF Copied
<1>9. Shows(y, a + e, b + e, v, p + f, r + f) /\ AsksOf(y, a + e) = AsksOf(x, a)
  <2>1. Item(x, a, b) /\ SubSeq(t, p + 1, r) = Worth(x, a)
    BY <1>6 DEF Shows
  <2>2. /\ Item(y, a + e, b + e) /\ Worth(y, a + e) = Worth(x, a)
        /\ AsksOf(y, a + e) = AsksOf(x, a)
    BY <1>7, <2>1, ItemMoves
  <2>3. SubSeq(v, (p + f) + 1, r + f) = SubSeq(t, p + 1, r)
    <3>1. TextWithin(t, v, f)
      BY TextMoves
    <3> QED
      BY <3>1 DEF TextWithin
  <2> QED
    BY <2>1, <2>2, <2>3, Zenon DEF Shows
<1>10. PICK g \in Nat, h \in Nat : g = m.asked /\ h = n.asked
  BY MarkIs
<1>11. AsksOf(x, a) \in Nat
  BY DEF AsksOf
<1>12. h + q = (g + q) + AsksOf(x, a) /\ p + f <= r + f
  <2>1. PICK z \in Nat : z = AsksOf(x, a)
    BY <1>11
  <2>2. h = g + z
    BY <1>6, <1>10, <2>1
  <2>3. h + q = (g + q) + z /\ p + f <= r + f
    BY <1>6, <2>2
  <2> QED
    BY <2>1, <2>3
<1>13. /\ Ahead(m, e, f, q).at = a + e /\ Ahead(n, e, f, q).at = b + e
       /\ Ahead(m, e, f, q).seen = p + f /\ Ahead(n, e, f, q).seen = r + f
       /\ Ahead(m, e, f, q).asked = g + q /\ Ahead(n, e, f, q).asked = h + q
  BY <1>1, <1>2, <1>3, <1>4, <1>10 DEF Ahead
<1> QED
  BY <1>9, <1>12, <1>13, Zenon DEF Leads

LEMMA AheadNone ==
  ASSUME NEW x \in Seq(Byte), NEW t \in Seq(Byte), NEW c \in Nat, NEW m \in MarkOf(x, t, c)
  PROVE  Ahead(m, 0, 0, 0) = m
<1>1. m.at \in Nat /\ m.seen \in Nat /\ m.asked \in Nat
  BY DEF MarkOf
<1>2. m = [at |-> m.at, seen |-> m.seen, asked |-> m.asked]
  BY DEF MarkOf
<1>3. m.at + 0 = m.at /\ m.seen + 0 = m.seen /\ m.asked + 0 = m.asked
  BY <1>1
<1> QED
  BY <1>2, <1>3, Zenon DEF Ahead

LEMMA WithinFront ==
  ASSUME NEW x \in Seq(Byte), NEW w \in Seq(Byte)
  PROVE  Within(x, x \o w, 0)
<1>1. ASSUME NEW i \in 1..Len(x)
      PROVE  (x \o w)[i + 0] = x[i]
  <2>1. i + 0 = i /\ i \in 1..(Len(x) + Len(w)) /\ i <= Len(x)
    OBVIOUS
  <2> QED
    BY <2>1, ConcatProperties
<1> QED
  BY <1>1 DEF Within

LEMMA WithinBack ==
  ASSUME NEW x \in Seq(Byte), NEW w \in Seq(Byte)
  PROVE  Within(w, x \o w, Len(x))
<1>1. ASSUME NEW i \in 1..Len(w)
      PROVE  (x \o w)[i + Len(x)] = w[i]
  <2>1. PICK k \in 1..(Len(x) + Len(w)) : k = i + Len(x)
    OBVIOUS
  <2>2. ~(k <= Len(x)) /\ k - Len(x) = i
    BY <2>1
  <2>3. (x \o w)[k] = w[k - Len(x)]
    BY <2>2, ConcatProperties
  <2> QED
    BY <2>1, <2>2, <2>3
<1> QED
  BY <1>1 DEF Within

\* The trail of a stream, and of what is sent behind it.
LEMMA TrailJoins ==
  ASSUME NEW x \in Seq(Byte), NEW t \in Seq(Byte), NEW c \in Nat, NEW C, Trail(C, x, t, c),
         NEW w \in Seq(Byte), NEW u \in Seq(Byte), NEW M, Trail(M, w, u, 1),
         [at |-> 1, seen |-> 0, asked |-> 0] \in M
  PROVE  \E D : C \subseteq D /\ Trail(D, x \o w, t \o u, c + 1)
<1> DEFINE y == x \o w
           v == t \o u
           E == {Ahead(n, Len(x), Len(t), q) : n \in M, q \in 0..c}
           D == C \cup E
<1>1. /\ y \in Seq(Byte) /\ Len(y) = Len(x) + Len(w)
      /\ v \in Seq(Byte) /\ Len(v) = Len(t) + Len(u)
  BY ConcatProperties
<1>2. /\ Within(x, y, 0) /\ Within(t, v, 0)
      /\ Within(w, y, Len(x)) /\ Within(u, v, Len(t))
  BY WithinFront, WithinBack
<1> HIDE DEF y, v
<1>3. ASSUME NEW m \in C
      PROVE  m \in MarkOf(y, v, c + 1)
  <2>1. m \in MarkOf(x, t, c)
    BY MarkIs
  <2>2. 1..(Len(x) + 1) \subseteq 1..(Len(y) + 1) /\ 0..Len(t) \subseteq 0..Len(v)
        /\ 0..c \subseteq 0..(c + 1)
    BY <1>1
  <2> QED
    BY <2>1, <2>2 DEF MarkOf
<1>4. ASSUME NEW n \in M, NEW q \in 0..c
      PROVE  Ahead(n, Len(x), Len(t), q) \in MarkOf(y, v, c + 1)
  <2>1. PICK a \in 1..(Len(w) + 1) : a = n.at
    BY MarkIs
  <2>2. PICK p \in 0..Len(u) : p = n.seen
    BY MarkIs
  <2>3. PICK g \in 0..1 : g = n.asked
    BY MarkIs
  <2>4. /\ a + Len(x) \in 1..(Len(y) + 1) /\ p + Len(t) \in 0..Len(v)
        /\ g + q \in 0..(c + 1)
    BY <1>1
  <2> QED
    BY <2>1, <2>2, <2>3, <2>4 DEF Ahead, MarkOf
<1>5. ASSUME NEW n \in M, NEW q \in 0..c
      PROVE  LET m == Ahead(n, Len(x), Len(t), q)
             IN  Over(y, v, m) \/ \E r \in E : Leads(y, v, m, r)
  <2>1. CASE Over(w, u, n)
    <3>1. n.at = Len(w) + 1 /\ n.seen = Len(u)
      BY <2>1 DEF Over
    <3>2. (Len(w) + 1) + Len(x) = Len(y) + 1 /\ Len(u) + Len(t) = Len(v)
      BY <1>1
    <3> QED
      BY <3>1, <3>2 DEF Over, Ahead
  <2>2. CASE ~Over(w, u, n)
    <3>1. PICK r \in M : Leads(w, u, n, r)
      BY <2>2, MarkLeads
    <3>2. Leads(y, v, Ahead(n, Len(x), Len(t), q), Ahead(r, Len(x), Len(t), q))
      <4>1. q \in Int /\ 1 \in Nat /\ Len(x) \in Int /\ Len(t) \in Int
        OBVIOUS
      <4> HIDE DEF E
      <4> QED
        BY <1>1, <1>2, <3>1, <4>1, LeadsAhead
    <3> QED
      BY <3>2
  <2> QED
    BY <2>1, <2>2
<1>6. ASSUME NEW m \in C
      PROVE  Over(y, v, m) \/ \E r \in D : Leads(y, v, m, r)
  <2>1. CASE Over(x, t, m)
    <3> DEFINE first == [at |-> 1, seen |-> 0, asked |-> 0]
    <3>1. PICK q \in 0..c : q = m.asked
      BY MarkIs
    <3>2. m = Ahead(first, Len(x), Len(t), q)
      <4>1. m.at = 1 + Len(x) /\ m.seen = 0 + Len(t) /\ m.asked = 0 + q
        BY <2>1, <3>1 DEF Over
      <4>2. m = [at |-> m.at, seen |-> m.seen, asked |-> m.asked]
        BY MarkIs DEF MarkOf
      <4> QED
        BY <4>1, <4>2 DEF Ahead
    <3> HIDE DEF first
    <3>3. first \in M
      BY DEF first
    <3>4. E \subseteq D
      OBVIOUS
    <3> HIDE DEF D, E
    <3> QED
      BY <1>5, <3>2, <3>3, <3>4
  <2>2. CASE ~Over(x, t, m)
    <3>1. PICK n \in C : Leads(x, t, m, n)
      BY <2>2, MarkLeads
    <3>2. Ahead(m, 0, 0, 0) = m /\ Ahead(n, 0, 0, 0) = n
      BY MarkIs, AheadNone
    <3>3. Leads(y, v, Ahead(m, 0, 0, 0), Ahead(n, 0, 0, 0))
      <4>1. 0 \in Int
        OBVIOUS
      <4> HIDE DEF D, E
      <4> QED
        BY <1>1, <1>2, <3>1, <4>1, LeadsAhead, Zenon
    <3> QED
      BY <3>1, <3>2, <3>3
  <2> QED
    BY <2>1, <2>2
<1>7. ASSUME NEW r \in D
      PROVE  r \in MarkOf(y, v, c + 1) /\ (Over(y, v, r) \/ \E n \in D : Leads(y, v, r, n))
  <2>1. CASE r \in C
    BY <1>3, <1>6, <2>1
  <2>2. CASE r \in E
    <3>1. PICK n \in M, q \in 0..c : r = Ahead(n, Len(x), Len(t), q)
      BY <2>2
    <3>2. E \subseteq D
      OBVIOUS
    <3> HIDE DEF D, E
    <3> QED
      BY <1>4, <1>5, <3>1, <3>2
  <2> QED
    BY <2>1, <2>2
<1>8. Trail(D, y, v, c + 1)
  <2> HIDE DEF D
  <2> QED
    BY <1>7 DEF Trail
<1>9. C \subseteq D
  OBVIOUS
<1> HIDE DEF D
<1> QED
  BY <1>8, <1>9 DEF y, v

(***************************************************************************)
(* A message is text, one item for each byte, or a single item.            *)
(***************************************************************************)

LEMMA TextTrail ==
  ASSUME NEW w \in Seq(Byte), \A i \in DOMAIN w : w[i] # IAC
  PROVE  Trail({[at |-> k + 1, seen |-> k, asked |-> 0] : k \in 0..Len(w)}, w, w, 1)
<1> DEFINE at(k) == [at |-> k + 1, seen |-> k, asked |-> 0]
           M == {at(k) : k \in 0..Len(w)}
<1>1. M \subseteq MarkOf(w, w, 1)
  <2>1. ASSUME NEW k \in 0..Len(w)
        PROVE  at(k) \in MarkOf(w, w, 1)
    <3>1. k + 1 \in 1..(Len(w) + 1)
      OBVIOUS
    <3> QED
      BY <3>1 DEF MarkOf
  <2> QED
    BY <2>1
<1>2. ASSUME NEW k \in 0..Len(w), k # Len(w)
      PROVE  Leads(w, w, at(k), at(k + 1)) /\ k + 1 \in 0..Len(w)
  <2>1. PICK a \in 1..Len(w) : a = k + 1
    BY <1>2
  <2>2. w[a] # IAC
    OBVIOUS
  <2>3. Item(w, a, a + 1) /\ Worth(w, a) = <<w[a]>> /\ AsksOf(w, a) = 0
    BY <2>2 DEF Item, Worth, AsksOf
  <2>4. SubSeq(w, a, a) = <<w[a]>>
    <3>1. /\ SubSeq(w, a, a) \in Seq(Byte) /\ Len(SubSeq(w, a, a)) = 1
          /\ SubSeq(w, a, a)[1] = w[a]
      <4>1. a \in Int /\ a - a + 1 = 1 /\ a + 1 - 1 = a
        OBVIOUS
      <4> QED
        BY <4>1, SubSeqProperties
    <3>2. <<w[a]>> \in Seq(Byte) /\ Len(<<w[a]>>) = 1 /\ <<w[a]>>[1] = w[a]
      OBVIOUS
    <3>3. ASSUME NEW i \in 1..Len(<<w[a]>>)
          PROVE  SubSeq(w, a, a)[i] = <<w[a]>>[i]
      <4>1. i = 1
        BY <3>2
      <4> QED
        BY <3>1, <3>2, <4>1
    <3> QED
      BY <3>1, <3>2, <3>3, SeqEqual
  <2>5. Shows(w, a, a + 1, w, k, k + 1)
    BY <2>1, <2>3, <2>4 DEF Shows
  <2>6. /\ at(k).at = a /\ at(k + 1).at = a + 1 /\ at(k).seen = k /\ at(k + 1).seen = k + 1
        /\ at(k).asked = 0 /\ at(k + 1).asked = 0
    BY <2>1
  <2>7. k <= k + 1 /\ 0 = 0 + 0
    OBVIOUS
  <2> HIDE DEF at
  <2>8. Leads(w, w, at(k), at(k + 1))
    BY <2>3, <2>5, <2>6, <2>7, Zenon DEF Leads
  <2> QED
    BY <1>2, <2>8
<1>3. ASSUME NEW m \in M
      PROVE  Over(w, w, m) \/ \E n \in M : Leads(w, w, m, n)
  <2>1. PICK k \in 0..Len(w) : m = at(k)
    OBVIOUS
  <2>2. CASE k = Len(w)
    BY <2>1, <2>2 DEF Over
  <2>3. CASE k # Len(w)
    <3>1. Leads(w, w, m, at(k + 1)) /\ k + 1 \in 0..Len(w)
      BY <1>2, <2>1, <2>3
    <3>2. at(k + 1) \in M
      BY <3>1
    <3> QED
      BY <3>1, <3>2
  <2> QED
    BY <2>2, <2>3
<1> QED
  BY <1>1, <1>3 DEF Trail

LEMMA ItemTrail ==
  ASSUME NEW w \in Seq(Byte), NEW u \in Seq(Byte), Item(w, 1, Len(w) + 1), Worth(w, 1) = u
  PROVE  Trail({[at |-> 1, seen |-> 0, asked |-> 0],
                [at |-> Len(w) + 1, seen |-> Len(u), asked |-> AsksOf(w, 1)]}, w, u, 1)
<1> DEFINE first == [at |-> 1, seen |-> 0, asked |-> 0]
           last == [at |-> Len(w) + 1, seen |-> Len(u), asked |-> AsksOf(w, 1)]
<1>1. AsksOf(w, 1) \in 0..1
  BY DEF AsksOf
<1>2. first \in MarkOf(w, u, 1) /\ last \in MarkOf(w, u, 1)
  BY <1>1 DEF MarkOf
<1>3. Over(w, u, last)
  BY DEF Over
<1>4. Leads(w, u, first, last)
  <2>1. SubSeq(u, 1, Len(u)) = u
    <3>1. 1 \in Int /\ Len(u) \in Int /\ Len(u) - 1 + 1 = Len(u)
      OBVIOUS
    <3>2. /\ SubSeq(u, 1, Len(u)) \in Seq(Byte) /\ Len(SubSeq(u, 1, Len(u))) = Len(u)
          /\ \A i \in 1..Len(u) : SubSeq(u, 1, Len(u))[i] = u[1 + i - 1]
      BY <3>1, SubSeqProperties
    <3>3. ASSUME NEW i \in 1..Len(SubSeq(u, 1, Len(u)))
          PROVE  SubSeq(u, 1, Len(u))[i] = u[i]
      <4>1. i \in 1..Len(u) /\ 1 + i - 1 = i
        BY <3>2
      <4> QED
        BY <3>2, <4>1
    <3> QED
      BY <3>2, <3>3, SeqEqual
  <2>2. 0 + 1 = 1 /\ 0 <= Len(u) /\ AsksOf(w, 1) = 0 + AsksOf(w, 1)
    BY <1>1
  <2>3. Shows(w, 1, Len(w) + 1, u, 0, Len(u))
    BY <2>1, <2>2 DEF Shows
  <2>4. /\ first.at = 1 /\ first.seen = 0 /\ first.asked = 0
        /\ last.at = Len(w) + 1 /\ last.seen = Len(u) /\ last.asked = AsksOf(w, 1)
    OBVIOUS
  <2> HIDE DEF first, last
  <2> QED
    BY <2>2, <2>3, <2>4, Zenon DEF Leads
<1> HIDE DEF first, last
<1>5. Trail({first, last}, w, u, 1)
  BY <1>2, <1>3, <1>4 DEF Trail
<1> QED
  BY <1>5 DEF first, last

LEMMA MessageTrail ==
  ASSUME NEW w \in Message
  PROVE  /\ w \in Seq(Byte) /\ TextOf(w) \in Seq(Byte)
         /\ \E M : Trail(M, w, TextOf(w), 1) /\ [at |-> 1, seen |-> 0, asked |-> 0] \in M
<1>1. w \in Seq(Byte)
  BY TelnetAssumption DEF Byte
<1>2. TextOf(w) \in Seq(Byte)
  <2>1. <<IAC>> \in Seq(Byte) /\ <<>> \in Seq(Byte)
    BY DEF IAC, Byte
  <2> QED
    BY <1>1, <2>1 DEF TextOf
<1>3. CASE IsText(w)
  <2>1. w # <<>> /\ \A i \in DOMAIN w : w[i] # IAC
    BY <1>3 DEF IsText
  <2>2. w[1] # IAC
    BY <1>1, <2>1
  <2>3. TextOf(w) = w
    BY <2>2 DEF TextOf
  <2> DEFINE M == {[at |-> k + 1, seen |-> k, asked |-> 0] : k \in 0..Len(w)}
  <2>4. Trail(M, w, w, 1)
    BY <1>1, <2>1, TextTrail
  <2>5. [at |-> 1, seen |-> 0, asked |-> 0] \in M
    <3>1. 0 \in 0..Len(w) /\ 0 + 1 = 1
      BY <1>1
    <3> QED
      BY <3>1
  <2> HIDE DEF M
  <2> QED
    BY <1>1, <2>3, <2>4, <2>5
<1>4. CASE ~IsText(w)
  <2>1. Item(w, 1, Len(w) + 1) /\ Worth(w, 1) = TextOf(w)
    <3>1. 1 + 1 = 2 /\ 1 + 2 = 3
      OBVIOUS
    <3>2. CASE IsCommand(w)
      <4>1. Len(w) + 1 = 1 + 2
        BY <3>2 DEF IsCommand
      <4> QED
        BY <3>1, <3>2, <4>1 DEF IsCommand, Item, Worth, TextOf
    <3>3. CASE IsRequest(w)
      <4>1. Len(w) + 1 = 1 + 3 /\ w[2] # IAC
        BY <3>3 DEF IsRequest, Verb, IAC, DO, DONT, WILL, WONT
      <4> QED
        BY <3>1, <3>3, <4>1 DEF IsRequest, Item, Worth, TextOf
    <3>4. CASE IsSubOption(w)
      <4>1. w[2] # IAC
        BY <3>4 DEF IsSubOption, SB, IAC
      <4>2. /\ (Len(w) + 1) - 2 = Len(w) - 1 /\ (Len(w) + 1) - 1 = Len(w)
            /\ (Len(w) + 1) - 3 = Len(w) - 2 /\ Len(w) + 1 >= 1 + 4
        BY <1>1, <3>4 DEF IsSubOption
      <4>3. /\ w[1] = IAC /\ w[2] = SB /\ w[(Len(w) + 1) - 2] = IAC
            /\ w[(Len(w) + 1) - 1] = SE
            /\ \A j \in (1 + 2)..((Len(w) + 1) - 3) : w[j] # IAC \/ w[j + 1] # SE
        BY <3>1, <3>4, <4>2 DEF IsSubOption
      <4>4. Item(w, 1, Len(w) + 1)
        BY <3>1, <4>2, <4>3 DEF Item
      <4> QED
        BY <3>1, <4>1, <4>3, <4>4 DEF Worth, TextOf
    <3> QED
      BY <1>4, <3>2, <3>3, <3>4, MessageAssumption
  <2>2. PICK M : M = {[at |-> 1, seen |-> 0, asked |-> 0],
                      [at |-> Len(w) + 1, seen |-> Len(TextOf(w)), asked |-> AsksOf(w, 1)]}
    OBVIOUS
  <2>3. Trail(M, w, TextOf(w), 1)
    BY <1>1, <1>2, <2>1, <2>2, ItemTrail
  <2> QED
    BY <1>1, <1>2, <2>2, <2>3
<1> QED
  BY <1>3, <1>4

(***************************************************************************)
(* The stream of a connection: what is in the buffer, and behind it what   *)
(* TCP has not delivered.                                                  *)
(***************************************************************************)

LEMMA StuckMore ==
  ASSUME NEW h \in Seq(Byte), NEW w \in Seq(Byte), Stuck(h, Len(h))
  PROVE  Stuck(h \o w, Len(h))
<1> DEFINE x == h \o w
<1>1. x \in Seq(Byte) /\ Len(x) = Len(h) + Len(w)
      /\ \A i \in 1..Len(h) : x[i] = h[i]
  <2>1. \A i \in 1..Len(h) : i \in 1..(Len(h) + Len(w)) /\ i <= Len(h)
    OBVIOUS
  <2> QED
    BY <2>1, ConcatProperties
<1> HIDE DEF x
<1>2. SUFFICES ASSUME NEW b \in 1..(Len(h) + 1), Item(x, 1, b)
               PROVE  FALSE
  BY DEF Stuck, x
<1>3. PICK d \in Int : d = 0
  OBVIOUS
<1>4. PICK a \in Int : a = 1
  OBVIOUS
<1>5. Copied(x, h, d, a, b)
  <2>1. ASSUME NEW i \in a..(b - 1)
        PROVE  h[i + d] = x[i]
    <3>1. i \in 1..Len(h) /\ i + d = i
      BY <1>3, <1>4
    <3> QED
      BY <1>1, <3>1
  <2> QED
    BY <2>1 DEF Copied
<1>6. b \in Int /\ Item(x, a, b)
  BY <1>2, <1>4
<1>7. Item(h, a + d, b + d)
  BY <1>5, <1>6, ItemMoves
<1>8. a + d = 1 /\ b + d = b
  BY <1>3, <1>4, <1>6
<1>9. Item(h, 1, b)
  BY <1>7, <1>8
<1> QED
  BY <1>9 DEF Stuck

\* Readable, of any data w.
ReadableOf(w, n) ==
  ~\E i \in 1..n : /\ i < Len(w) /\ w[i] = IAC /\ w[i + 1] = SB
                   /\ SubOptionEnd(w, i) + 1 > n

LEMMA CutsAre ==
  ASSUME NEW h \in Seq(Byte), NEW w \in Seq(Byte), NEW n \in 1..Len(w), ReadableOf(w, n),
         h # <<>> => (h \o w)[2] # SB
  PROVE  CutsNoSubOption(h \o w, Len(h) + n, Len(h))
<1> DEFINE x == h \o w
<1>1. PICK k \in Nat : k = Len(h)
  OBVIOUS
<1>2. /\ x \in Seq(Byte) /\ Len(x) = k + Len(w)
      /\ \A i \in 1..(k + Len(w)) : x[i] = IF i <= k THEN h[i] ELSE w[i - k]
  BY <1>1, ConcatProperties
<1>3. k > 0 => x[2] # SB
  BY <1>1
<1> HIDE DEF x
<1>4. SUFFICES ASSUME NEW a \in 1..(k + n), NEW b \in 1..(Len(x) + 1), Item(x, a, b),
                      b > (k + n) + 1, a = 1 \/ a > k, x[a] = IAC, x[a + 1] = SB
               PROVE  FALSE
  BY <1>1 DEF CutsNoSubOption, x
<1>5. a > k
  <2>1. CASE a = 1
    <3>1. a + 1 = 2
      BY <2>1
    <3>2. ~(k > 0)
      BY <1>3, <1>4, <3>1
    <3> QED
      BY <2>1, <3>2
  <2> QED
    BY <1>4, <2>1
<1>6. PICK d \in Int : d = 0 - k
  OBVIOUS
<1>7. a \in Int /\ b \in Int
  BY <1>2
<1>8. Copied(x, w, d, a, b)
  <2>1. ASSUME NEW i \in a..(b - 1)
        PROVE  w[i + d] = x[i]
    <3>1. i \in 1..(k + Len(w)) /\ ~(i <= k) /\ i - k = i + d
      BY <1>2, <1>5, <1>6
    <3> QED
      BY <1>2, <3>1
  <2> QED
    BY <2>1 DEF Copied
<1>9. Item(w, a + d, b + d)
  BY <1>4, <1>7, <1>8, ItemMoves
<1>10. b >= a + 4
  BY <1>4 DEF Item, Verb, SB, DO, DONT, WILL, WONT
<1>11. PICK i \in 1..n : i = a + d
  BY <1>5, <1>6
<1>12. PICK e \in 1..(Len(w) + 1) : e = b + d
  BY <1>2, <1>5, <1>6, <1>10
<1>13. i < Len(w) /\ e >= i + 4 /\ e > n + 1
  BY <1>4, <1>6, <1>7, <1>10, <1>11, <1>12
<1>14. w[i] = IAC /\ w[i + 1] = SB
  <2>1. a \in a..(b - 1) /\ a + 1 \in a..(b - 1) /\ (a + 1) + d = i + 1
    BY <1>7, <1>10, <1>11
  <2>2. w[a + d] = x[a] /\ w[(a + 1) + d] = x[a + 1]
    BY <1>8, <2>1 DEF Copied
  <2> QED
    BY <1>4, <1>11, <2>1, <2>2
<1>15. SubOptionEnd(w, i) = e - 2
  <2>1. i \in 1..Len(w) /\ Item(w, i, e)
    BY <1>9, <1>11, <1>12, <1>13
  <2> QED
    BY <1>14, <2>1, ItemSubOption
<1>16. SubOptionEnd(w, i) + 1 > n
  BY <1>13, <1>15
<1> QED
  BY <1>13, <1>14, <1>16 DEF ReadableOf

\* The data of a read begins the stream, and what it does not parse begins the
\* stream that is left.
LEMMA ReadSplits ==
  ASSUME NEW h \in Seq(Byte), NEW w \in Seq(Byte), NEW n \in 1..Len(w)
  PROVE  LET buffer == h \o SubSeq(w, 1, n)
         IN  /\ buffer \in Seq(Byte) /\ Len(buffer) = Len(h) + n
             /\ Prefixes(buffer, h \o w)
             /\ h \o w = buffer \o SubSeq(w, n + 1, Len(w))
<1> DEFINE f == SubSeq(w, 1, n)
           g == SubSeq(w, n + 1, Len(w))
           b == h \o f
           x == h \o w
<1>1. PICK k \in Nat, l \in Nat : k = Len(h) /\ l = Len(w)
  OBVIOUS
<1>2. n \in Nat /\ n <= l
  BY <1>1
<1>3. /\ f \in Seq(Byte) /\ Len(f) = n
      /\ \A i \in 1..n : f[i] = w[i]
  <2>1. n - 1 + 1 = n /\ 1 <= n /\ \A i \in 1..n : 1 + i - 1 = i
    BY <1>2
  <2> QED
    BY <2>1, SubSeqProperties
<1>4. /\ g \in Seq(Byte) /\ Len(g) = l - n
      /\ \A i \in 1..(l - n) : g[i] = w[n + i]
  <2>1. /\ g \in Seq(Byte) /\ Len(g) = (IF n + 1 <= l THEN l - (n + 1) + 1 ELSE 0)
        /\ \A i \in 1..(l - (n + 1) + 1) : g[i] = w[(n + 1) + i - 1]
    BY <1>1, <1>2, SubSeqProperties
  <2>2. /\ l - (n + 1) + 1 = l - n
        /\ \A i \in 1..(l - n) : (n + 1) + i - 1 = n + i
    BY <1>2
  <2> QED
    BY <1>2, <2>1, <2>2
<1> HIDE DEF f, g
<1>5. /\ b \in Seq(Byte) /\ Len(b) = k + n
      /\ \A i \in 1..(k + n) : b[i] = IF i <= k THEN h[i] ELSE f[i - k]
  BY <1>1, <1>3, ConcatProperties
<1>6. /\ x \in Seq(Byte) /\ Len(x) = k + l
      /\ \A i \in 1..(k + l) : x[i] = IF i <= k THEN h[i] ELSE w[i - k]
  BY <1>1, ConcatProperties
<1> HIDE DEF b, x
<1>7. ASSUME NEW i \in 1..(k + n)
      PROVE  b[i] = x[i]
  <2>1. i \in 1..(k + l)
    BY <1>2
  <2>2. CASE i <= k
    BY <1>5, <1>6, <2>1, <2>2
  <2>3. CASE ~(i <= k)
    <3>1. PICK j \in 1..n : j = i - k
      BY <2>3
    <3> QED
      BY <1>3, <1>5, <1>6, <2>1, <2>3, <3>1
  <2> QED
    BY <2>2, <2>3
<1>8. Prefixes(b, x)
  <2>1. Len(b) <= Len(x)
    BY <1>2, <1>5, <1>6
  <2> QED
    BY <1>5, <1>7, <2>1 DEF Prefixes
<1>9. /\ b \o g \in Seq(Byte) /\ Len(b \o g) = k + l
      /\ \A i \in 1..(k + l) : (b \o g)[i] = IF i <= k + n THEN b[i] ELSE g[i - (k + n)]
  <2>1. (k + n) + (l - n) = k + l
    BY <1>2
  <2>2. /\ b \o g \in Seq(Byte) /\ Len(b \o g) = (k + n) + (l - n)
        /\ \A i \in 1..((k + n) + (l - n)) :
             (b \o g)[i] = IF i <= k + n THEN b[i] ELSE g[i - (k + n)]
    <3>1. /\ b \o g \in Seq(Byte) /\ Len(b \o g) = Len(b) + Len(g)
          /\ \A i \in 1..(Len(b) + Len(g)) :
               (b \o g)[i] = IF i <= Len(b) THEN b[i] ELSE g[i - Len(b)]
      BY <1>4, <1>5, ConcatProperties
    <3> QED
      BY <1>4, <1>5, <3>1
  <2> QED
    BY <2>1, <2>2
<1>10. ASSUME NEW i \in 1..(k + l)
       PROVE  x[i] = (b \o g)[i]
  <2>1. CASE i <= k + n
    BY <1>7, <1>9, <2>1
  <2>2. CASE ~(i <= k + n)
    <3>1. PICK j \in 1..(l - n) : j = i - (k + n)
      BY <1>2, <2>2
    <3>2. n + j = i - k /\ ~(i <= k)
      BY <1>2, <2>2, <3>1
    <3>3. (b \o g)[i] = w[n + j] /\ x[i] = w[i - k]
      BY <1>4, <1>6, <1>9, <2>2, <3>1, <3>2
    <3> QED
      BY <3>2, <3>3
  <2> QED
    BY <2>1, <2>2
<1>11. x = b \o g
  BY <1>6, <1>9, <1>10, SeqEqual
<1> QED
  BY <1>1, <1>5, <1>8, <1>11 DEF b, x, f, g

LEMMA RestIs ==
  ASSUME NEW buffer \in Seq(Byte), NEW rest \in Seq(Byte), NEW d \in 0..Len(buffer)
  PROVE  LET h == SubSeq(buffer, d + 1, Len(buffer))
             x == buffer \o rest
             y == h \o rest
         IN  /\ h \in Seq(Byte) /\ Len(h) = Len(buffer) - d
             /\ \A i \in 1..Len(h) : h[i] = buffer[i + d]
             /\ x \in Seq(Byte) /\ y \in Seq(Byte)
             /\ Len(x) = Len(buffer) + Len(rest) /\ Len(y) = Len(x) - d
             /\ Copied(x, y, 0 - d, d + 1, Len(x) + 1)
<1> DEFINE h == SubSeq(buffer, d + 1, Len(buffer))
           x == buffer \o rest
           y == h \o rest
<1>1. PICK L \in Nat, l \in Nat : L = Len(buffer) /\ l = Len(rest)
  OBVIOUS
<1>2. d \in Nat /\ d <= L
  BY <1>1
<1>3. /\ h \in Seq(Byte) /\ Len(h) = L - d
      /\ \A i \in 1..(L - d) : h[i] = buffer[i + d]
  <2>1. /\ h \in Seq(Byte) /\ Len(h) = (IF d + 1 <= L THEN L - (d + 1) + 1 ELSE 0)
        /\ \A i \in 1..(L - (d + 1) + 1) : h[i] = buffer[(d + 1) + i - 1]
    BY <1>1, <1>2, SubSeqProperties
  <2>2. /\ L - (d + 1) + 1 = L - d
        /\ \A i \in 1..(L - d) : (d + 1) + i - 1 = i + d
    BY <1>2
  <2> QED
    BY <1>2, <2>1, <2>2
<1> HIDE DEF h
<1>4. /\ x \in Seq(Byte) /\ Len(x) = L + l
      /\ \A i \in 1..(L + l) : x[i] = IF i <= L THEN buffer[i] ELSE rest[i - L]
  BY <1>1, ConcatProperties
<1>5. /\ y \in Seq(Byte) /\ Len(y) = (L - d) + l
      /\ \A i \in 1..((L - d) + l) : y[i] = IF i <= L - d THEN h[i] ELSE rest[i - (L - d)]
  <2>1. /\ y \in Seq(Byte) /\ Len(y) = Len(h) + Len(rest)
        /\ \A i \in 1..(Len(h) + Len(rest)) :
             y[i] = IF i <= Len(h) THEN h[i] ELSE rest[i - Len(h)]
    BY <1>3, ConcatProperties
  <2> QED
    BY <1>1, <1>3, <2>1
<1> HIDE DEF x, y
<1>6. Copied(x, y, 0 - d, d + 1, Len(x) + 1)
  <2>1. ASSUME NEW i \in (d + 1)..((Len(x) + 1) - 1)
        PROVE  y[i + (0 - d)] = x[i]
    <3>1. PICK j \in 1..((L - d) + l) : j = i + (0 - d)
      BY <1>2, <1>4
    <3>2. i \in 1..(L + l) /\ j + d = i
      BY <1>2, <1>4, <3>1
    <3>3. CASE i <= L
      <4>1. j \in 1..(L - d) /\ j <= L - d
        BY <1>2, <3>1, <3>2, <3>3
      <4>2. y[j] = h[j] /\ h[j] = buffer[j + d]
        BY <1>3, <1>5, <4>1
      <4> QED
        BY <1>4, <3>1, <3>2, <3>3, <4>2
    <3>4. CASE ~(i <= L)
      <4>1. ~(j <= L - d) /\ j - (L - d) = i - L
        BY <1>2, <3>1, <3>2, <3>4
      <4>2. y[j] = rest[j - (L - d)] /\ x[i] = rest[i - L]
        BY <1>4, <1>5, <3>2, <3>4, <4>1
      <4> QED
        BY <3>1, <4>1, <4>2
    <3> QED
      BY <3>3, <3>4
  <2> QED
    BY <2>1 DEF Copied
<1>7. Len(y) = Len(x) - d
  BY <1>2, <1>4, <1>5
<1> QED
  BY <1>1, <1>3, <1>4, <1>5, <1>6, <1>7 DEF h, x, y

LEMMA RestStuck ==
  ASSUME NEW buffer \in Seq(Byte), NEW left \in Byte, login.user \in BOOLEAN,
         NEW r \in ParserState, Round(buffer, r, left) = r,
         NEW d \in 0..Len(buffer), r.i = d + 1, NEW h \in Seq(Byte),
         Len(h) = Len(buffer) - d, \A i \in 1..Len(h) : h[i] = buffer[i + d]
  PROVE  Stuck(h, Len(h))
<1>1. SUFFICES ASSUME NEW b \in 1..(Len(h) + 1), Item(h, 1, b)
               PROVE  FALSE
  BY DEF Stuck
<1>2. PICK a \in Int : a = 1
  OBVIOUS
<1>3. b \in Int /\ d \in Int /\ Item(h, a, b)
  BY <1>1, <1>2
<1>4. a < b
  BY <1>3, ItemEnds
<1>5. Copied(h, buffer, d, a, b)
  <2>1. ASSUME NEW i \in a..(b - 1)
        PROVE  buffer[i + d] = h[i]
    <3>1. i \in 1..Len(h)
      BY <1>2
    <3> QED
      BY <3>1
  <2> QED
    BY <2>1 DEF Copied
<1>6. Item(buffer, a + d, b + d)
  BY <1>3, <1>5, ItemMoves
<1>7. PICK e \in 1..(Len(buffer) + 1) : e = b + d
  BY <1>3
<1>8. r.i = a + d /\ r.i \in 1..Len(buffer) /\ e > r.i
  BY <1>2, <1>4, <1>7
<1>9. Item(buffer, r.i, e)
  BY <1>6, <1>7, <1>8
<1>10. Took(buffer, Round(buffer, r, left), r, e)
  BY <1>8, <1>9, RoundItem
<1>11. r.i = e
  BY <1>10 DEF Took
<1> QED
  BY <1>8, <1>11

\* What a read leaves, h, begins a stream like the one it found.
GoesOn(h, rest, t, c, seen) ==
  /\ Stuck(h, Len(h))
  /\ h # <<>> => Len(h \o rest) >= 2 /\ (h \o rest)[2] # SB
  /\ \E D : Trail(D, h \o rest, t, c) /\ \E m \in D : m.at = 1 /\ m.seen = seen

LEMMA RestGoesOn ==
  ASSUME NEW t \in Seq(Byte), NEW c \in Nat, NEW buffer \in Seq(Byte), NEW rest \in Seq(Byte),
         NEW C, Trail(C, buffer \o rest, t, c),
         NEW left \in Byte, login.user \in BOOLEAN, NEW k \in 0..Len(buffer),
         CutsNoSubOption(buffer \o rest, Len(buffer), k),
         NEW p \in C, p.at <= Len(buffer) + 1, p.at = 1 \/ p.at > k,
         NEW r \in ParserState, r.i = p.at, Round(buffer, r, left) = r
  PROVE  GoesOn(SubSeq(buffer, r.i, Len(buffer)), rest, t, c, p.seen)
<1> DEFINE d == r.i - 1
           h == SubSeq(buffer, r.i, Len(buffer))
           x == buffer \o rest
           y == h \o rest
           D == {Back(m, d) : m \in {n \in C : n.at > d}}
<1>x. x \in Seq(Byte) /\ Len(x) = Len(buffer) + Len(rest)
  BY ConcatProperties
<1>1. /\ p.at \in 1..(Len(x) + 1) /\ p.at \in Int
      /\ p.seen \in 0..Len(t) /\ p.seen \in Nat /\ p.asked \in Nat
  BY <1>x, MarkIs
<1>2. d \in 0..Len(buffer) /\ r.i = d + 1 /\ p.at = d + 1 /\ d \in Nat /\ d \in 0..Len(x)
  BY <1>1, <1>x
<1>3. h = SubSeq(buffer, d + 1, Len(buffer))
  BY <1>2, Zenon
<1> HIDE DEF d, h, x
<1>4. /\ h \in Seq(Byte) /\ Len(h) = Len(buffer) - d
      /\ \A i \in 1..Len(h) : h[i] = buffer[i + d]
      /\ y \in Seq(Byte) /\ Len(y) = Len(x) - d
      /\ Copied(x, y, 0 - d, d + 1, Len(x) + 1)
  BY <1>2, <1>3, RestIs DEF x
<1>5. Stuck(h, Len(h)) /\ Stuck(y, Len(h))
  BY <1>2, <1>4, RestStuck, StuckMore
<1>6. Trail(C, x, t, c)
  BY DEF x
<1> HIDE DEF y
<1>7. Trail(D, y, t, c)
  BY <1>2, <1>4, <1>6, <1>x, TrailRests
<1>8. Back(p, d) \in D /\ Back(p, d).at = 1 /\ Back(p, d).seen = p.seen
  <2>1. p.at > d /\ p.at - d = 1
    BY <1>2
  <2> QED
    BY <2>1 DEF Back
<1>9. ASSUME h # <<>>
      PROVE  Len(y) >= 2 /\ y[2] # SB
  <2>1. Len(h) >= 1
    BY <1>4, <1>9
  <2>2. ~Over(x, t, p)
    BY <1>2, <1>4, <1>x, <2>1 DEF Over
  <2>3. PICK n \in C : Leads(x, t, p, n)
    BY <1>6, <2>2, MarkLeads
  <2>4. n.at \in 1..(Len(x) + 1) /\ n.at \in Int
    BY <1>6, <1>x, MarkIs
  <2>5. Leads(y, t, Back(p, d), Back(n, d)) /\ n.at > d
    <3>1. p.at > d
      BY <1>2
    <3> QED
      BY <1>2, <1>4, <1>6, <1>x, <2>3, <3>1, LeadsBack
  <2>6. Item(y, 1, n.at - d) /\ Item(x, p.at, n.at)
    BY <1>8, <2>3, <2>5 DEF Leads, Shows, Back
  <2>7. PICK e \in Nat : e = n.at - d
    BY <1>2, <2>4, <2>5
  <2>8. e > Len(h) + 1
    <3>1. ~(e \in 1..(Len(h) + 1))
      BY <1>5, <2>6, <2>7 DEF Stuck
    <3>2. e >= 1
      BY <1>2, <2>4, <2>5, <2>7
    <3> QED
      BY <1>4, <2>7, <3>1, <3>2
  <2>9. n.at > Len(buffer) + 1 /\ Len(y) >= 2 /\ p.at \in 1..Len(buffer)
    <3>1. PICK b \in Int : b = n.at
      BY <2>4
    <3>2. PICK L \in Nat, X \in Nat, H \in Nat, Y \in Nat :
            L = Len(buffer) /\ X = Len(x) /\ H = Len(h) /\ Y = Len(y)
      BY <1>4, <1>x
    <3>3. /\ b <= X + 1 /\ e = b - d /\ e > H + 1 /\ H = L - d /\ Y = X - d /\ H >= 1
          /\ p.at = d + 1
      BY <1>2, <1>4, <2>1, <2>4, <2>7, <2>8, <3>1, <3>2
    <3>4. b > L + 1 /\ Y >= 2 /\ d + 1 \in 1..L
      BY <1>2, <3>3
    <3> QED
      BY <3>1, <3>2, <3>3, <3>4
  <2>10. x[p.at] = IAC
    <3>1. n.at # p.at + 1
      BY <1>1, <2>4, <2>9
    <3> QED
      BY <2>6, <3>1 DEF Item
  <2>11. x[p.at + 1] # SB
    <3>1. CutsNoSubOption(x, Len(buffer), k)
      BY DEF x
    <3>2. \A a \in 1..Len(buffer), b \in 1..(Len(x) + 1) :
            Item(x, a, b) /\ b > Len(buffer) + 1 /\ (a = 1 \/ a > k)
              => ~(x[a] = IAC /\ x[a + 1] = SB)
      BY <3>1, Zenon DEF CutsNoSubOption
    <3>3. n.at > Len(buffer) + 1 /\ (p.at = 1 \/ p.at > k)
      BY <2>9
    <3> QED
      BY <2>4, <2>6, <2>9, <2>10, <3>2, <3>3, Zenon
  <2>12. y[2] = x[p.at + 1]
    <3>1. PICK i \in (d + 1)..((Len(x) + 1) - 1) : i = p.at + 1
      BY <1>2, <1>4, <1>x, <2>9
    <3>2. i + (0 - d) = 2
      BY <1>2, <3>1
    <3>3. y[i + (0 - d)] = x[i]
      BY <1>4, Zenon DEF Copied
    <3> QED
      BY <3>1, <3>2, <3>3
  <2> QED
    BY <2>9, <2>11, <2>12
<1> HIDE DEF D
<1> QED
  BY <1>5, <1>7, <1>8, <1>9 DEF GoesOn, h, y

\* The stream leads from the text that is shown to the end of the text that was
\* said, and what is in the buffer is the beginning of an item that TCP may cut.
Flow ==
  /\ \E C : /\ Trail(C, inBuffer \o wire, said, messages)
            /\ \E m \in C : m.at = 1 /\ m.seen = Len(shown)
  /\ shown = SubSeq(said, 1, Len(shown))
  /\ Stuck(inBuffer, Len(inBuffer))
  /\ inBuffer # <<>> => Len(inBuffer \o wire) >= 2 /\ (inBuffer \o wire)[2] # SB
  /\ ~broken => told = options

LEMMA StreamType ==
  ASSUME ConnTypeOK
  PROVE  /\ inBuffer \in Seq(Byte) /\ wire \in Seq(Byte) /\ said \in Seq(Byte)
         /\ shown \in Seq(Byte) /\ messages \in Nat /\ messages <= MaxFailures
         /\ inBuffer \o wire \in Seq(Byte)
         /\ Len(inBuffer \o wire) = Len(inBuffer) + Len(wire)
<1>1. /\ inBuffer \in Seq(Byte) /\ wire \in Seq(Byte) /\ said \in Seq(Byte)
      /\ shown \in Seq(Byte)
  BY DEF ConnTypeOK, Byte
<1>2. messages \in Nat /\ messages <= MaxFailures
  BY TelnetAssumption, LineAssumption DEF ConnTypeOK
<1> QED
  BY <1>1, <1>2, ConcatProperties

LEMMA FlowInit == ConnInit => Flow
<1> SUFFICES ASSUME ConnInit PROVE Flow
  OBVIOUS
<1> DEFINE m == [at |-> 1, seen |-> 0, asked |-> 0]
<1>1. /\ inBuffer = <<>> /\ wire = <<>> /\ said = <<>> /\ shown = <<>> /\ messages = 0
      /\ told = options
  BY DEF ConnInit
<1>2. inBuffer \o wire = <<>>
  BY <1>1
<1>3. m \in MarkOf(<<>>, <<>>, 0) /\ Over(<<>>, <<>>, m)
  BY DEF MarkOf, Over
<1> HIDE DEF m
<1>4. Trail({m}, <<>>, <<>>, 0)
  BY <1>3 DEF Trail
<1>5. m.at = 1 /\ m.seen = Len(shown)
  BY <1>1 DEF m
<1>6. Stuck(<<>>, Len(<<>>))
  <2>1. SUFFICES ASSUME NEW b \in 1..(Len(<<>>) + 1), Item(<<>>, 1, b)
                 PROVE  FALSE
    BY DEF Stuck
  <2>2. b = 1
    OBVIOUS
  <2>3. 1 < b
    BY <2>1, <2>2, ItemEnds
  <2> QED
    BY <2>2, <2>3
<1>7. shown = SubSeq(said, 1, Len(shown))
  <2>1. SubSeq(<<>>, 1, 0) = <<>>
    BY DEF Byte
  <2> QED
    BY <1>1, <2>1
<1> QED
  BY <1>1, <1>2, <1>4, <1>5, <1>6, <1>7 DEF Flow

\* Steps that leave the parser and the stream alone.
LEMMA FlowOther ==
  ASSUME Flow, UNCHANGED <<inBuffer, wire, said, messages, shown, told, options>>,
         broken => broken'
  PROVE  Flow'
BY DEF Flow

LEMMA FlowSends ==
  ASSUME ConnTypeOK, Flow, ServerSends
  PROVE  Flow'
<1>1. PICK w \in Message : wire' = wire \o w /\ said' = said \o TextOf(w)
  BY DEF ServerSends
<1>2. /\ messages' = messages + 1
      /\ inBuffer' = inBuffer /\ shown' = shown /\ told' = told /\ options' = options
      /\ broken' = broken
  BY DEF ServerSends, parserVars, history
<1>3. /\ inBuffer \in Seq(Byte) /\ wire \in Seq(Byte) /\ said \in Seq(Byte)
      /\ shown \in Seq(Byte) /\ messages \in Nat
      /\ inBuffer \o wire \in Seq(Byte)
      /\ Len(inBuffer \o wire) = Len(inBuffer) + Len(wire)
  BY StreamType
<1>4. /\ w \in Seq(Byte) /\ TextOf(w) \in Seq(Byte)
      /\ \E M : Trail(M, w, TextOf(w), 1) /\ [at |-> 1, seen |-> 0, asked |-> 0] \in M
  BY MessageTrail
<1>5. inBuffer \o (wire \o w) = (inBuffer \o wire) \o w
  <2>1. PICK a \in Seq(Byte), b \in Seq(Byte), c \in Seq(Byte) :
          a = inBuffer /\ b = wire /\ c = w
    BY <1>3, <1>4
  <2>2. a \o (b \o c) = (a \o b) \o c
    BY ConcatAssociative
  <2> QED
    BY <2>1, <2>2
<1>6. PICK C : /\ Trail(C, inBuffer \o wire, said, messages)
               /\ \E m \in C : m.at = 1 /\ m.seen = Len(shown)
  BY DEF Flow
<1>7. PICK m \in C : m.at = 1 /\ m.seen = Len(shown)
  BY <1>6
<1>8. PICK D : C \subseteq D /\ Trail(D, (inBuffer \o wire) \o w, said \o TextOf(w), messages + 1)
  <2>1. PICK M : /\ Trail(M, w, TextOf(w), 1)
                 /\ [at |-> 1, seen |-> 0, asked |-> 0] \in M
    BY <1>4
  <2> QED
    BY <1>3, <1>4, <1>6, <2>1, TrailJoins
<1>9. \E E : /\ Trail(E, inBuffer' \o wire', said', messages')
             /\ \E n \in E : n.at = 1 /\ n.seen = Len(shown')
  BY <1>1, <1>2, <1>5, <1>7, <1>8
<1>10. shown' = SubSeq(said', 1, Len(shown'))
  <2>1. Len(shown) \in 0..Len(said)
    <3>1. m.seen \in 0..Len(said)
      BY <1>3, <1>6, MarkIs
    <3> QED
      BY <1>7, <3>1
  <2>2. said \o TextOf(w) \in Seq(Byte)
    BY <1>3, <1>4, ConcatProperties
  <2> DEFINE q == said \o TextOf(w)
  <2>3. PICK z \in Nat : z = 0
    OBVIOUS
  <2>4. TextWithin(said, q, z)
    <3>1. Within(said, q, z)
      BY <1>3, <1>4, <2>3, WithinFront
    <3>2. z \in Int
      BY <2>3
    <3> HIDE DEF q
    <3> QED
      BY <1>3, <2>2, <3>1, <3>2, TextMoves DEF q
  <2> HIDE DEF q
  <2>5. SubSeq(q, (z + z) + 1, Len(shown) + z) = SubSeq(said, z + 1, Len(shown))
    BY <2>1, <2>4, Zenon DEF TextWithin
  <2>6. (z + z) + 1 = 1 /\ z + 1 = 1 /\ Len(shown) + z = Len(shown)
    BY <2>1, <2>3
  <2>7. SubSeq(said \o TextOf(w), 1, Len(shown)) = SubSeq(said, 1, Len(shown))
    BY <2>5, <2>6 DEF q
  <2> QED
    BY <1>1, <1>2, <2>7 DEF Flow
<1>11. Stuck(inBuffer', Len(inBuffer'))
  BY <1>2 DEF Flow
<1>12. inBuffer' # <<>> => /\ Len(inBuffer' \o wire') >= 2
                           /\ (inBuffer' \o wire')[2] # SB
  <2>1. SUFFICES ASSUME inBuffer # <<>>
                 PROVE  /\ Len((inBuffer \o wire) \o w) >= 2
                        /\ ((inBuffer \o wire) \o w)[2] # SB
    BY <1>1, <1>2, <1>5
  <2>2. Len(inBuffer \o wire) >= 2 /\ (inBuffer \o wire)[2] # SB
    BY <2>1 DEF Flow
  <2>3. PICK x \in Seq(Byte) : x = inBuffer \o wire
    BY <1>3
  <2>4. 2 \in 1..(Len(x) + Len(w)) /\ 2 <= Len(x)
    BY <1>4, <2>2, <2>3
  <2>5. Len(x \o w) = Len(x) + Len(w) /\ (x \o w)[2] = x[2]
    BY <1>4, <2>4, ConcatProperties
  <2> QED
    BY <2>2, <2>3, <2>4, <2>5
<1>13. ~broken' => told' = options'
  BY <1>2 DEF Flow
<1> QED
  BY <1>9, <1>10, <1>11, <1>12, <1>13 DEF Flow

LEMMA TextGoesOn ==
  ASSUME NEW t \in Seq(Byte), NEW o \in Nat, NEW g \in 0..Len(t), o <= g
  PROVE  /\ SubSeq(t, 1, o) \o SubSeq(t, o + 1, g) = SubSeq(t, 1, g)
         /\ Len(SubSeq(t, 1, g)) = g
<1>1. PICK z \in Nat : z = 0
  OBVIOUS
<1>2. z <= o
  BY <1>1
<1>3. SubSeq(t, z + 1, g) = SubSeq(t, z + 1, o) \o SubSeq(t, o + 1, g)
  BY <1>2, SubSeqJoins
<1>4. z + 1 = 1
  BY <1>1
<1>5. SubSeq(t, 1, g) = SubSeq(t, 1, o) \o SubSeq(t, o + 1, g)
  BY <1>3, <1>4
<1>6. Len(SubSeq(t, 1, g)) = g
  <2>1. g \in Int /\ g - 1 + 1 = g /\ (1 <= g \/ g = 0)
    OBVIOUS
  <2> QED
    BY <2>1, SubSeqProperties
<1> QED
  BY <1>5, <1>6

LEMMA ReadReaches ==
  ASSUME ConnTypeOK, Flow, ~SplitSubOptions, NEW n \in 1..Len(wire), NEW left \in Byte,
         Readable(n)
  PROVE  LET r == Parsed(Buffer(n), Begin, left)
             h == Unparsed(Buffer(n), r)
             rest == SubSeq(wire, n + 1, Len(wire))
         IN  /\ r.sends \in Nat /\ r.sends <= messages
             /\ told = options => r.told = r.options
             /\ shown \o r.text = SubSeq(said, 1, Len(shown \o r.text))
             /\ GoesOn(h, rest, said, messages, Len(shown \o r.text))
<1>1. /\ inBuffer \in Seq(Byte) /\ wire \in Seq(Byte) /\ said \in Seq(Byte)
      /\ shown \in Seq(Byte) /\ messages \in Nat
      /\ inBuffer \o wire \in Seq(Byte)
  BY StreamType
<1>2. login.user \in BOOLEAN
  BY LoginType
<1> DEFINE rest == SubSeq(wire, n + 1, Len(wire))
           x == inBuffer \o wire
<1>3. PICK buffer : buffer = Buffer(n)
  OBVIOUS
<1>4. /\ buffer \in Seq(Byte) /\ Len(buffer) = Len(inBuffer) + n
      /\ Prefixes(buffer, x) /\ x = buffer \o rest /\ rest \in Seq(Byte)
  <2>1. LET b == inBuffer \o SubSeq(wire, 1, n)
        IN  /\ b \in Seq(Byte) /\ Len(b) = Len(inBuffer) + n
            /\ Prefixes(b, x) /\ x = b \o rest
    BY <1>1, ReadSplits, Zenon
  <2>2. rest \in Seq(Byte)
    BY BufferType
  <2> QED
    BY <1>3, <2>1, <2>2 DEF Buffer
<1>5. PICK s : s = Begin
  OBVIOUS
<1>6. /\ s \in ParserState /\ s.i = 1 /\ s.text = <<>> /\ s.sends = 0
      /\ s.options = options /\ s.told = told
  BY <1>5, BeginType
<1>7. PICK r : r = Parsed(buffer, s, left)
  OBVIOUS
<1>8. CutsNoSubOption(x, Len(buffer), Len(inBuffer))
  <2>1. ReadableOf(wire, n)
    BY DEF Readable, ReadableOf
  <2>2. inBuffer # <<>> => x[2] # SB
    BY DEF Flow
  <2> QED
    BY <1>1, <1>4, <2>1, <2>2, CutsAre
<1>9. Stuck(x, Len(inBuffer))
  BY <1>1, StuckMore DEF Flow
<1>10. PICK C : /\ Trail(C, x, said, messages)
                /\ \E m \in C : m.at = 1 /\ m.seen = Len(shown)
  BY DEF Flow
<1> HIDE DEF rest, x
<1>11. PICK m \in C : m.at = 1 /\ m.seen = Len(shown)
  BY <1>10
<1>12. PICK k \in 0..Len(buffer) : k = Len(inBuffer)
  BY <1>1, <1>4
<1>13. /\ Round(buffer, r, left) = r
       /\ \E p \in C : Reached(buffer, said, k, s, m, r, p)
  <2>1. x \in Seq(Byte)
    BY <1>1 DEF x
  <2>2. CutsNoSubOption(x, Len(buffer), k) /\ Stuck(x, k)
    BY <1>8, <1>9, <1>12
  <2>3. LET q == Parsed(buffer, s, left)
        IN  /\ Round(buffer, q, left) = q
            /\ \E p \in C : Reached(buffer, said, k, s, m, q, p)
    BY <1>1, <1>2, <1>4, <1>6, <1>10, <1>11, <2>1, <2>2, ParsedReaches
  <2> QED
    BY <1>7, <2>3
<1>14. PICK p \in C : Reached(buffer, said, k, s, m, r, p)
  BY <1>13
<1>15. /\ r \in ParserState /\ r.i = p.at /\ p.at <= Len(buffer) + 1
       /\ p.at = 1 \/ p.at > k
       /\ m.seen <= p.seen /\ r.text = SubSeq(said, m.seen + 1, p.seen)
       /\ r.sends <= p.asked
       /\ s.told = s.options => r.told = r.options
  BY <1>14, Zenon DEF Reached
<1>16. /\ p.seen \in 0..Len(said) /\ p.asked \in 0..messages /\ m.seen \in Nat
  <2>1. x \in Seq(Byte)
    BY <1>1 DEF x
  <2> QED
    BY <1>1, <1>10, <2>1, MarkIs
<1>17. r.sends \in Nat /\ r.sends <= messages
  <2>1. r.sends \in Nat
    BY <1>15 DEF ParserState
  <2> QED
    BY <1>1, <1>15, <1>16, <2>1
<1>18. told = options => r.told = r.options
  BY <1>6, <1>15
<1>19. /\ shown \o r.text = SubSeq(said, 1, p.seen) /\ Len(shown \o r.text) = p.seen
  <2>1. PICK o \in Nat : o = m.seen
    BY <1>16
  <2>2. PICK g \in 0..Len(said) : g = p.seen
    BY <1>16
  <2>3. o <= g /\ shown = SubSeq(said, 1, o) /\ r.text = SubSeq(said, o + 1, g)
    BY <1>11, <1>15, <2>1, <2>2 DEF Flow
  <2>4. /\ SubSeq(said, 1, o) \o SubSeq(said, o + 1, g) = SubSeq(said, 1, g)
        /\ Len(SubSeq(said, 1, g)) = g
    BY <1>1, <2>3, TextGoesOn
  <2> QED
    BY <2>2, <2>3, <2>4
<1>20. GoesOn(SubSeq(buffer, r.i, Len(buffer)), rest, said, messages, p.seen)
  <2>1. Trail(C, buffer \o rest, said, messages)
        /\ CutsNoSubOption(buffer \o rest, Len(buffer), k)
    BY <1>4, <1>8, <1>10, <1>12
  <2> QED
    BY <1>1, <1>2, <1>4, <1>13, <1>15, <2>1, RestGoesOn
<1> QED
  BY <1>3, <1>5, <1>7, <1>17, <1>18, <1>19, <1>20 DEF Unparsed, rest

LEMMA FlowReads ==
  ASSUME ConnTypeOK, Flow, ~SplitSubOptions, newTerminalDataAvailable
  PROVE  Flow'
<1>1. PICK n \in 1..Len(wire), left \in {0, optionSend}, ok \in BOOLEAN :
        Readable(n) /\ Received(n, left, ok)
  BY DEF newTerminalDataAvailable
<1>2. left \in Byte
  BY DEF optionSend, Byte
<1> DEFINE r == Parsed(Buffer(n), Begin, left)
           h == Unparsed(Buffer(n), r)
           rest == SubSeq(wire, n + 1, Len(wire))
<1>3. /\ wire' = rest /\ inBuffer' = h /\ shown' = shown \o r.text
      /\ options' = r.options /\ told' = r.told /\ broken' = (broken \/ ~ok)
  BY <1>1 DEF Received, Begin, Buffer
<1>4. said' = said /\ messages' = messages
  BY DEF newTerminalDataAvailable
<1>5. /\ told = options => r.told = r.options
      /\ shown \o r.text = SubSeq(said, 1, Len(shown \o r.text))
      /\ GoesOn(h, rest, said, messages, Len(shown \o r.text))
  BY <1>1, <1>2, ReadReaches
<1> HIDE DEF r, h, rest
<1>6. ~broken' => told' = options'
  BY <1>3, <1>5 DEF Flow
<1> QED
  BY <1>3, <1>4, <1>5, <1>6 DEF Flow, GoesOn

LEMMA SentKeeps ==
  ASSUME ConnTypeOK, NEW rest, NEW n, NEW ok, Sent(rest, n, ok)
  PROVE  broken => broken'
BY DEF Sent, ConnTypeOK

LEMMA FlowStep ==
  ASSUME ConnTypeOK, Flow, ~SplitSubOptions, [ConnNext]_connVars
  PROVE  Flow'
<1> USE DEF flags, serverVars, parserVars, history
<1>1. CASE newTerminalDataAvailable
  BY <1>1, FlowReads
<1>2. CASE ServerSends
  BY <1>2, FlowSends
<1>3. ASSUME UNCHANGED <<inBuffer, wire, said, messages, shown, told, options>>,
             broken => broken'
      PROVE  Flow'
  BY <1>3, FlowOther
<1>4. CASE connectTask
  BY <1>3, <1>4 DEF connectTask
<1>5. CASE SourceCancelled
  BY <1>3, <1>5 DEF SourceCancelled
<1>6. CASE ReceiveFailed
  BY <1>3, <1>6 DEF ReceiveFailed
<1>7. CASE writePassword
  <2>1. CASE login.password
    <3>1. PICK ok \in {FALSE, fd} : Sent(Tail(queue), 1, ok)
      BY <1>7, <2>1 DEF writePassword
    <3>2. broken => broken'
      BY <3>1, SentKeeps
    <3>3. UNCHANGED <<inBuffer, wire, said, messages, shown, told, options>>
      BY <1>7 DEF writePassword
    <3> QED
      BY <1>3, <3>2, <3>3
  <2>2. CASE ~login.password
    BY <1>3, <1>7, <2>2 DEF writePassword
  <2> QED
    BY <2>1, <2>2
<1>8. CASE writeFrom
  <2>1. PICK ok \in {FALSE, fd} : Sent(Tail(queue), 1, ok)
    BY <1>8 DEF writeFrom
  <2>2. broken => broken'
    BY <2>1, SentKeeps
  <2> QED
    BY <1>3, <1>8, <2>2 DEF writeFrom
<1>9. CASE writeNothing
  <2>1. broken => broken'
    BY <1>9, SentKeeps DEF writeNothing
  <2> QED
    BY <1>3, <1>9, <2>1 DEF writeNothing
<1>10. CASE disconnectTask
  BY <1>3, <1>10 DEF disconnectTask
<1>11. CASE SourceReady
  BY <1>3, <1>11 DEF SourceReady
<1>12. CASE ServerCloses
  BY <1>3, <1>12 DEF ServerCloses
<1>13. CASE TypeKey
  BY <1>3, <1>13 DEF TypeKey
<1>14. CASE endConnection
  BY <1>3, <1>14 DEF endConnection
<1>15. CASE UNCHANGED connVars
  BY <1>3, <1>15 DEF connVars
<1> QED
  BY <1>1, <1>2, <1>4, <1>5, <1>6, <1>7, <1>8, <1>9, <1>10, <1>11, <1>12, <1>13, <1>14,
     <1>15 DEF ConnNext, RunTask

LEMMA FlowText ==
  ASSUME ConnTypeOK, Flow
  PROVE  TextIntact
<1> DEFINE x == inBuffer \o wire
<1>1. /\ inBuffer \in Seq(Byte) /\ wire \in Seq(Byte) /\ said \in Seq(Byte)
      /\ shown \in Seq(Byte) /\ messages \in Nat /\ x \in Seq(Byte)
      /\ Len(x) = Len(inBuffer) + Len(wire)
  BY StreamType
<1>2. PICK C : Trail(C, x, said, messages) /\ \E m \in C : m.at = 1 /\ m.seen = Len(shown)
  BY DEF Flow
<1>3. PICK m \in C : m.at = 1 /\ m.seen = Len(shown)
  BY <1>2
<1>4. Stuck(x, Len(inBuffer))
  BY <1>1, StuckMore DEF Flow
<1> HIDE DEF x
<1>5. m.seen \in 0..Len(said) /\ m.at \in 1..(Len(x) + 1)
  BY <1>1, <1>2, MarkIs
<1>6. Len(shown) <= Len(said) /\ shown = SubSeq(said, 1, Len(shown))
  BY <1>1, <1>3, <1>5 DEF Flow
<1>7. ASSUME wire = <<>>
      PROVE  shown = said
  <2>1. Len(x) = Len(inBuffer)
    BY <1>1, <1>7
  <2>2. CASE Over(x, said, m)
    <3>1. Len(shown) = Len(said)
      BY <1>3, <2>2 DEF Over
    <3>2. ASSUME NEW i \in 1..Len(said)
          PROVE  SubSeq(said, 1, Len(said))[i] = said[i]
      <4>1. Len(said) - 1 + 1 = Len(said) /\ 1 + i - 1 = i /\ Len(said) \in Int /\ 1 \in Int
        BY <1>1
      <4> QED
        BY <1>1, <4>1, SubSeqProperties
    <3>3. ASSUME NEW i \in 1..Len(shown)
          PROVE  shown[i] = said[i]
      BY <1>6, <3>1, <3>2
    <3> QED
      BY <1>1, <3>1, <3>3, SeqEqual
  <2>3. CASE ~Over(x, said, m)
    <3>1. PICK n \in C : Leads(x, said, m, n)
      BY <1>2, <2>3, MarkLeads
    <3>2. n.at \in 1..(Len(x) + 1)
      BY <1>1, <1>2, MarkIs
    <3>3. Item(x, 1, n.at)
      BY <1>3, <3>1 DEF Leads, Shows
    <3>4. n.at \in 1..(Len(inBuffer) + 1)
      BY <2>1, <3>2
    <3> QED
      BY <1>4, <3>3, <3>4 DEF Stuck
  <2> QED
    BY <2>2, <2>3
<1> QED
  BY <1>6, <1>7 DEF TextIntact

LEMMA FlowHolds ==
  ASSUME ~SplitSubOptions
  PROVE  ConnSpec => [](ConnTypeOK /\ Flow)
<1>1. ConnInit => ConnTypeOK /\ Flow
  BY InitType, FlowInit
<1>2. ConnTypeOK /\ Flow /\ [ConnNext]_connVars => ConnTypeOK' /\ Flow'
  BY TypeStep, FlowStep
<1> QED
  BY <1>1, <1>2, PTL DEF ConnSpec

\* Where TCP cuts no sub option, the screen gets the text the server sent, nothing
\* else and nothing twice, however long the session and wherever the data is cut
\* (newTerminalDataAvailable, 570-643).
THEOREM TextArrives ==
  ASSUME ~SplitSubOptions
  PROVE  ConnSpec => []TextIntact
<1>1. ConnTypeOK /\ Flow => TextIntact
  BY FlowText
<1> QED
  BY <1>1, FlowHolds, PTL

(***************************************************************************)
(* What holds wherever TCP cuts: a cut sub option may be parsed as text and *)
(* requests, of which there are no more than bytes.                        *)
(***************************************************************************)

\* The one request no option can answer: an offer of the window size.
NoOffer(x) ==
  \A i \in 1..(Len(x) - 1) :
    ~(x[i] \in {WILL, WONT} /\ x[i + 1] = optionNegotiateAboutWindowSize)

\* No message holds one, be it within a text or a sub option, and none joins
\* with the one before it to one.
NeverOffered ==
  \A m \in Message : NoOffer(m) /\ m[1] # optionNegotiateAboutWindowSize

\* One read fails at most as often as there are bytes.
BytesCounted ==
  \E size \in Nat : /\ \A m \in Message : Len(m) <= size
                    /\ MaxMessages * size <= MaxFailures

RoundGoesOn(buffer, r, s) ==
  /\ r.sends \in Nat /\ r.sends <= s.sends + (r.i - s.i)
  /\ NoOffer(buffer) /\ s.told = s.options => r.told = r.options

LEMMA RoundCounts ==
  ASSUME NEW buffer \in Seq(Byte), NEW left \in Byte, NEW s \in ParserState, s.i >= 1,
         login.user \in BOOLEAN
  PROVE  RoundGoesOn(buffer, Round(buffer, s, left), s)
<1> DEFINE r == Round(buffer, s, left)
           L == Len(buffer)
           Goal == RoundGoesOn(buffer, r, s)
<1>1. s.i \in Nat /\ L \in Nat /\ s.sends \in Nat
  BY DEF ParserState
<1> HIDE DEF r
<1>2. ASSUME s.i > L \/ (s.i = L /\ buffer[s.i] = IAC)
             \/ (s.i = L - 1 /\ buffer[s.i] = IAC /\ buffer[s.i + 1] \in Verb)
      PROVE  Goal
  <2>1. r = s
    BY <1>2, RoundStays DEF r
  <2> QED
    BY <1>1, <2>1 DEF RoundGoesOn
<1>3. ASSUME NEW i \in Nat, Took(buffer, r, s, i), i > s.i,
             NoOffer(buffer) /\ s.told = s.options => r.told = r.options
      PROVE  Goal
  <2>1. r.sends \in s.sends..(s.sends + (IF buffer[s.i] = IAC THEN 1 ELSE 0)) /\ r.i = i
    BY <1>3 DEF Took
  <2>2. r.sends \in Nat /\ r.sends <= s.sends + 1
    BY <1>1, <2>1
  <2>3. PICK a \in Nat, b \in Nat, c \in Nat : a = r.sends /\ b = s.sends /\ c = s.i
    BY <1>1, <2>2
  <2>4. a <= b + (i - c)
    <3>1. i > c /\ a <= b + 1
      BY <1>3, <2>2, <2>3
    <3> QED
      BY <3>1
  <2>5. r.sends <= s.sends + (r.i - s.i)
    BY <2>1, <2>3, <2>4
  <2> QED
    BY <1>3, <2>2, <2>5, Zenon DEF RoundGoesOn
<1>4. ASSUME NEW i \in Nat, Took(buffer, r, s, i), i > s.i, SameOptions(r, s)
      PROVE  Goal
  BY <1>3, <1>4 DEF SameOptions
<1>5. ASSUME s.i <= L /\ buffer[s.i] # IAC
      PROVE  Goal
  <2>1. Took(buffer, r, s, s.i + 1) /\ SameOptions(r, s)
    BY <1>1, <1>5, RoundText DEF r
  <2> QED
    BY <1>1, <1>4, <2>1
<1>6. ASSUME s.i < L /\ buffer[s.i] = IAC /\ buffer[s.i + 1] = IAC
      PROVE  Goal
  <2>1. Took(buffer, r, s, s.i + 2) /\ SameOptions(r, s)
    BY <1>1, <1>6, RoundEscape DEF r
  <2> QED
    BY <1>1, <1>4, <2>1
<1>7. ASSUME s.i < L /\ buffer[s.i] = IAC /\ buffer[s.i + 1] = SB
      PROVE  Goal
  <2> DEFINE end == SubOptionEnd(buffer, s.i)
  <2>1. Took(buffer, r, s, end + 2) /\ SameOptions(r, s)
    BY <1>1, <1>7, RoundSubOption DEF r
  <2>2. end = s.i \/ end \in (s.i + 2)..(L - 1)
    BY <1>1, SubOptionEndIs DEF EndsAt
  <2> HIDE DEF end
  <2> QED
    BY <1>1, <1>4, <2>1, <2>2
<1>8. ASSUME s.i < L /\ buffer[s.i] = IAC /\ buffer[s.i + 1] \notin Verb \cup {SB, IAC}
      PROVE  Goal
  <2>1. Took(buffer, r, s, s.i + 2) /\ SameOptions(r, s)
    BY <1>1, <1>8, RoundCommand DEF r
  <2> QED
    BY <1>1, <1>4, <2>1
<1>9. ASSUME s.i < L - 1 /\ buffer[s.i] = IAC /\ buffer[s.i + 1] \in Verb
      PROVE  Goal
  <2>1. /\ Took(buffer, r, s, s.i + 3)
        /\ s.told = s.options
             /\ (buffer[s.i + 2] = optionNegotiateAboutWindowSize
                   => buffer[s.i + 1] \in {DO, DONT})
           => r.told = r.options
    BY <1>1, <1>9, RoundRequest DEF r
  <2>2. ASSUME NoOffer(buffer), buffer[s.i + 2] = optionNegotiateAboutWindowSize
        PROVE  buffer[s.i + 1] \in {DO, DONT}
    <3>1. s.i + 1 \in 1..(Len(buffer) - 1) /\ (s.i + 1) + 1 = s.i + 2
      BY <1>1, <1>9
    <3>2. buffer[s.i + 1] \notin {WILL, WONT}
      BY <2>2, <3>1 DEF NoOffer
    <3> QED
      BY <1>9, <3>2 DEF Verb
  <2> QED
    BY <1>1, <1>3, <2>1, <2>2
<1>10. Goal
  BY <1>1, <1>2, <1>5, <1>6, <1>7, <1>8, <1>9
<1> QED
  BY <1>10 DEF r

\* However the data was cut, a read sends no more answers than it parses bytes,
\* and keeps client and server together unless there is an offer in them.
LEMMA ParsedCounts ==
  ASSUME NEW buffer \in Seq(Byte), NEW left \in Byte, login.user \in BOOLEAN,
         NEW s \in ParserState, s.i = 1, s.sends = 0
  PROVE  LET r == Parsed(buffer, s, left)
         IN  /\ r.sends \in Nat /\ r.sends <= Len(buffer)
             /\ NoOffer(buffer) /\ s.told = s.options => r.told = r.options
<1> DEFINE Agree == NoOffer(buffer) /\ s.told = s.options
           W == {t \in ParserState : /\ t.i \in 1..(Len(buffer) + 1) /\ t.sends < t.i
                                     /\ Agree => t.told = t.options}
<1> HIDE DEF Agree
<1>1. s \in W
  BY DEF Agree
<1>2. ASSUME NEW t \in W
      PROVE  Round(buffer, t, left) \in W
  <2>1. /\ t \in ParserState /\ t.i >= 1 /\ t.i \in 1..(Len(buffer) + 1)
        /\ t.sends < t.i /\ t.sends \in Nat /\ (Agree => t.told = t.options)
    BY DEF ParserState
  <2>2. PICK r : r = Round(buffer, t, left)
    OBVIOUS
  <2>3. /\ r \in ParserState
        /\ r = t \/ (r.i > t.i /\ r.i <= Len(buffer) + 1)
    BY <2>1, <2>2, RoundIs
  <2>4. RoundGoesOn(buffer, r, t)
    BY <2>1, <2>2, RoundCounts, Zenon
  <2>5. r.i \in Nat /\ r.sends \in Nat
    BY <2>3 DEF ParserState
  <2>6. r.i \in 1..(Len(buffer) + 1) /\ r.sends < r.i
    BY <2>1, <2>3, <2>4, <2>5 DEF RoundGoesOn
  <2>7. Agree => r.told = r.options
    BY <2>1, <2>4 DEF RoundGoesOn, Agree
  <2> QED
    BY <2>2, <2>3, <2>6, <2>7
<1>3. W \subseteq ParserState /\ \A t \in W : t.i >= 1
  OBVIOUS
<1> HIDE DEF W
<1>4. PICK r \in W : r = Parsed(buffer, s, left)
  BY <1>1, <1>2, <1>3, LoopKeeps
<1>5. /\ r \in ParserState /\ r.i \in 1..(Len(buffer) + 1) /\ r.sends < r.i
      /\ Agree => r.told = r.options
  BY DEF W
<1>6. r.sends \in Nat /\ r.i \in Nat /\ Len(buffer) \in Nat
  BY <1>5 DEF ParserState
<1>7. r.sends \in Nat /\ r.sends <= Len(buffer)
  BY <1>5, <1>6
<1> QED
  BY <1>4, <1>5, <1>7 DEF Agree

LEMMA ReadCounts ==
  ASSUME ConnTypeOK, NEW n \in 1..Len(wire), NEW left \in Byte
  PROVE  LET r == Parsed(Buffer(n), Begin, left)
         IN  /\ r \in ParserState /\ r.i \in 1..(Len(Buffer(n)) + 1)
             /\ r.sends \in Nat /\ r.sends <= Len(inBuffer) + n
             /\ NoOffer(Buffer(n)) /\ told = options => r.told = r.options
<1>1. /\ Buffer(n) \in Seq(Byte) /\ Begin \in ParserState /\ Begin.i = 1
      /\ login.user \in BOOLEAN /\ Begin.sends = 0
      /\ Begin.told = told /\ Begin.options = options
      /\ Len(Buffer(n)) = Len(inBuffer) + n
  BY BufferType, BeginType, LoginType
<1>2. PICK r : r = Parsed(Buffer(n), Begin, left)
  OBVIOUS
<1>3. r \in ParserState /\ r.i \in 1..(Len(Buffer(n)) + 1)
  BY <1>1, <1>2, ParsedType
<1>4. /\ r.sends \in Nat /\ r.sends <= Len(Buffer(n))
      /\ NoOffer(Buffer(n)) /\ told = options => r.told = r.options
  BY <1>1, <1>2, ParsedCounts
<1> QED
  BY <1>1, <1>2, <1>3, <1>4

\* The bytes under way: what is parsed with the next read and what comes behind.
Unoffered ==
  /\ NoOffer(inBuffer \o wire)
  /\ ~broken => told = options

Counted(size) == Len(inBuffer) + Len(wire) <= messages * size

\* What the reader has and what is on the wire, after a read.
LEMMA StreamAfter ==
  ASSUME ConnTypeOK, NEW n \in 1..Len(wire), NEW i \in 1..(Len(Buffer(n)) + 1)
  PROVE  LET h    == SubSeq(Buffer(n), i, Len(Buffer(n)))
             rest == SubSeq(wire, n + 1, Len(wire))
         IN  /\ h \in Seq(Byte) /\ rest \in Seq(Byte)
             /\ Len(h) + Len(rest) = (Len(inBuffer) + Len(wire)) - (i - 1)
             /\ Len(h \o rest) = Len(h) + Len(rest)
             /\ \A j \in 1..Len(h \o rest) :
                  (h \o rest)[j] = (inBuffer \o wire)[j + (i - 1)]
<1> DEFINE h == SubSeq(Buffer(n), i, Len(Buffer(n)))
           rest == SubSeq(wire, n + 1, Len(wire))
<1>1. /\ inBuffer \in Seq(Byte) /\ wire \in Seq(Byte)
      /\ inBuffer \o wire \in Seq(Byte)
      /\ Len(inBuffer \o wire) = Len(inBuffer) + Len(wire)
  BY StreamType
<1>2. PICK b \in Seq(Byte) : b = Buffer(n)
  BY BufferType
<1>3. PICK x \in Seq(Byte) : x = inBuffer \o wire
  BY <1>1
<1>4. /\ Len(b) = Len(inBuffer) + n /\ rest \in Seq(Byte)
      /\ x = b \o rest
  <2>1. rest \in Seq(Byte) /\ Len(b) = Len(inBuffer) + n
    BY <1>2, BufferType
  <2>2. inBuffer \o wire = (inBuffer \o SubSeq(wire, 1, n)) \o SubSeq(wire, n + 1, Len(wire))
    BY <1>1, ReadSplits, Zenon
  <2> QED
    BY <1>2, <1>3, <2>1, <2>2 DEF Buffer
<1> HIDE DEF h, rest
<1>5. PICK k \in Nat, l \in Nat, c \in Nat : k = Len(b) /\ l = Len(rest) /\ c = Len(wire)
  <2>1. Len(b) \in Nat /\ Len(rest) \in Nat /\ Len(wire) \in Nat
    BY <1>1, <1>4, LenProperties
  <2> QED
    BY <2>1
<1>6. l = c - n /\ n \in Nat /\ n <= c
  <2>1. Len(rest) = IF n + 1 <= Len(wire) THEN Len(wire) - (n + 1) + 1 ELSE 0
    BY <1>1, SubSeqProperties DEF rest
  <2>2. n \in Nat /\ n <= c
    BY <1>5
  <2> QED
    BY <1>5, <2>1, <2>2
<1>7. i \in 1..(k + 1)
  BY <1>2, <1>5
<1>8. /\ h \in Seq(Byte) /\ Len(h) = k - (i - 1)
      /\ \A j \in 1..(k - (i - 1)) : h[j] = b[j + (i - 1)]
  <2>1. h = SubSeq(b, i, k)
    BY <1>2, <1>5 DEF h
  <2>2. /\ SubSeq(b, i, k) \in Seq(Byte)
        /\ Len(SubSeq(b, i, k)) = IF i <= k THEN k - i + 1 ELSE 0
        /\ \A j \in 1..(k - i + 1) : SubSeq(b, i, k)[j] = b[i + j - 1]
    <3>1. i \in Int /\ k \in Int /\ i >= 1
      BY <1>7
    <3>2. \A j \in i..k : b[j] \in Byte
      <4>1. \A j \in i..k : j \in 1..Len(b)
        BY <1>5, <3>1
      <4> QED
        BY <4>1
    <3>3. \A s \in Seq(Byte) : \A v \in 1..(Len(s) + 1) :
            /\ SubSeq(s, v, Len(s)) \in Seq(Byte)
            /\ Len(SubSeq(s, v, Len(s))) = IF v <= Len(s) THEN Len(s) - v + 1 ELSE 0
            /\ \A j \in 1..(Len(s) - v + 1) : SubSeq(s, v, Len(s))[j] = s[v + j - 1]
      BY SubSeqProperties
    <3> QED
      BY <1>5, <1>7, <3>3, Zenon
  <2>3. i <= k + 1 /\ i \in Nat
    BY <1>7
  <2>4. \A j \in 1..(k - (i - 1)) : i + j - 1 = j + (i - 1) /\ j \in 1..(k - i + 1)
    BY <1>7
  <2> QED
    BY <1>5, <2>1, <2>2, <2>3, <2>4
<1>9. Len(h) + Len(rest) = (Len(inBuffer) + Len(wire)) - (i - 1)
  <2>1. PICK a \in Nat : a = Len(inBuffer)
    BY <1>1
  <2>2. k = a + n
    BY <1>4, <1>5, <2>1
  <2>3. Len(h) = k - (i - 1) /\ Len(rest) = c - n /\ Len(wire) = c
    BY <1>5, <1>6, <1>8
  <2>4. (k - (i - 1)) + (c - n) = (a + c) - (i - 1)
    BY <1>6, <1>7, <2>2
  <2>5. Len(h) + Len(rest) = (k - (i - 1)) + (c - n)
    BY <2>3, Zenon
  <2>6. (Len(inBuffer) + Len(wire)) - (i - 1) = (a + c) - (i - 1)
    BY <2>1, <2>3
  <2> QED
    BY <2>4, <2>5, <2>6, Zenon
<1>10. /\ Len(h \o rest) = Len(h) + Len(rest)
       /\ \A j \in 1..(Len(h) + Len(rest)) :
            (h \o rest)[j] = IF j <= Len(h) THEN h[j] ELSE rest[j - Len(h)]
  BY <1>4, <1>8, ConcatProperties
<1>11. \A j \in 1..(k + l) : x[j] = IF j <= k THEN b[j] ELSE rest[j - k]
  BY <1>4, <1>5, ConcatProperties
<1>12. ASSUME NEW j \in 1..(Len(h) + Len(rest))
       PROVE  (h \o rest)[j] = x[j + (i - 1)]
  <2> DEFINE d == i - 1
  <2>1. d \in Nat /\ d <= k /\ Len(h) = k - d /\ j \in Nat /\ j >= 1 /\ j <= (k - d) + l
    <3>1. d \in Nat /\ d <= k
      BY <1>7
    <3>2. Len(h) = k - d
      BY <1>8
    <3>3. j \in 1..((k - d) + l)
      BY <1>5, <3>2
    <3> HIDE DEF d
    <3> QED
      BY <1>5, <3>1, <3>2, <3>3
  <2> HIDE DEF d
  <2>2. j + d \in 1..(k + l)
    BY <1>5, <2>1
  <2>3. CASE j <= k - d
    <3>1. h[j] = b[j + d] /\ j + d <= k
      <4>1. j \in 1..(k - d)
        BY <1>5, <2>1, <2>3
      <4>2. h[j] = b[j + d]
        BY <1>8, <4>1 DEF d
      <4> QED
        BY <2>1, <2>3, <4>2
    <3> QED
      BY <1>10, <1>11, <2>1, <2>2, <2>3, <3>1 DEF d
  <2>4. CASE ~(j <= k - d)
    <3>1. ~(j + d <= k) /\ (j + d) - k = j - (k - d)
      BY <1>5, <2>1, <2>4
    <3>2. (h \o rest)[j] = rest[j - (k - d)]
      BY <1>10, <2>1, <2>4
    <3>3. x[j + d] = rest[(j + d) - k]
      BY <1>11, <2>2, <3>1
    <3> QED
      BY <3>1, <3>2, <3>3 DEF d
  <2> QED
    BY <2>3, <2>4
<1> QED
  BY <1>3, <1>4, <1>8, <1>9, <1>10, <1>12, Zenon DEF h, rest

LEMMA UnofferedReads ==
  ASSUME ConnTypeOK, Unoffered, newTerminalDataAvailable
  PROVE  Unoffered'
<1>1. PICK n \in 1..Len(wire), left \in {0, optionSend}, ok \in BOOLEAN :
        Received(n, left, ok)
  BY DEF newTerminalDataAvailable
<1>2. left \in Byte
  BY DEF optionSend, Byte
<1>3. PICK r : r = Parsed(Buffer(n), Begin, left)
  OBVIOUS
<1> DEFINE h == Unparsed(Buffer(n), r)
           rest == SubSeq(wire, n + 1, Len(wire))
<1>4. /\ wire' = rest /\ inBuffer' = h /\ options' = r.options /\ told' = r.told
      /\ broken' = (broken \/ ~ok)
  BY <1>1, <1>3 DEF Received, Begin, Buffer
<1>5. PICK i \in 1..(Len(Buffer(n)) + 1) : i = r.i
  BY <1>2, <1>3, ReadCounts
<1>6. NoOffer(Buffer(n)) /\ told = options => r.told = r.options
  BY <1>2, <1>3, ReadCounts
<1>7. /\ Len(h \o rest) = Len(h) + Len(rest)
      /\ Len(h) \in Nat /\ Len(rest) \in Nat
      /\ Len(h) + Len(rest) = (Len(inBuffer) + Len(wire)) - (i - 1)
      /\ \A j \in 1..Len(h \o rest) :
           (h \o rest)[j] = (inBuffer \o wire)[j + (i - 1)]
  <2>1. h = SubSeq(Buffer(n), i, Len(Buffer(n)))
    BY <1>5 DEF Unparsed
  <2>3. /\ h \in Seq(Byte) /\ rest \in Seq(Byte)
        /\ Len(h) + Len(rest) = (Len(inBuffer) + Len(wire)) - (i - 1)
        /\ Len(h \o rest) = Len(h) + Len(rest)
        /\ \A j \in 1..Len(h \o rest) :
             (h \o rest)[j] = (inBuffer \o wire)[j + (i - 1)]
    BY <2>1, StreamAfter, Zenon
  <2>4. Len(h) \in Nat /\ Len(rest) \in Nat
    BY <2>3, LenProperties
  <2> QED
    BY <2>3, <2>4, Zenon
<1> HIDE DEF h, rest
<1>8. PICK x \in Seq(Byte) : x = inBuffer \o wire /\ Len(x) = Len(inBuffer) + Len(wire)
  BY StreamType
<1>9. PICK L \in Nat, K \in Nat : L = Len(x) /\ K = Len(h \o rest)
  <2>1. Len(x) \in Nat /\ Len(h \o rest) \in Nat
    BY <1>7, <1>8, LenProperties
  <2> QED
    BY <2>1
<1>10. i \in Nat /\ i >= 1 /\ K = L - (i - 1)
  <2>1. i \in Nat /\ i >= 1
    <3>1. Len(Buffer(n)) \in Nat
      BY BufferType, LenProperties
    <3> QED
      BY <3>1
  <2>2. K = L - (i - 1)
    <3>1. K = (Len(inBuffer) + Len(wire)) - (i - 1)
      BY <1>7, <1>9, Zenon
    <3> QED
      BY <1>8, <1>9, <3>1, Zenon
  <2> QED
    BY <2>1, <2>2
<1>11. \A j \in 1..K : (h \o rest)[j] = x[j + (i - 1)]
  BY <1>7, <1>8, <1>9, Zenon
<1>12. \A j \in 1..(L - 1) :
         ~(x[j] \in {WILL, WONT} /\ x[j + 1] = optionNegotiateAboutWindowSize)
  BY <1>8, <1>9 DEF Unoffered, NoOffer
<1>13. NoOffer(h \o rest)
  <2>1. SUFFICES ASSUME NEW j \in 1..(K - 1)
                 PROVE  ~(/\ (h \o rest)[j] \in {WILL, WONT}
                          /\ (h \o rest)[j + 1] = optionNegotiateAboutWindowSize)
    BY <1>9 DEF NoOffer
  <2>2. j \in 1..K /\ j + 1 \in 1..K
    BY <1>9
  <2>3. (j + 1) + (i - 1) = (j + (i - 1)) + 1 /\ j + (i - 1) \in 1..(L - 1)
    BY <1>9, <1>10
  <2>4. /\ (h \o rest)[j] = x[j + (i - 1)]
        /\ (h \o rest)[j + 1] = x[(j + (i - 1)) + 1]
    <3>1. (h \o rest)[j + 1] = x[(j + 1) + (i - 1)]
      BY <1>11, <2>2, Zenon
    <3>2. x[(j + 1) + (i - 1)] = x[(j + (i - 1)) + 1]
      BY <2>3, Zenon
    <3> QED
      BY <1>11, <2>2, <3>1, <3>2, Zenon
  <2> QED
    BY <1>12, <2>3, <2>4
<1>14. NoOffer(Buffer(n))
  <2>1. /\ Len(Buffer(n)) <= L /\ Len(Buffer(n)) \in Nat
        /\ \A j \in 1..Len(Buffer(n)) : Buffer(n)[j] = x[j]
    <3>1. Prefixes(Buffer(n), x) /\ Buffer(n) \in Seq(Byte)
      <4>1. inBuffer \in Seq(Byte) /\ wire \in Seq(Byte)
        BY StreamType
      <4>2. LET b == inBuffer \o SubSeq(wire, 1, n)
            IN  b \in Seq(Byte) /\ Prefixes(b, inBuffer \o wire)
        BY <4>1, ReadSplits, Zenon
      <4> QED
        BY <1>8, <4>2 DEF Buffer
    <3>2. Len(Buffer(n)) \in Nat
      BY <3>1, LenProperties
    <3> QED
      BY <1>9, <3>1, <3>2 DEF Prefixes
  <2>2. PICK k \in Nat : k = Len(Buffer(n))
    BY <2>1
  <2>3. SUFFICES ASSUME NEW j \in 1..(k - 1)
                 PROVE  ~(/\ Buffer(n)[j] \in {WILL, WONT}
                          /\ Buffer(n)[j + 1] = optionNegotiateAboutWindowSize)
    BY <2>2 DEF NoOffer
  <2>4. j \in 1..k /\ j + 1 \in 1..k /\ j \in 1..(L - 1)
    BY <1>9, <2>1, <2>2
  <2>5. Buffer(n)[j] = x[j] /\ Buffer(n)[j + 1] = x[j + 1]
    BY <2>1, <2>2, <2>4
  <2> QED
    BY <1>12, <2>4, <2>5
<1>15. ~broken' => told' = options'
  BY <1>4, <1>6, <1>14 DEF Unoffered
<1> QED
  BY <1>4, <1>13, <1>15 DEF Unoffered

LEMMA UnofferedSends ==
  ASSUME ConnTypeOK, Unoffered, NeverOffered, ServerSends
  PROVE  Unoffered'
<1>1. PICK m \in Message : wire' = wire \o m
  BY DEF ServerSends
<1>2. inBuffer' = inBuffer /\ told' = told /\ options' = options /\ broken' = broken
  BY DEF ServerSends, parserVars, history
<1>3. /\ inBuffer \in Seq(Byte) /\ wire \in Seq(Byte) /\ m \in Seq(Byte)
      /\ inBuffer \o wire \in Seq(Byte)
  BY StreamType, MessageTrail
<1>4. PICK x \in Seq(Byte) : x = inBuffer \o wire
  BY <1>3
<1>5. inBuffer \o (wire \o m) = x \o m
  BY <1>3, <1>4, ConcatAssociative
<1>6. PICK L \in Nat, K \in Nat : L = Len(x) /\ K = Len(m)
  <2>1. Len(x) \in Nat /\ Len(m) \in Nat
    BY <1>3, LenProperties
  <2> QED
    BY <2>1
<1>7. /\ Len(x \o m) = L + K
      /\ \A j \in 1..(L + K) : (x \o m)[j] = IF j <= L THEN x[j] ELSE m[j - L]
  BY <1>3, <1>6, ConcatProperties
<1>8. /\ \A j \in 1..(L - 1) :
           ~(x[j] \in {WILL, WONT} /\ x[j + 1] = optionNegotiateAboutWindowSize)
      /\ \A j \in 1..(K - 1) :
           ~(m[j] \in {WILL, WONT} /\ m[j + 1] = optionNegotiateAboutWindowSize)
      /\ m[1] # optionNegotiateAboutWindowSize
  BY <1>4, <1>6 DEF Unoffered, NeverOffered, NoOffer
<1>9. NoOffer(x \o m)
  <2>1. SUFFICES ASSUME NEW j \in 1..((L + K) - 1)
                 PROVE  ~(/\ (x \o m)[j] \in {WILL, WONT}
                          /\ (x \o m)[j + 1] = optionNegotiateAboutWindowSize)
    BY <1>7 DEF NoOffer
  <2>2. j \in 1..(L + K) /\ j + 1 \in 1..(L + K) /\ j \in Nat
    BY <1>6
  <2>3. CASE j + 1 <= L
    <3>1. j <= L /\ j \in 1..(L - 1)
      BY <1>6, <2>2, <2>3
    <3>2. (x \o m)[j] = x[j] /\ (x \o m)[j + 1] = x[j + 1]
      BY <1>7, <2>2, <2>3, <3>1
    <3> QED
      BY <1>8, <3>1, <3>2
  <2>4. CASE j = L
    <3>1. ~(j + 1 <= L) /\ (j + 1) - L = 1
      BY <1>6, <2>4
    <3>2. (x \o m)[j + 1] = m[1]
      BY <1>7, <2>2, <3>1
    <3> QED
      BY <1>8, <3>2
  <2>5. CASE j > L
    <3>1. /\ ~(j <= L) /\ ~(j + 1 <= L) /\ (j + 1) - L = (j - L) + 1
          /\ j - L \in 1..(K - 1)
      BY <1>6, <2>2, <2>5
    <3>2. (x \o m)[j] = m[j - L] /\ (x \o m)[j + 1] = m[(j + 1) - L]
      BY <1>7, <2>2, <3>1, Zenon
    <3>3. (x \o m)[j + 1] = m[(j - L) + 1]
      BY <3>1, <3>2, Zenon
    <3> QED
      BY <1>8, <3>1, <3>2, <3>3, Zenon
  <2> QED
    BY <1>6, <2>2, <2>3, <2>4, <2>5
<1> QED
  BY <1>1, <1>2, <1>5, <1>9 DEF Unoffered

LEMMA CountedReads ==
  ASSUME ConnTypeOK, NEW size \in Nat, Counted(size), newTerminalDataAvailable
  PROVE  Counted(size)'
<1>1. PICK n \in 1..Len(wire), left \in {0, optionSend}, ok \in BOOLEAN :
        Received(n, left, ok)
  BY DEF newTerminalDataAvailable
<1>2. left \in Byte
  BY DEF optionSend, Byte
<1>3. PICK r : r = Parsed(Buffer(n), Begin, left)
  OBVIOUS
<1>4. wire' = SubSeq(wire, n + 1, Len(wire)) /\ inBuffer' = Unparsed(Buffer(n), r)
  BY <1>1, <1>3 DEF Received, Begin, Buffer
<1>5. messages' = messages
  BY DEF newTerminalDataAvailable
<1>6. PICK i \in 1..(Len(Buffer(n)) + 1) : i = r.i
  BY <1>2, <1>3, ReadCounts
<1>7. Len(inBuffer') + Len(wire') = (Len(inBuffer) + Len(wire)) - (i - 1)
  <2>1. inBuffer' = SubSeq(Buffer(n), i, Len(Buffer(n)))
    BY <1>4, <1>6 DEF Unparsed
  <2> QED
    BY <1>4, <2>1, StreamAfter, Zenon
<1>8. i \in Nat /\ i >= 1
  <2>1. Len(Buffer(n)) \in Nat
    BY BufferType, LenProperties
  <2> QED
    BY <2>1
<1>9. PICK a \in Nat, b \in Nat : a = Len(inBuffer) + Len(wire) /\ b = messages * size
  <2>1. Len(inBuffer) \in Nat /\ Len(wire) \in Nat
    BY StreamType, LenProperties
  <2>2. messages \in Nat
    BY StreamType
  <2>3. messages * size \in Nat
    BY <2>2
  <2> QED
    BY <2>1, <2>3
<1>10. a <= b
  BY <1>9 DEF Counted
<1>11. a - (i - 1) <= b
  BY <1>8, <1>10
<1>12. Len(inBuffer') + Len(wire') <= messages * size
  BY <1>7, <1>9, <1>11, Zenon
<1> QED
  BY <1>5, <1>12 DEF Counted

LEMMA CountedSends ==
  ASSUME ConnTypeOK, NEW size \in Nat, \A m \in Message : Len(m) <= size,
         Counted(size), ServerSends
  PROVE  Counted(size)'
<1>1. PICK m \in Message : wire' = wire \o m
  BY DEF ServerSends
<1>2. inBuffer' = inBuffer /\ messages' = messages + 1
  BY DEF ServerSends, parserVars
<1>3. /\ inBuffer \in Seq(Byte) /\ wire \in Seq(Byte) /\ m \in Seq(Byte)
      /\ messages \in Nat
  BY StreamType, MessageTrail
<1>4. PICK a \in Nat, b \in Nat, c \in Nat :
        a = Len(inBuffer) /\ b = Len(wire) /\ c = Len(m)
  <2>1. Len(inBuffer) \in Nat /\ Len(wire) \in Nat /\ Len(m) \in Nat
    BY <1>3, LenProperties
  <2> QED
    BY <2>1
<1>5. Len(wire \o m) = b + c
  BY <1>3, <1>4, ConcatProperties
<1>6. c <= size
  BY <1>4
<1>7. PICK p \in Nat : p = messages * size
  BY <1>3
<1>8. (messages + 1) * size = p + size
  BY <1>3, <1>7
<1>9. a + b <= p
  BY <1>4, <1>7 DEF Counted
<1>10. a + (b + c) <= p + size
  BY <1>6, <1>9
<1> QED
  BY <1>1, <1>2, <1>4, <1>5, <1>8, <1>10 DEF Counted

\* The steps that leave the parser and the stream alone.
LEMMA OtherSteps ==
  ASSUME ConnTypeOK, [ConnNext]_connVars, ~newTerminalDataAvailable, ~ServerSends
  PROVE  /\ UNCHANGED <<inBuffer, wire, messages, told, options>>
         /\ broken => broken'
<1> USE DEF flags, serverVars, parserVars, history
<1> DEFINE Goal == /\ UNCHANGED <<inBuffer, wire, messages, told, options>>
                   /\ broken => broken'
<1>1. CASE connectTask
  BY <1>1 DEF connectTask
<1>2. CASE SourceCancelled
  BY <1>2 DEF SourceCancelled
<1>3. CASE ReceiveFailed
  BY <1>3 DEF ReceiveFailed
<1>4. CASE writePassword
  <2>1. CASE login.password
    <3>1. PICK ok \in {FALSE, fd} : Sent(Tail(queue), 1, ok)
      BY <1>4, <2>1 DEF writePassword
    <3>2. broken => broken'
      BY <3>1, SentKeeps
    <3> QED
      BY <1>4, <3>2 DEF writePassword
  <2>2. CASE ~login.password
    BY <1>4, <2>2 DEF writePassword
  <2> QED
    BY <2>1, <2>2
<1>5. CASE writeFrom
  <2>1. PICK ok \in {FALSE, fd} : Sent(Tail(queue), 1, ok)
    BY <1>5 DEF writeFrom
  <2>2. broken => broken'
    BY <2>1, SentKeeps
  <2> QED
    BY <1>5, <2>2 DEF writeFrom
<1>6. CASE writeNothing
  <2>1. broken => broken'
    BY <1>6, SentKeeps DEF writeNothing
  <2> QED
    BY <1>6, <2>1 DEF writeNothing
<1>7. CASE disconnectTask
  BY <1>7 DEF disconnectTask
<1>8. CASE SourceReady
  BY <1>8 DEF SourceReady
<1>9. CASE ServerCloses
  BY <1>9 DEF ServerCloses
<1>10. CASE TypeKey
  BY <1>10 DEF TypeKey
<1>11. CASE endConnection
  BY <1>11 DEF endConnection
<1>12. CASE UNCHANGED connVars
  BY <1>12 DEF connVars
<1> QED
  BY <1>1, <1>2, <1>3, <1>4, <1>5, <1>6, <1>7, <1>8, <1>9, <1>10, <1>11, <1>12
     DEF ConnNext, RunTask

LEMMA UnofferedStep ==
  ASSUME ConnTypeOK, Unoffered, NeverOffered, [ConnNext]_connVars
  PROVE  Unoffered'
<1>1. CASE newTerminalDataAvailable
  BY <1>1, UnofferedReads
<1>2. CASE ServerSends
  BY <1>2, UnofferedSends
<1>3. CASE ~newTerminalDataAvailable /\ ~ServerSends
  BY <1>3, OtherSteps DEF Unoffered
<1> QED
  BY <1>1, <1>2, <1>3

LEMMA CountedStep ==
  ASSUME ConnTypeOK, NEW size \in Nat, \A m \in Message : Len(m) <= size,
         Counted(size), [ConnNext]_connVars
  PROVE  Counted(size)'
<1>1. CASE newTerminalDataAvailable
  BY <1>1, CountedReads
<1>2. CASE ServerSends
  BY <1>2, CountedSends
<1>3. CASE ~newTerminalDataAvailable /\ ~ServerSends
  BY <1>3, OtherSteps DEF Counted
<1> QED
  BY <1>1, <1>2, <1>3

LEMMA CutInit ==
  ConnInit => Unoffered /\ \A size \in Nat : Counted(size)
<1> SUFFICES ASSUME ConnInit
             PROVE  Unoffered /\ \A size \in Nat : Counted(size)
  OBVIOUS
<1>1. inBuffer = <<>> /\ wire = <<>> /\ messages = 0 /\ told = options
  BY DEF ConnInit
<1>2. NoOffer(inBuffer \o wire)
  <2>1. Len(<<>> \o <<>>) = 0
    OBVIOUS
  <2> QED
    BY <1>1, <2>1 DEF NoOffer
<1>3. ASSUME NEW size \in Nat
      PROVE  Counted(size)
  <2>1. 0 * size = 0 /\ Len(<<>>) = 0
    OBVIOUS
  <2> QED
    BY <1>1, <2>1 DEF Counted
<1> QED
  BY <1>1, <1>2, <1>3 DEF Unoffered

LEMMA OptionsAgreeUncut ==
  ASSUME ~SplitSubOptions
  PROVE  ConnSpec => []ServerKnows
<1>1. ConnTypeOK /\ Flow => ServerKnows
  BY DEF Flow, ServerKnows
<1> QED
  BY <1>1, FlowHolds, PTL

LEMMA OptionsAgreeCut ==
  ASSUME NeverOffered
  PROVE  ConnSpec => []ServerKnows
<1>1. ConnInit => ConnTypeOK /\ Unoffered
  BY InitType, CutInit
<1>2. ConnTypeOK /\ Unoffered /\ [ConnNext]_connVars => ConnTypeOK' /\ Unoffered'
  BY TypeStep, UnofferedStep
<1>3. Unoffered => ServerKnows
  BY DEF Unoffered, ServerKnows
<1> QED
  BY <1>1, <1>2, <1>3, PTL DEF ConnSpec

\* Client and server agree on every option until a send fails, wherever the data
\* is cut (parseRequest, 320-460): where a sub option may be cut too, provided
\* that nothing the server says holds what reads as an offer of the window size.
THEOREM OptionsAgree ==
  ASSUME ~SplitSubOptions \/ NeverOffered
  PROVE  ConnSpec => []ServerKnows
BY OptionsAgreeUncut, OptionsAgreeCut

(***************************************************************************)
(* The password is asked for once, so CONNECTED is notified once.          *)
(***************************************************************************)

Waits(q) == \E i \in 1..Len(q) : q[i] = "writePassword"
Once(q) == \A i, j \in 1..Len(q) :
             q[i] = "writePassword" /\ q[j] = "writePassword" => i = j
Connected == \E i \in 1..Len(events) : events[i] = "CONNECTED"

LEMMA TailWaits ==
  ASSUME NEW q \in Seq(Task), q # <<>>, Once(q)
  PROVE  /\ Once(Tail(q)) /\ (Waits(Tail(q)) => Waits(q))
         /\ Head(q) = "writePassword" => Waits(q) /\ ~Waits(Tail(q))
<1>1. PICK n \in Nat : n = Len(q)
  OBVIOUS
<1>2. /\ n >= 1 /\ Len(Tail(q)) = n - 1
      /\ \A i \in 1..(n - 1) : Tail(q)[i] = q[i + 1]
  BY <1>1, HeadTailProperties
<1>3. Head(q) = q[1]
  OBVIOUS
<1>4. ASSUME NEW i \in 1..(n - 1)
      PROVE  i + 1 \in 1..n /\ i + 1 # 1
  OBVIOUS
<1>5. Once(Tail(q))
  <2>1. SUFFICES ASSUME NEW i \in 1..(n - 1), NEW j \in 1..(n - 1),
                        Tail(q)[i] = "writePassword", Tail(q)[j] = "writePassword"
                 PROVE  i = j
    BY <1>2 DEF Once
  <2>2. i + 1 \in 1..n /\ j + 1 \in 1..n /\ q[i + 1] = "writePassword"
        /\ q[j + 1] = "writePassword"
    BY <1>2, <1>4, <2>1
  <2>3. i + 1 = j + 1
    BY <1>1, <2>2 DEF Once
  <2> QED
    BY <2>3
<1>6. ASSUME Waits(Tail(q))
      PROVE  \E i \in 1..n : i # 1 /\ q[i] = "writePassword"
  <2>1. PICK i \in 1..(n - 1) : Tail(q)[i] = "writePassword"
    BY <1>2, <1>6 DEF Waits
  <2>2. q[i + 1] = "writePassword"
    BY <1>2, <2>1
  <2> QED
    BY <1>4, <2>2
<1>7. Waits(Tail(q)) => Waits(q)
  BY <1>1, <1>6 DEF Waits
<1>8. ASSUME Head(q) = "writePassword"
      PROVE  Waits(q) /\ ~Waits(Tail(q))
  <2>1. 1 \in 1..n /\ q[1] = "writePassword"
    BY <1>2, <1>3, <1>8
  <2>2. Waits(q)
    BY <1>1, <2>1 DEF Waits
  <2>3. ASSUME Waits(Tail(q))
        PROVE  FALSE
    <3>1. PICK i \in 1..n : i # 1 /\ q[i] = "writePassword"
      BY <1>6, <2>3
    <3> QED
      BY <1>1, <2>1, <3>1 DEF Once
  <2> QED
    BY <2>2, <2>3
<1> QED
  BY <1>5, <1>7, <1>8

LEMMA JoinWaits ==
  ASSUME NEW q \in Seq(Task), NEW r \in Seq(Task), Once(q), ~Waits(r)
  PROVE  Once(q \o r) /\ (Waits(q \o r) => Waits(q))
<1>1. PICK n \in Nat, m \in Nat : n = Len(q) /\ m = Len(r)
  OBVIOUS
<1>2. /\ Len(q \o r) = n + m
      /\ \A i \in 1..(n + m) : (q \o r)[i] = IF i <= n THEN q[i] ELSE r[i - n]
  BY <1>1, ConcatProperties
<1>3. ASSUME NEW i \in 1..(n + m), (q \o r)[i] = "writePassword"
      PROVE  i \in 1..n /\ q[i] = "writePassword"
  <2>1. CASE i <= n
    BY <1>2, <1>3, <2>1
  <2>2. CASE ~(i <= n)
    <3>1. PICK j \in 1..m : j = i - n
      BY <2>2
    <3>2. r[j] = "writePassword"
      BY <1>2, <1>3, <2>2, <3>1
    <3> QED
      BY <1>1, <3>2 DEF Waits
  <2> QED
    BY <2>1, <2>2
<1>4. Once(q \o r)
  BY <1>1, <1>2, <1>3 DEF Once
<1>5. Waits(q \o r) => Waits(q)
  BY <1>1, <1>2, <1>3 DEF Waits
<1> QED
  BY <1>4, <1>5

LEMMA JoinPassword ==
  ASSUME NEW q \in Seq(Task), ~Waits(q)
  PROVE  Once(q \o <<"writePassword">>)
<1>1. PICK n \in Nat : n = Len(q)
  OBVIOUS
<1>2. <<"writePassword">> \in Seq(Task) /\ Len(<<"writePassword">>) = 1
  BY DEF Task
<1>3. /\ Len(q \o <<"writePassword">>) = n + 1
      /\ \A i \in 1..(n + 1) :
           (q \o <<"writePassword">>)[i] = IF i <= n THEN q[i] ELSE <<"writePassword">>[i - n]
  BY <1>1, <1>2, ConcatProperties
<1>4. ASSUME NEW i \in 1..(n + 1), (q \o <<"writePassword">>)[i] = "writePassword"
      PROVE  i = n + 1
  <2>1. CASE i <= n
    BY <1>1, <1>3, <1>4, <2>1 DEF Waits
  <2>2. CASE ~(i <= n)
    BY <2>2
  <2> QED
    BY <2>1, <2>2
<1> QED
  BY <1>3, <1>4 DEF Once

LEMMA NoneWait ==
  /\ ~Waits(<<>>) /\ Once(<<>>)
  /\ \A task \in Task : task # "writePassword" => ~Waits(<<task>>)
  /\ \A n \in Nat : ~Waits(Disconnects(n))
<1>1. ~Waits(<<>>) /\ Once(<<>>)
  BY DEF Waits, Once
<1>2. ASSUME NEW task \in Task, task # "writePassword"
      PROVE  ~Waits(<<task>>)
  BY <1>2 DEF Waits
<1>3. ASSUME NEW n \in Nat
      PROVE  ~Waits(Disconnects(n))
  <2>1. Len(Disconnects(n)) = n
    BY DisconnectsType
  <2>2. \A i \in 1..n : Disconnects(n)[i] = "disconnect"
    BY DEF Disconnects
  <2> QED
    BY <2>1, <2>2 DEF Waits
<1> QED
  BY <1>1, <1>2, <1>3

\* The user name is sent before the password is queued, and the password is
\* queued before CONNECTED is notified.
PasswordOnce ==
  /\ needsSendingPassword = FALSE
  /\ Once(queue)
  /\ Waits(queue) => userNameSent /\ ~(login.password /\ Connected)
  /\ Connected => IF login.password THEN userNameSent ELSE isConnectedSent

LEMMA PasswordInit == ConnInit => PasswordOnce
<1> SUFFICES ASSUME ConnInit PROVE PasswordOnce
  OBVIOUS
<1>1. needsSendingPassword = FALSE /\ queue = <<"connect">> /\ events = <<>>
  BY DEF ConnInit
<1>2. "connect" \in Task
  BY DEF Task
<1>3. ~Waits(queue)
  BY <1>1, <1>2, NoneWait
<1>4. Once(queue)
  BY <1>3 DEF Once, Waits
<1>5. ~Connected
  BY <1>1 DEF Connected
<1> QED
  BY <1>1, <1>3, <1>4, <1>5 DEF PasswordOnce

\* Steps that queue no password and notify no CONNECTED.
LEMMA PasswordOther ==
  ASSUME PasswordOnce, UNCHANGED <<login, userNameSent, needsSendingPassword, isConnectedSent>>,
         Once(queue'), Waits(queue') => Waits(queue), Connected' => Connected
  PROVE  PasswordOnce'
BY DEF PasswordOnce

\* No password is added to the queue.
Calm(q) == Once(q) /\ (Waits(q) => Waits(queue))

LEMMA CalmTails ==
  ASSUME ConnTypeOK, Once(queue), queue # <<>>
  PROVE  /\ Calm(Tail(queue)) /\ Calm(Append(Tail(queue), "disconnect"))
         /\ \A n \in Nat : Calm(Tail(queue) \o Disconnects(n))
<1>1. queue \in Seq(Task) /\ Tail(queue) \in Seq(Task)
  BY DEF ConnTypeOK
<1>2. Calm(Tail(queue))
  BY <1>1, TailWaits DEF Calm
<1>3. <<"disconnect">> \in Seq(Task) /\ ~Waits(<<"disconnect">>) /\ "disconnect" \in Task
  BY NoneWait DEF Task
<1>4. Append(Tail(queue), "disconnect") = Tail(queue) \o <<"disconnect">>
  <2>1. PICK q \in Seq(Task) : q = Tail(queue)
    BY <1>1
  <2>2. Append(q, "disconnect") = q \o <<"disconnect">>
    BY <1>3, AppendIsConcat
  <2> QED
    BY <2>1, <2>2
<1>5. Calm(Append(Tail(queue), "disconnect"))
  <2>1. Once(Tail(queue) \o <<"disconnect">>)
        /\ (Waits(Tail(queue) \o <<"disconnect">>) => Waits(Tail(queue)))
    BY <1>1, <1>2, <1>3, JoinWaits DEF Calm
  <2> QED
    BY <1>2, <1>4, <2>1, Zenon DEF Calm
<1>6. ASSUME NEW n \in Nat
      PROVE  Calm(Tail(queue) \o Disconnects(n))
  <2>1. Disconnects(n) \in Seq(Task) /\ ~Waits(Disconnects(n))
    BY DisconnectsType, NoneWait
  <2> QED
    BY <1>1, <1>2, <2>1, JoinWaits DEF Calm
<1> QED
  BY <1>2, <1>5, <1>6

LEMMA CalmCalls ==
  ASSUME ConnTypeOK, Once(queue), NEW task \in Task, task # "writePassword"
  PROVE  Calm(Append(queue, task))
<1>1. queue \in Seq(Task) /\ <<task>> \in Seq(Task) /\ ~Waits(<<task>>)
  BY NoneWait DEF ConnTypeOK
<1>2. Append(queue, task) = queue \o <<task>>
  <2>1. PICK q \in Seq(Task) : q = queue
    BY <1>1
  <2>2. Append(q, task) = q \o <<task>>
    BY AppendIsConcat
  <2> QED
    BY <2>1, <2>2
<1>3. Once(queue \o <<task>>) /\ (Waits(queue \o <<task>>) => Waits(queue))
  BY <1>1, JoinWaits
<1> QED
  BY <1>2, <1>3, Zenon DEF Calm

LEMMA ConnectedAppend ==
  ASSUME ConnTypeOK, NEW code \in {"CONNECTED", "DISCONNECTED"},
         events' = Append(events, code)
  PROVE  Connected' => Connected \/ code = "CONNECTED"
<1>1. events \in Seq({"CONNECTED", "DISCONNECTED"})
  BY DEF ConnTypeOK
<1>2. PICK n \in Nat : n = Len(events)
  BY <1>1
<1>3. /\ Len(events') = n + 1
      /\ \A i \in 1..n : events'[i] = events[i]
      /\ events'[n + 1] = code
  BY <1>1, <1>2, AppendProperties
<1>4. ASSUME Connected'
      PROVE  Connected \/ code = "CONNECTED"
  <2>1. PICK i \in 1..(n + 1) : events'[i] = "CONNECTED"
    BY <1>3, <1>4 DEF Connected
  <2>2. i \in 1..n \/ i = n + 1
    OBVIOUS
  <2> QED
    BY <1>2, <1>3, <2>1, <2>2 DEF Connected
<1> QED
  BY <1>4

LEMMA SentCalm ==
  ASSUME ConnTypeOK, Once(queue), queue # <<>>, NEW ok, Sent(Tail(queue), 1, ok)
  PROVE  Calm(queue')
BY CalmTails DEF Sent

\* What a read parses, as far as the password and the answers go.
LEMMA ReadNames ==
  ASSUME ConnTypeOK, NEW n \in 1..Len(wire), NEW left \in Byte
  PROVE  LET r == Parsed(Buffer(n), Begin, left)
         IN  /\ r.sends \in Nat /\ (userNameSent => r.named)
             /\ r.password => needsSendingPassword \/ (~userNameSent /\ r.named)
<1>1. Buffer(n) \in Seq(Byte) /\ Begin \in ParserState /\ Begin.i = 1
      /\ login.user \in BOOLEAN
  BY BufferType, BeginType, LoginType
<1>2. PICK r : r = Parsed(Buffer(n), Begin, left)
  OBVIOUS
<1>3. r \in ParserState /\ NameKept(r, Begin)
  BY <1>1, <1>2, ParsedType
<1>4. Begin.named = userNameSent /\ Begin.password = needsSendingPassword
  BY BeginType
<1> QED
  BY <1>2, <1>3, <1>4 DEF NameKept, ParserState

LEMMA PasswordReads ==
  ASSUME ConnTypeOK, PasswordOnce, newTerminalDataAvailable
  PROVE  PasswordOnce'
<1>1. PICK n \in 1..Len(wire), left \in {0, optionSend}, ok \in BOOLEAN :
        Readable(n) /\ Received(n, left, ok)
  BY DEF newTerminalDataAvailable
<1>2. left \in Byte
  BY DEF optionSend, Byte
<1>3. PICK r : r = Parsed(Buffer(n), Begin, left)
  OBVIOUS
<1> DEFINE rest == IF ok THEN Tail(queue) ELSE Tail(queue) \o Disconnects(r.sends)
           anonymous == ~isConnectedSent /\ ~login.user /\ ~login.password
<1>4. /\ userNameSent' = r.named /\ needsSendingPassword' = FALSE
      /\ isConnectedSent' = (isConnectedSent \/ anonymous)
      /\ events' = (IF anonymous THEN Append(events, "CONNECTED") ELSE events)
      /\ queue' = rest \o (IF r.password THEN <<"writePassword">> ELSE <<>>)
  BY <1>1, <1>3 DEF Received, Begin, Buffer
<1>5. login' = login /\ queue # <<>>
  BY DEF newTerminalDataAvailable, Starts
<1>6. /\ r.sends \in Nat /\ (userNameSent => r.named)
      /\ r.password => ~userNameSent /\ r.named
  BY <1>2, <1>3, ReadNames DEF PasswordOnce
<1>7. Calm(rest)
  BY <1>5, <1>6, CalmTails DEF PasswordOnce
<1>8. rest \in Seq(Task)
  <2>1. Tail(queue) \in Seq(Task)
    BY <1>5 DEF ConnTypeOK
  <2>2. Disconnects(r.sends) \in Seq(Task)
    BY <1>6, DisconnectsType
  <2> QED
    BY <2>1, <2>2, ConcatProperties
<1> HIDE DEF rest
<1>9. Once(queue') /\ (Waits(queue') => r.named /\ (r.password \/ Waits(queue)))
  <2>1. CASE r.password
    <3>1. ~Waits(queue)
      BY <1>6, <2>1 DEF PasswordOnce
    <3>2. ~Waits(rest)
      BY <1>7, <3>1 DEF Calm
    <3> QED
      BY <1>4, <1>6, <1>8, <2>1, <3>2, JoinPassword
  <2>2. CASE ~r.password
    <3>1. queue' = rest
      <4>1. rest \o <<>> = rest
        BY <1>8
      <4> QED
        BY <1>4, <2>2, <4>1
    <3>2. Waits(queue) => r.named
      BY <1>6 DEF PasswordOnce
    <3> QED
      BY <1>7, <3>1, <3>2 DEF Calm
  <2> QED
    BY <2>1, <2>2
<1>10. Connected' => Connected \/ anonymous
  <2>1. CASE anonymous
    BY <2>1
  <2>2. CASE ~anonymous
    BY <1>4, <2>2 DEF Connected
  <2> QED
    BY <2>1, <2>2
<1>11. Waits(queue') => userNameSent' /\ ~(login'.password /\ Connected')
  <2>1. SUFFICES ASSUME Waits(queue'), login.password, Connected'
                 PROVE  FALSE
    BY <1>4, <1>5, <1>9
  <2>2. Connected
    BY <1>10, <2>1
  <2>3. userNameSent /\ ~Waits(queue)
    BY <2>1, <2>2 DEF PasswordOnce
  <2> QED
    BY <1>6, <1>9, <2>1, <2>3
<1>12. Connected' => IF login'.password THEN userNameSent' ELSE isConnectedSent'
  <2>1. SUFFICES ASSUME Connected'
                 PROVE  IF login.password THEN r.named
                        ELSE isConnectedSent \/ anonymous
    BY <1>4, <1>5
  <2>2. CASE anonymous
    BY <2>2
  <2>3. CASE ~anonymous
    BY <1>6, <1>10, <2>1, <2>3 DEF PasswordOnce
  <2> QED
    BY <2>2, <2>3
<1> QED
  BY <1>4, <1>9, <1>11, <1>12 DEF PasswordOnce

LEMMA PasswordWrites ==
  ASSUME ConnTypeOK, PasswordOnce, writePassword
  PROVE  PasswordOnce'
<1>1. /\ queue # <<>> /\ Head(queue) = "writePassword"
      /\ UNCHANGED <<login, userNameSent, needsSendingPassword, isConnectedSent>>
  BY DEF writePassword, Starts, flags
<1>2. queue \in Seq(Task) /\ Once(queue)
  BY DEF ConnTypeOK, PasswordOnce
<1>3. Waits(queue) /\ ~Waits(Tail(queue))
  BY <1>1, <1>2, TailWaits
<1>4. Calm(Tail(queue)) /\ Calm(Tail(queue) \o Disconnects(1))
  BY <1>1, <1>2, CalmTails
<1>5. CASE login.password
  <2>1. PICK ok \in {FALSE, fd} : Sent(Tail(queue), 1, ok)
    BY <1>5 DEF writePassword
  <2>2. queue' = Tail(queue) \/ queue' = Tail(queue) \o Disconnects(1)
    BY <2>1 DEF Sent
  <2>3. ~Waits(Tail(queue) \o Disconnects(1))
    <3>1. Tail(queue) \in Seq(Task) /\ Disconnects(1) \in Seq(Task) /\ ~Waits(Disconnects(1))
      BY <1>1, <1>2, DisconnectsType, NoneWait
    <3> QED
      BY <1>3, <1>4, <3>1, JoinWaits DEF Calm
  <2>4. Once(queue') /\ ~Waits(queue')
    BY <1>3, <1>4, <2>2, <2>3 DEF Calm
  <2> QED
    BY <1>1, <1>3, <1>5, <2>4 DEF PasswordOnce
<1>6. CASE ~login.password
  <2>1. queue' = Tail(queue) /\ events' = events
    BY <1>6 DEF writePassword
  <2>2. Connected' => Connected
    BY <2>1 DEF Connected
  <2> QED
    BY <1>1, <1>4, <2>1, <2>2, PasswordOther DEF Calm
<1> QED
  BY <1>5, <1>6

LEMMA PasswordStep ==
  ASSUME ConnTypeOK, PasswordOnce, [ConnNext]_connVars
  PROVE  PasswordOnce'
<1> USE DEF flags, serverVars, parserVars, history
<1>1. Once(queue)
  BY DEF PasswordOnce
<1>2. ASSUME UNCHANGED <<login, userNameSent, needsSendingPassword, isConnectedSent>>,
             Calm(queue'), events' = events
      PROVE  PasswordOnce'
  <2>1. Connected' => Connected
    BY <1>2 DEF Connected
  <2> QED
    BY <1>2, <2>1, PasswordOther DEF Calm
<1>3. ASSUME queue' = queue
      PROVE  Calm(queue')
  BY <1>1, <1>3 DEF Calm
<1>4. CASE connectTask
  <2>1. Calm(queue')
    BY <1>1, <1>4, CalmTails DEF connectTask, Starts
  <2> QED
    BY <1>2, <1>4, <2>1 DEF connectTask
<1>5. CASE SourceCancelled
  <2>1. Calm(queue')
    BY <1>1, <1>5, CalmTails DEF SourceCancelled, Starts
  <2> QED
    BY <1>2, <1>5, <2>1 DEF SourceCancelled
<1>6. CASE ReceiveFailed
  <2>1. Calm(queue')
    BY <1>1, <1>6, CalmTails DEF ReceiveFailed, Starts
  <2> QED
    BY <1>2, <1>6, <2>1 DEF ReceiveFailed
<1>7. CASE newTerminalDataAvailable
  BY <1>7, PasswordReads
<1>8. CASE writePassword
  BY <1>8, PasswordWrites
<1>9. CASE writeFrom
  <2>1. queue # <<>> /\ \E ok \in {FALSE, fd} : Sent(Tail(queue), 1, ok)
    BY <1>9 DEF writeFrom, Starts
  <2>2. Calm(queue')
    BY <1>1, <2>1, SentCalm
  <2> QED
    BY <1>2, <1>9, <2>2 DEF writeFrom
<1>10. CASE writeNothing
  <2>1. queue # <<>> /\ Sent(Tail(queue), 1, FALSE)
    BY <1>10 DEF writeNothing, Starts
  <2>2. Calm(queue')
    BY <1>1, <2>1, SentCalm
  <2> QED
    BY <1>2, <1>10, <2>2 DEF writeNothing
<1>11. CASE disconnectTask
  <2>1. Calm(queue')
    BY <1>1, <1>11, CalmTails DEF disconnectTask, Starts
  <2>2. Connected' => Connected
    <3>1. events' = Append(events, "DISCONNECTED")
      BY <1>11 DEF disconnectTask
    <3> QED
      BY <3>1, ConnectedAppend
  <2> QED
    BY <1>11, <2>1, <2>2, PasswordOther DEF disconnectTask, Calm
<1>12. CASE SourceReady
  <2>1. Calm(queue')
    BY <1>1, <1>12, CalmCalls DEF SourceReady, Task
  <2> QED
    BY <1>2, <1>12, <2>1 DEF SourceReady
<1>13. CASE ServerSends
  BY <1>2, <1>3, <1>13 DEF ServerSends
<1>14. CASE ServerCloses
  BY <1>2, <1>3, <1>14 DEF ServerCloses
<1>15. CASE TypeKey
  <2>1. Calm(queue')
    BY <1>1, <1>15, CalmCalls DEF TypeKey, Task
  <2> QED
    BY <1>2, <1>15, <2>1 DEF TypeKey
<1>16. CASE endConnection
  <2>1. Calm(queue')
    BY <1>1, <1>16, CalmCalls DEF endConnection, Task
  <2> QED
    BY <1>2, <1>16, <2>1 DEF endConnection
<1>17. CASE UNCHANGED connVars
  BY <1>2, <1>3, <1>17 DEF connVars
<1> QED
  BY <1>4, <1>5, <1>6, <1>7, <1>8, <1>9, <1>10, <1>11, <1>12, <1>13, <1>14, <1>15, <1>16,
     <1>17 DEF ConnNext, RunTask

(***************************************************************************)
(* The connection without its bytes.                                       *)
(***************************************************************************)

NameOf(task) == IF task = "writeNothing" THEN "write" ELSE task
Names(q) == [i \in DOMAIN q |-> NameOf(q[i])]
Line(q, f, s, e) == [queue |-> q, fd |-> f, source |-> s, events |-> e]

LEMMA LineIs == LineNow = Line(Names(queue), fd, readSource, events)
BY DEF LineNow, Line, Names, NameOf

LEMMA NamesType ==
  ASSUME NEW q \in Seq(Task)
  PROVE  /\ Names(q) \in Seq(LineTask) /\ Len(Names(q)) = Len(q)
         /\ \A i \in 1..Len(q) : Names(q)[i] = NameOf(q[i])
<1>1. \A i \in 1..Len(q) : q[i] \in Task
  OBVIOUS
<1>2. \A task \in Task : NameOf(task) \in LineTask
  BY DEF Task, LineTask, NameOf
<1>3. DOMAIN q = 1..Len(q) /\ Len(q) \in Nat
  OBVIOUS
<1>4. Names(q) = [i \in 1..Len(q) |-> NameOf(q[i])]
  BY <1>3, Zenon DEF Names
<1> QED
  BY <1>1, <1>2, <1>3, <1>4

LEMMA NamesTail ==
  ASSUME NEW q \in Seq(Task), q # <<>>
  PROVE  /\ Names(q) # <<>> /\ Names(Tail(q)) = Tail(Names(q))
         /\ Head(Names(q)) = NameOf(Head(q))
<1>1. PICK n \in Nat : n = Len(q)
  OBVIOUS
<1>2. /\ n >= 1 /\ Tail(q) \in Seq(Task) /\ Len(Tail(q)) = n - 1
      /\ \A i \in 1..(n - 1) : Tail(q)[i] = q[i + 1]
  BY <1>1, HeadTailProperties
<1>3. /\ Names(q) \in Seq(LineTask) /\ Len(Names(q)) = n
      /\ \A i \in 1..n : Names(q)[i] = NameOf(q[i])
  BY <1>1, NamesType
<1>4. Names(q) # <<>>
  BY <1>2, <1>3
<1>5. /\ Tail(Names(q)) \in Seq(LineTask) /\ Len(Tail(Names(q))) = n - 1
      /\ \A i \in 1..(n - 1) : Tail(Names(q))[i] = Names(q)[i + 1]
  BY <1>3, <1>4, HeadTailProperties
<1>6. /\ Names(Tail(q)) \in Seq(LineTask) /\ Len(Names(Tail(q))) = n - 1
      /\ \A i \in 1..(n - 1) : Names(Tail(q))[i] = NameOf(Tail(q)[i])
  BY <1>2, NamesType
<1>7. ASSUME NEW i \in 1..(n - 1)
      PROVE  Names(Tail(q))[i] = Tail(Names(q))[i]
  <2>1. i + 1 \in 1..n
    OBVIOUS
  <2> QED
    BY <1>2, <1>3, <1>5, <1>6, <2>1
<1>8. Names(Tail(q)) = Tail(Names(q))
  BY <1>5, <1>6, <1>7, SeqEqual
<1>9. Head(Names(q)) = NameOf(Head(q))
  BY <1>1, <1>2, <1>3, <1>4
<1> QED
  BY <1>4, <1>8, <1>9

LEMMA NamesJoin ==
  ASSUME NEW q \in Seq(Task), NEW r \in Seq(Task)
  PROVE  Names(q \o r) = Names(q) \o Names(r)
<1>1. PICK n \in Nat, m \in Nat : n = Len(q) /\ m = Len(r)
  OBVIOUS
<1>2. /\ q \o r \in Seq(Task) /\ Len(q \o r) = n + m
      /\ \A i \in 1..(n + m) : (q \o r)[i] = IF i <= n THEN q[i] ELSE r[i - n]
  BY <1>1, ConcatProperties
<1>3. /\ Names(q) \in Seq(LineTask) /\ Len(Names(q)) = n
      /\ \A i \in 1..n : Names(q)[i] = NameOf(q[i])
  BY <1>1, NamesType
<1>4. /\ Names(r) \in Seq(LineTask) /\ Len(Names(r)) = m
      /\ \A i \in 1..m : Names(r)[i] = NameOf(r[i])
  BY <1>1, NamesType
<1>5. /\ Names(q \o r) \in Seq(LineTask) /\ Len(Names(q \o r)) = n + m
      /\ \A i \in 1..(n + m) : Names(q \o r)[i] = NameOf((q \o r)[i])
  BY <1>2, NamesType
<1>6. /\ Names(q) \o Names(r) \in Seq(LineTask) /\ Len(Names(q) \o Names(r)) = n + m
      /\ \A i \in 1..(n + m) : (Names(q) \o Names(r))[i] =
           IF i <= n THEN Names(q)[i] ELSE Names(r)[i - n]
  BY <1>3, <1>4, ConcatProperties
<1>7. ASSUME NEW i \in 1..(n + m)
      PROVE  Names(q \o r)[i] = (Names(q) \o Names(r))[i]
  <2>1. CASE i <= n
    <3>1. i \in 1..n
      BY <2>1
    <3>2. (q \o r)[i] = q[i] /\ (Names(q) \o Names(r))[i] = Names(q)[i]
      BY <1>2, <1>6, <2>1
    <3>3. Names(q)[i] = NameOf(q[i])
      BY <1>3, <3>1
    <3>4. Names(q \o r)[i] = NameOf((q \o r)[i])
      BY <1>5
    <3> QED
      BY <3>2, <3>3, <3>4, Zenon
  <2>2. CASE ~(i <= n)
    <3>1. i - n \in 1..m
      BY <2>2
    <3>2. (q \o r)[i] = r[i - n] /\ (Names(q) \o Names(r))[i] = Names(r)[i - n]
      BY <1>2, <1>6, <2>2
    <3>3. Names(r)[i - n] = NameOf(r[i - n])
      BY <1>4, <3>1
    <3>4. Names(q \o r)[i] = NameOf((q \o r)[i])
      BY <1>5
    <3> QED
      BY <3>2, <3>3, <3>4, Zenon
  <2> QED
    BY <2>1, <2>2
<1> QED
  BY <1>5, <1>6, <1>7, SeqEqual

LEMMA NamesOf ==
  /\ Names(<<>>) = <<>>
  /\ \A n \in Nat : Names(Disconnects(n)) = Disconnects(n)
  /\ \A task \in Task : Names(<<task>>) = <<NameOf(task)>>
<1>1. Names(<<>>) = <<>>
  BY DEF Names
<1>2. ASSUME NEW n \in Nat
      PROVE  Names(Disconnects(n)) = Disconnects(n)
  <2>1. DOMAIN Disconnects(n) = 1..n /\ \A i \in 1..n : Disconnects(n)[i] = "disconnect"
    BY DEF Disconnects
  <2>2. NameOf("disconnect") = "disconnect"
    BY DEF NameOf
  <2>3. Names(Disconnects(n)) = [i \in 1..n |-> NameOf(Disconnects(n)[i])]
    BY <2>1, Zenon DEF Names
  <2> QED
    BY <2>1, <2>2, <2>3 DEF Disconnects
<1>3. ASSUME NEW task \in Task
      PROVE  Names(<<task>>) = <<NameOf(task)>>
  <2>1. <<task>> \in Seq(Task) /\ Len(<<task>>) = 1 /\ <<task>>[1] = task
    OBVIOUS
  <2>2. PICK q \in Seq(Task) : q = <<task>>
    BY <2>1
  <2>3. Len(q) = 1 /\ q[1] = task
    BY <2>1, <2>2
  <2>4. Names(q) \in Seq(LineTask) /\ Len(Names(q)) = 1 /\ Names(q)[1] = NameOf(task)
    BY <2>3, NamesType
  <2>5. Names(q) = <<NameOf(task)>>
    BY <2>4
  <2> QED
    BY <2>2, <2>5
<1> QED
  BY <1>1, <1>2, <1>3

LEMMA RanIs ==
  ASSUME NEW q, NEW f, NEW s, NEW e, NEW tasks, NEW codes
  PROVE  Ran(Line(q, f, s, e), tasks, codes) = Line(Tail(q) \o tasks, f, s, e \o codes)
<1> DEFINE l == Line(q, f, s, e)
<1>1. l.queue = q /\ l.events = e
  BY DEF Line
<1>2. PICK p, c : p = Tail(q) \o tasks /\ c = e \o codes
  OBVIOUS
<1>3. [l EXCEPT !.queue = p] = Line(p, f, s, e)
  BY DEF Line
<1>4. [Line(p, f, s, e) EXCEPT !.events = c] = Line(p, f, s, c)
  BY DEF Line
<1>5. Line(p, f, s, e).events = e
  BY DEF Line
<1>6. Ran(l, tasks, codes) = [[l EXCEPT !.queue = Tail(l.queue) \o tasks] EXCEPT
                                !.events = l.events \o codes]
  BY DEF Ran, Line
<1> HIDE DEF l
<1> QED
  BY <1>1, <1>2, <1>3, <1>4, <1>6 DEF l

\* The running task ends.
Leaves(tasks, codes) ==
  /\ queue # <<>>
  /\ queue' = Tail(queue) \o tasks
  /\ events' = events \o codes

\* What a task leaves behind it.
LEMMA TaskLine ==
  ASSUME ConnTypeOK, NEW tasks \in Seq(Task), NEW codes, Leaves(tasks, codes)
  PROVE  /\ LineNow.queue # <<>> /\ Head(LineNow.queue) = NameOf(Head(queue))
         /\ LineNow' = [Ran(LineNow, Names(tasks), codes) EXCEPT !.fd = fd', !.source = readSource']
         /\ readSource' = readSource =>
              LineNow' = [Ran(LineNow, Names(tasks), codes) EXCEPT !.fd = fd']
         /\ fd' = fd /\ readSource' = readSource => LineNow' = Ran(LineNow, Names(tasks), codes)
         /\ LineNow.fd = fd /\ LineNow.source = readSource
<1>1. /\ queue \in Seq(Task) /\ Tail(queue) \in Seq(Task) /\ queue # <<>>
      /\ queue' = Tail(queue) \o tasks /\ events' = events \o codes
  BY DEF ConnTypeOK, Leaves
<1>2. LineNow = Line(Names(queue), fd, readSource, events)
  BY LineIs
<1>3. LineNow' = Line(Names(queue'), fd', readSource', events')
  BY DEF LineNow, Line, Names, NameOf
<1>4. Names(queue') = Tail(Names(queue)) \o Names(tasks)
  <2>1. Names(Tail(queue) \o tasks) = Names(Tail(queue)) \o Names(tasks)
    BY <1>1, NamesJoin
  <2> QED
    BY <1>1, <2>1, NamesTail
<1> DEFINE r == Ran(LineNow, Names(tasks), codes)
<1>5. PICK q, e : q = Tail(Names(queue)) \o Names(tasks) /\ e = events \o codes
  OBVIOUS
<1>6. r = Line(q, fd, readSource, e)
  <2>1. Ran(Line(Names(queue), fd, readSource, events), Names(tasks), codes) =
          Line(Tail(Names(queue)) \o Names(tasks), fd, readSource, events \o codes)
    BY RanIs
  <2> QED
    BY <1>2, <1>5, <2>1
<1>7. LineNow' = Line(q, fd', readSource', e)
  BY <1>1, <1>3, <1>4, <1>5
<1>8. PICK g, t : g = fd' /\ t = readSource'
  OBVIOUS
<1>9. /\ [Line(q, fd, readSource, e) EXCEPT !.fd = g] = Line(q, g, readSource, e)
      /\ [Line(q, fd, readSource, e) EXCEPT !.fd = g, !.source = t] = Line(q, g, t, e)
  <2>1. [Line(q, fd, readSource, e) EXCEPT !.fd = g] = Line(q, g, readSource, e)
    BY DEF Line
  <2>2. [Line(q, g, readSource, e) EXCEPT !.source = t] = Line(q, g, t, e)
    BY DEF Line
  <2> QED
    BY <2>1, <2>2
<1>10. /\ LineNow' = [r EXCEPT !.fd = fd', !.source = readSource']
       /\ readSource' = readSource => LineNow' = [r EXCEPT !.fd = fd']
       /\ fd' = fd /\ readSource' = readSource => LineNow' = r
  <2> HIDE DEF r
  <2> QED
    BY <1>6, <1>7, <1>8, <1>9
<1>11. LineNow.queue = Names(queue) /\ LineNow.fd = fd /\ LineNow.source = readSource
  BY <1>2 DEF Line
<1> QED
  BY <1>1, <1>10, <1>11, NamesTail

LEMMA HasConnected ==
  ASSUME ConnTypeOK
  PROVE  Has(LineNow, "CONNECTED") <=> Connected
<1>1. DOMAIN events = 1..Len(events) /\ LineNow.events = events
  BY DEF ConnTypeOK, LineNow
<1> QED
  BY <1>1, Zenon DEF Has, Connected

LEMMA QueueIs ==
  ASSUME ConnTypeOK, queue # <<>>
  PROVE  /\ queue \in Seq(Task) /\ Tail(queue) \in Seq(Task)
         /\ Tail(queue) = Tail(queue) \o <<>>
         /\ \A task \in Task : Append(Tail(queue), task) = Tail(queue) \o <<task>>
         /\ events = events \o <<>>
         /\ \A code \in Code : Append(events, code) = events \o <<code>>
<1>1. queue \in Seq(Task) /\ Tail(queue) \in Seq(Task)
  BY DEF ConnTypeOK
<1>2. events \in Seq(Code)
  BY DEF ConnTypeOK, Code
<1>3. ASSUME NEW S, NEW q \in Seq(S)
      PROVE  q = q \o <<>> /\ \A x \in S : Append(q, x) = q \o <<x>>
  <2>1. q = q \o <<>>
    OBVIOUS
  <2>2. \A x \in S : Append(q, x) = q \o <<x>>
    BY AppendIsConcat
  <2> QED
    BY <2>1, <2>2
<1> QED
  BY <1>1, <1>2, <1>3

LEMMA OneDisconnect == Disconnects(1) = <<"disconnect">> /\ Disconnects(0) = <<>>
<1>1. \A i \in 1..1 : Disconnects(1)[i] = "disconnect"
  BY DEF Disconnects
<1>2. Disconnects(1) \in Seq(Task) /\ Len(Disconnects(1)) = 1
  BY DisconnectsType
<1>3. Disconnects(0) \in Seq(Task) /\ Len(Disconnects(0)) = 0
  BY DisconnectsType
<1>4. Disconnects(1) = <<"disconnect">>
  BY <1>1, <1>2
<1> QED
  BY <1>3, <1>4

LEMMA LittleTasks ==
  /\ <<>> \in Seq(Task) /\ Names(<<>>) = <<>>
  /\ <<"disconnect">> \in Seq(Task) /\ Names(<<"disconnect">>) = <<"disconnect">>
  /\ <<"writePassword">> \in Seq(Task) /\ Names(<<"writePassword">>) = <<"writePassword">>
<1>1. "disconnect" \in Task /\ "writePassword" \in Task
  BY DEF Task
<1>2. NameOf("disconnect") = "disconnect" /\ NameOf("writePassword") = "writePassword"
  BY DEF NameOf
<1>3. Names(<<"disconnect">>) = <<"disconnect">>
  BY <1>1, <1>2, NamesOf
<1>4. Names(<<"writePassword">>) = <<"writePassword">>
  BY <1>1, <1>2, NamesOf
<1> QED
  BY <1>1, <1>3, <1>4, NamesOf

\* connect is the first task, and there is no source before it ran.
NoConnect(q) == \A i \in 1..Len(q) : q[i] # "connect"
ConnectFirst == NoConnect(queue) \/ (NoConnect(Tail(queue)) /\ ~readSource)

LEMMA ConnectLine ==
  ASSUME ConnTypeOK, ConnectFirst, connectTask
  PROVE  /\ LineNow' \in Tasks(LineNow)
         /\ Leaves(<<>>, <<>>) \/ Leaves(<<"disconnect">>, <<>>)
<1>1. queue # <<>> /\ Head(queue) = "connect" /\ events' = events
  BY DEF connectTask, Starts
<1>2. "disconnect" \in Task
  BY DEF Task
<1>3. ~readSource /\ fd \in BOOLEAN
  <2>1. queue[1] = "connect" /\ 1 \in 1..Len(queue)
    BY <1>1 DEF ConnTypeOK
  <2> QED
    BY <2>1 DEF ConnectFirst, NoConnect, ConnTypeOK
<1>4. LineNow.queue # <<>> /\ Head(LineNow.queue) = "connect"
  <2>1. NameOf("connect") = "connect"
    BY DEF NameOf
  <2> QED
    BY <1>1, <2>1, QueueIs, LineIs, NamesTail DEF Line
<1>5. Tasks(LineNow) = Connects(LineNow)
  BY <1>4 DEF Tasks
<1>6. CASE fd' = TRUE /\ readSource' = TRUE /\ queue' = Tail(queue)
  <2>1. Leaves(<<>>, <<>>)
    BY <1>1, <1>6, QueueIs DEF Leaves
  <2>2. LineNow' = [Ran(LineNow, <<>>, <<>>) EXCEPT !.fd = TRUE, !.source = TRUE]
    <3>1. LineNow' = [Ran(LineNow, Names(<<>>), <<>>) EXCEPT !.fd = fd', !.source = readSource']
      BY <2>1, LittleTasks, TaskLine, Zenon
    <3> QED
      BY <1>6, <3>1, LittleTasks
  <2> QED
    BY <1>5, <2>1, <2>2 DEF Connects
<1>7. ASSUME NEW open \in BOOLEAN, fd' = open, readSource' = FALSE,
             queue' = Append(Tail(queue), "disconnect")
      PROVE  LineNow' \in Tasks(LineNow) /\ Leaves(<<"disconnect">>, <<>>)
  <2>1. Leaves(<<"disconnect">>, <<>>)
    BY <1>1, <1>2, <1>7, QueueIs DEF Leaves
  <2>2. readSource' = readSource
    BY <1>3, <1>7 DEF ConnTypeOK
  <2>3. LineNow' = [Ran(LineNow, <<"disconnect">>, <<>>) EXCEPT !.fd = open]
    <3>1. LineNow' = [Ran(LineNow, Names(<<"disconnect">>), <<>>) EXCEPT !.fd = fd']
      BY <2>1, <2>2, LittleTasks, TaskLine, Zenon
    <3> QED
      BY <1>7, <3>1, LittleTasks
  <2> QED
    BY <1>5, <2>1, <2>3 DEF Connects
<1> QED
  BY <1>6, <1>7 DEF connectTask

LEMMA SourceTask ==
  ASSUME NEW s, NEW next, s.queue # <<>>, Head(s.queue) = "source",
         ~s.source, next = Ran(s, <<>>, <<>>)
  PROVE  next \in Tasks(s)
<1>1. next \in Reads(s)
  BY DEF Reads
<1> QED
  BY <1>1 DEF Tasks

LEMMA ReadTask ==
  ASSUME NEW s, NEW next, s.queue # <<>>, Head(s.queue) = "source", s.source,
         NEW n \in 0..MaxFailures, NEW password \in MayNeedPassword,
         NEW codes \in MayTell(s), next = Ran(s, Disconnects(n) \o password, codes)
  PROVE  next \in Tasks(s)
<1>1. next \in Reads(s)
  BY DEF Reads
<1> QED
  BY <1>1 DEF Tasks

LEMMA WriteTask ==
  ASSUME NEW s, NEW next, s.queue # <<>>, Head(s.queue) = "write",
         \/ next = Ran(s, <<"disconnect">>, <<>>)
         \/ next = [Ran(s, <<"disconnect">>, <<>>) EXCEPT !.fd = FALSE]
         \/ s.fd /\ next = Ran(s, <<>>, <<>>)
  PROVE  next \in Tasks(s)
<1>1. next \in Writes(s)
  BY DEF Writes
<1> QED
  BY <1>1 DEF Tasks

LEMMA PasswordTask ==
  ASSUME NEW s, NEW next, s.queue # <<>>, Head(s.queue) = "writePassword",
         \/ next = Ran(s, <<>>, <<>>)
         \/ \E codes \in MayTell(s) :
              next = Ran(s, <<"disconnect">>, codes) \/ (s.fd /\ next = Ran(s, <<>>, codes))
  PROVE  next \in Tasks(s)
<1>1. next \in WritesPassword(s)
  BY DEF WritesPassword
<1> QED
  BY <1>1 DEF Tasks

LEMMA EndTask ==
  ASSUME NEW s, NEW next, s.queue # <<>>, Head(s.queue) = "disconnect",
         next = [Ran(s, <<>>, <<"DISCONNECTED">>) EXCEPT !.fd = FALSE, !.source = FALSE]
  PROVE  next \in Tasks(s)
<1>1. next \in Ends(s)
  BY DEF Ends
<1> QED
  BY <1>1 DEF Tasks

LEMMA HeadLine ==
  ASSUME ConnTypeOK, queue # <<>>
  PROVE  LineNow.queue # <<>> /\ Head(LineNow.queue) = NameOf(Head(queue))
<1>1. queue \in Seq(Task)
  BY DEF ConnTypeOK
<1>2. LineNow.queue = Names(queue)
  BY LineIs DEF Line
<1> QED
  BY <1>1, <1>2, NamesTail

LEMMA LineFields ==
  ConnTypeOK => LineNow.fd = fd /\ LineNow.source = readSource /\ fd \in BOOLEAN
BY DEF LineNow, ConnTypeOK

LEMMA SentIf ==
  ASSUME ConnTypeOK, NEW ok \in {FALSE, fd}
  PROVE  ok \in BOOLEAN /\ (ok => fd)
<1>1. ok = FALSE \/ ok = fd
  OBVIOUS
<1>2. fd = TRUE \/ fd = FALSE
  BY DEF ConnTypeOK
<1>3. ok = FALSE \/ (ok = TRUE /\ fd)
  BY <1>1, <1>2, Zenon
<1> QED
  BY <1>3, Zenon

LEMMA CancelledLine ==
  ASSUME ConnTypeOK, SourceCancelled
  PROVE  LineNow' \in Tasks(LineNow) /\ Leaves(<<>>, <<>>)
<1>1. /\ queue # <<>> /\ Head(queue) = "source" /\ ~readSource
      /\ queue' = Tail(queue) /\ events' = events /\ fd' = fd /\ readSource' = readSource
  BY DEF SourceCancelled, Starts
<1>2. Leaves(<<>>, <<>>)
  BY <1>1, QueueIs DEF Leaves
<1>3. LineNow' = Ran(LineNow, <<>>, <<>>)
  <2>1. LineNow' = Ran(LineNow, Names(<<>>), <<>>)
    BY <1>1, <1>2, LittleTasks, TaskLine, Zenon
  <2> QED
    BY <2>1, LittleTasks
<1>4. LineNow.queue # <<>> /\ Head(LineNow.queue) = "source" /\ ~LineNow.source
  BY <1>1, HeadLine, LineFields DEF NameOf
<1> QED
  BY <1>2, <1>3, <1>4, SourceTask, Zenon

\* What a read leaves: n sends that failed, the password, CONNECTED.
LEMMA ReadLine ==
  ASSUME readSource, ConnTypeOK, NEW n \in 0..MaxFailures,
         NEW password \in MayNeedPassword, NEW codes \in MayTell(LineNow),
         queue # <<>>, Head(queue) = "source", Leaves(Disconnects(n) \o password, codes),
         UNCHANGED <<fd, readSource>>
  PROVE  LineNow' \in Tasks(LineNow)
<1>1. n \in Nat /\ password \in Seq(Task) /\ Names(password) = password
  <2>1. n \in Nat
    BY LineAssumption
  <2>2. password = <<>> \/ password = <<"writePassword">>
    BY DEF MayNeedPassword
  <2>3. CASE password = <<>>
    BY <2>3, LittleTasks
  <2>4. CASE password = <<"writePassword">>
    BY <2>4, LittleTasks
  <2> QED
    BY <2>1, <2>2, <2>3, <2>4
<1>2. Disconnects(n) \in Seq(Task) /\ Names(Disconnects(n)) = Disconnects(n)
  BY <1>1, DisconnectsType, NamesOf
<1>3. PICK tasks \in Seq(Task) : tasks = Disconnects(n) \o password
  BY <1>1, <1>2, ConcatProperties
<1>4. Names(tasks) = tasks
  <2>1. PICK d \in Seq(Task) : d = Disconnects(n)
    BY <1>2
  <2>2. Names(d \o password) = Names(d) \o Names(password)
    BY <1>1, NamesJoin
  <2> QED
    BY <1>1, <1>2, <1>3, <2>1, <2>2
<1>5. LineNow' = Ran(LineNow, tasks, codes)
  <2>1. Leaves(tasks, codes)
    BY <1>3
  <2>2. LineNow' = Ran(LineNow, Names(tasks), codes)
    BY <2>1, TaskLine
  <2> QED
    BY <1>4, <2>2
<1>6. LineNow.queue # <<>> /\ Head(LineNow.queue) = "source" /\ LineNow.source
  BY HeadLine, LineFields DEF NameOf
<1>7. LineNow' = Ran(LineNow, Disconnects(n) \o password, codes)
  BY <1>3, <1>5
<1> QED
  BY <1>6, <1>7, ReadTask, Zenon

LEMMA FailedLine ==
  ASSUME ConnTypeOK, ReceiveFailed
  PROVE  LineNow' \in Tasks(LineNow) /\ Leaves(<<"disconnect">>, <<>>)
<1>1. /\ queue # <<>> /\ Head(queue) = "source" /\ readSource
      /\ queue' = Append(Tail(queue), "disconnect") /\ events' = events
      /\ fd' = fd /\ readSource' = readSource
  BY DEF ReceiveFailed, Starts
<1>2. Leaves(<<"disconnect">>, <<>>)
  BY <1>1, QueueIs DEF Leaves, Task
<1>3. Disconnects(1) \o <<>> = <<"disconnect">> /\ 1 \in 0..MaxFailures /\ <<>> \in MayTell(LineNow)
  BY OneDisconnect, LineAssumption DEF MayTell
<1>4. LineNow' \in Tasks(LineNow)
  <2>1. Leaves(Disconnects(1) \o <<>>, <<>>)
    BY <1>2, <1>3
  <2>2. <<>> \in MayNeedPassword
    BY DEF MayNeedPassword
  <2> QED
    BY <1>1, <1>3, <2>1, <2>2, ReadLine, Zenon
<1> QED
  BY <1>2, <1>4

LEMMA EndLine ==
  ASSUME ConnTypeOK, disconnectTask
  PROVE  LineNow' \in Tasks(LineNow) /\ Leaves(<<>>, <<"DISCONNECTED">>)
<1>1. /\ queue # <<>> /\ Head(queue) = "disconnect"
      /\ queue' = Tail(queue) /\ events' = Append(events, "DISCONNECTED")
      /\ fd' = FALSE /\ readSource' = FALSE
  BY DEF disconnectTask, Starts
<1>2. Leaves(<<>>, <<"DISCONNECTED">>)
  BY <1>1, QueueIs DEF Leaves, Code
<1>3. LineNow' = [Ran(LineNow, <<>>, <<"DISCONNECTED">>) EXCEPT !.fd = FALSE, !.source = FALSE]
  <2>1. LineNow' = [Ran(LineNow, Names(<<>>), <<"DISCONNECTED">>) EXCEPT
                      !.fd = fd', !.source = readSource']
    BY <1>2, LittleTasks, TaskLine, Zenon
  <2> QED
    BY <1>1, <2>1, LittleTasks
<1>4. LineNow.queue # <<>> /\ Head(LineNow.queue) = "disconnect"
  BY <1>1, HeadLine DEF NameOf
<1> QED
  BY <1>2, <1>3, <1>4, EndTask, Zenon

LEMMA SentLeaves ==
  ASSUME ConnTypeOK, queue # <<>>, NEW ok \in BOOLEAN, Sent(Tail(queue), 1, ok),
         NEW codes, events' = events \o codes
  PROVE  Leaves(IF ok THEN <<>> ELSE <<"disconnect">>, codes)
<1>1. CASE ok
  BY <1>1, QueueIs DEF Sent, Leaves
<1>2. CASE ~ok
  BY <1>2, OneDisconnect DEF Sent, Leaves
<1> QED
  BY <1>1, <1>2

LEMMA WriteLine ==
  ASSUME ConnTypeOK, writeFrom
  PROVE  /\ LineNow' \in Tasks(LineNow)
         /\ Leaves(<<>>, <<>>) \/ Leaves(<<"disconnect">>, <<>>)
<1>1. PICK ok \in {FALSE, fd} : Sent(Tail(queue), 1, ok)
  BY DEF writeFrom
<1>2. /\ queue # <<>> /\ Head(queue) = "write" /\ events' = events
      /\ fd' = fd /\ readSource' = readSource
  BY DEF writeFrom, Starts
<1>3. ok \in BOOLEAN /\ (ok => fd)
  BY SentIf
<1>4. LineNow.queue # <<>> /\ Head(LineNow.queue) = "write" /\ LineNow.fd = fd
  BY <1>2, HeadLine, LineFields DEF NameOf
<1>5. CASE ok
  <2>1. Leaves(<<>>, <<>>)
    BY <1>1, <1>2, <1>5, QueueIs, SentLeaves
  <2>2. LineNow' = Ran(LineNow, Names(<<>>), <<>>)
    BY <1>2, <2>1, LittleTasks, TaskLine, Zenon
  <2>3. LineNow' = Ran(LineNow, <<>>, <<>>)
    BY <2>2, LittleTasks
  <2> QED
    BY <1>3, <1>4, <1>5, <2>1, <2>3, WriteTask, Zenon
<1>6. CASE ~ok
  <2>1. Leaves(<<"disconnect">>, <<>>)
    BY <1>1, <1>2, <1>3, <1>6, QueueIs, SentLeaves
  <2>2. LineNow' = Ran(LineNow, Names(<<"disconnect">>), <<>>)
    BY <1>2, <2>1, LittleTasks, TaskLine, Zenon
  <2>3. LineNow' = Ran(LineNow, <<"disconnect">>, <<>>)
    BY <2>2, LittleTasks
  <2> QED
    BY <1>4, <2>1, <2>3, WriteTask, Zenon
<1> QED
  BY <1>5, <1>6

LEMMA NothingLine ==
  ASSUME ConnTypeOK, writeNothing
  PROVE  LineNow' \in Tasks(LineNow) /\ Leaves(<<"disconnect">>, <<>>)
<1>1. /\ queue # <<>> /\ Head(queue) = "writeNothing" /\ events' = events
      /\ fd' = FALSE /\ readSource' = readSource /\ Sent(Tail(queue), 1, FALSE)
  BY DEF writeNothing, Starts
<1>2. Leaves(<<"disconnect">>, <<>>)
  <2>1. events' = events \o <<>>
    BY <1>1, QueueIs
  <2> QED
    BY <1>1, <2>1, SentLeaves
<1>3. LineNow' = [Ran(LineNow, <<"disconnect">>, <<>>) EXCEPT !.fd = FALSE]
  <2>1. LineNow' = [Ran(LineNow, Names(<<"disconnect">>), <<>>) EXCEPT !.fd = fd']
    BY <1>1, <1>2, LittleTasks, TaskLine, Zenon
  <2> QED
    BY <1>1, <2>1, LittleTasks
<1>4. LineNow.queue # <<>> /\ Head(LineNow.queue) = "write"
  BY <1>1, HeadLine DEF NameOf
<1> QED
  BY <1>2, <1>3, <1>4, WriteTask, Zenon

LEMMA PasswordLine ==
  ASSUME ConnTypeOK, PasswordOnce, writePassword
  PROVE  /\ LineNow' \in Tasks(LineNow)
         /\ \E codes : Leaves(<<>>, codes) \/ Leaves(<<"disconnect">>, codes)
<1>1. /\ queue # <<>> /\ Head(queue) = "writePassword"
      /\ fd' = fd /\ readSource' = readSource
  BY DEF writePassword, Starts
<1>2. LineNow.queue # <<>> /\ Head(LineNow.queue) = "writePassword" /\ LineNow.fd = fd
  BY <1>1, HeadLine, LineFields DEF NameOf
<1>3. CASE login.password
  <2>1. PICK ok \in {FALSE, fd} : Sent(Tail(queue), 1, ok)
    BY <1>3 DEF writePassword
  <2>2. ok \in BOOLEAN /\ (ok => fd)
    BY SentIf
  <2>3. events' = events \o <<"CONNECTED">>
    BY <1>1, <1>3, QueueIs DEF writePassword, Code
  <2>4. <<"CONNECTED">> \in MayTell(LineNow)
    <3>1. Waits(queue)
      BY <1>1 DEF Waits, ConnTypeOK
    <3>2. ~Has(LineNow, "CONNECTED")
      BY <1>3, <3>1, HasConnected DEF PasswordOnce
    <3> QED
      BY <3>2 DEF MayTell
  <2>5. CASE ok
    <3>1. Leaves(<<>>, <<"CONNECTED">>)
      BY <1>1, <2>1, <2>3, <2>5, SentLeaves
    <3>2. LineNow' = Ran(LineNow, Names(<<>>), <<"CONNECTED">>)
      BY <1>1, <3>1, LittleTasks, TaskLine, Zenon
    <3>3. LineNow.fd /\ LineNow' = Ran(LineNow, <<>>, <<"CONNECTED">>)
      BY <1>2, <2>2, <2>5, <3>2, LittleTasks
    <3> QED
      BY <1>2, <2>4, <3>1, <3>3, PasswordTask, Zenon
  <2>6. CASE ~ok
    <3>1. Leaves(<<"disconnect">>, <<"CONNECTED">>)
      BY <1>1, <2>1, <2>2, <2>3, <2>6, SentLeaves
    <3>2. LineNow' = Ran(LineNow, Names(<<"disconnect">>), <<"CONNECTED">>)
      BY <1>1, <3>1, LittleTasks, TaskLine, Zenon
    <3>3. LineNow' = Ran(LineNow, <<"disconnect">>, <<"CONNECTED">>)
      BY <3>2, LittleTasks
    <3> QED
      BY <1>2, <2>4, <3>1, <3>3, PasswordTask, Zenon
  <2> QED
    BY <2>5, <2>6
<1>4. CASE ~login.password
  <2>1. Leaves(<<>>, <<>>)
    BY <1>1, <1>4, QueueIs DEF writePassword, Leaves
  <2>2. LineNow' = Ran(LineNow, Names(<<>>), <<>>)
    BY <1>1, <2>1, LittleTasks, TaskLine, Zenon
  <2>3. LineNow' = Ran(LineNow, <<>>, <<>>)
    BY <2>2, LittleTasks
  <2> QED
    BY <1>2, <2>1, <2>3, PasswordTask, Zenon
<1> QED
  BY <1>3, <1>4

\* The next read fails at most MaxFailures times, wherever it is cut.
FewSends ==
  \A n \in 1..Len(wire), left \in Byte :
    Readable(n) => Parsed(Buffer(n), Begin, left).sends \in 0..MaxFailures

LEMMA FewWhenUncut ==
  ASSUME ConnTypeOK, Flow, ~SplitSubOptions
  PROVE  FewSends
<1>1. SUFFICES ASSUME NEW n \in 1..Len(wire), NEW left \in Byte, Readable(n)
               PROVE  Parsed(Buffer(n), Begin, left).sends \in 0..MaxFailures
  BY DEF FewSends
<1>2. PICK r : r = Parsed(Buffer(n), Begin, left)
  OBVIOUS
<1>3. r.sends \in Nat /\ r.sends <= messages
  BY <1>1, <1>2, ReadReaches
<1>4. messages \in Nat /\ MaxMessages \in Nat /\ messages <= MaxMessages
      /\ MaxFailures \in Nat /\ MaxMessages <= MaxFailures
  BY LineAssumption, TelnetAssumption DEF ConnTypeOK
<1>5. r.sends \in 0..MaxFailures
  BY <1>3, <1>4
<1> QED
  BY <1>2, <1>5

LEMMA FewWhenCounted ==
  ASSUME ConnTypeOK, NEW size \in Nat, MaxMessages * size <= MaxFailures, Counted(size)
  PROVE  FewSends
<1>1. SUFFICES ASSUME NEW n \in 1..Len(wire), NEW left \in Byte
               PROVE  Parsed(Buffer(n), Begin, left).sends \in 0..MaxFailures
  BY DEF FewSends
<1>2. PICK r : r = Parsed(Buffer(n), Begin, left)
  OBVIOUS
<1>3. r.sends \in Nat /\ r.sends <= Len(inBuffer) + n
  BY <1>2, ReadCounts
<1>4. PICK a \in Nat, w \in Nat : a = Len(inBuffer) /\ w = Len(wire)
  <2>1. Len(inBuffer) \in Nat /\ Len(wire) \in Nat
    BY StreamType, LenProperties
  <2> QED
    BY <2>1
<1>5. messages \in Nat /\ MaxMessages \in Nat /\ messages <= MaxMessages
      /\ MaxFailures \in Nat
  BY LineAssumption, TelnetAssumption DEF ConnTypeOK
<1>6. messages * size <= MaxMessages * size
  <2>1. PICK x \in Nat, y \in Nat, z \in Nat : x = messages /\ y = MaxMessages - messages /\ z = size
    BY <1>5
  <2>2. (x + y) * z = x * z + y * z /\ x * z \in Nat /\ y * z \in Nat
    OBVIOUS
  <2>3. MaxMessages = x + y
    BY <1>5, <2>1
  <2>4. x * z <= (x + y) * z
    BY <2>2
  <2> QED
    BY <2>1, <2>3, <2>4, Zenon
<1>7. PICK p \in Nat, q \in Nat : p = messages * size /\ q = MaxMessages * size
  BY <1>5
<1>8. a + w <= p /\ p <= q /\ q <= MaxFailures
  BY <1>4, <1>6, <1>7 DEF Counted
<1>9. n \in Nat /\ n <= w
  BY <1>4
<1>10. r.sends \in Nat /\ r.sends <= a + n
  BY <1>3, <1>4
<1>11. r.sends <= MaxFailures
  BY <1>5, <1>8, <1>9, <1>10
<1> QED
  BY <1>2, <1>5, <1>10, <1>11

\* CONNECTED is notified by a read before anything else notified it.
LEMMA ReadsLine ==
  ASSUME ConnTypeOK, FewSends, PasswordOnce, newTerminalDataAvailable
  PROVE  /\ LineNow' \in Tasks(LineNow)
         /\ \E k \in Nat, password \in MayNeedPassword :
              \E codes : Leaves(Disconnects(k) \o password, codes)
<1>1. PICK n \in 1..Len(wire), left \in {0, optionSend}, ok \in BOOLEAN :
        Readable(n) /\ Received(n, left, ok)
  BY DEF newTerminalDataAvailable
<1>2. left \in Byte
  BY DEF optionSend, Byte
<1>3. PICK r : r = Parsed(Buffer(n), Begin, left)
  OBVIOUS
<1> DEFINE anonymous == ~isConnectedSent /\ ~login.user /\ ~login.password
<1>4. /\ events' = (IF anonymous THEN Append(events, "CONNECTED") ELSE events)
      /\ queue' = (IF ok THEN Tail(queue) ELSE Tail(queue) \o Disconnects(r.sends))
                    \o (IF r.password THEN <<"writePassword">> ELSE <<>>)
  BY <1>1, <1>3 DEF Received, Begin, Buffer
<1>5. /\ queue # <<>> /\ Head(queue) = "source" /\ readSource
      /\ fd' = fd /\ readSource' = readSource
  BY DEF newTerminalDataAvailable, Starts
<1>6. r.sends \in 0..MaxFailures
  BY <1>1, <1>2, <1>3 DEF FewSends
<1>7. PICK k \in 0..MaxFailures : k = IF ok THEN 0 ELSE r.sends
  BY <1>6, LineAssumption
<1>8. PICK password \in MayNeedPassword :
        password = IF r.password THEN <<"writePassword">> ELSE <<>>
  BY DEF MayNeedPassword
<1>9. PICK codes \in MayTell(LineNow) :
        codes = IF anonymous THEN <<"CONNECTED">> ELSE <<>>
  <2>1. CASE anonymous
    <3>1. ~Has(LineNow, "CONNECTED")
      BY <2>1, HasConnected DEF PasswordOnce
    <3> QED
      BY <2>1, <3>1 DEF MayTell
  <2>2. CASE ~anonymous
    BY <2>2 DEF MayTell
  <2> QED
    BY <2>1, <2>2
<1>10. events' = events \o codes
  BY <1>4, <1>5, <1>9, QueueIs DEF Code
<1>11. queue' = Tail(queue) \o (Disconnects(k) \o password)
  <2>1. k \in Nat /\ Disconnects(k) \in Seq(Task)
    BY <1>7, LineAssumption, DisconnectsType
  <2>2. password \in Seq(Task)
    BY <1>8, LittleTasks
  <2>3. PICK q \in Seq(Task), d \in Seq(Task) : q = Tail(queue) /\ d = Disconnects(k)
    BY <1>5, <2>1, QueueIs
  <2>4. queue' = (q \o d) \o password
    <3>1. CASE ok
      <4>1. q \o d = q
        BY <1>5, <1>7, <2>3, <3>1, OneDisconnect, QueueIs
      <4> QED
        BY <1>4, <1>8, <2>3, <3>1, <4>1
    <3>2. CASE ~ok
      BY <1>4, <1>7, <1>8, <2>3, <3>2
    <3> QED
      BY <3>1, <3>2
  <2>5. (q \o d) \o password = q \o (d \o password)
    BY <2>2, ConcatAssociative
  <2> QED
    BY <2>3, <2>4, <2>5
<1>12. Leaves(Disconnects(k) \o password, codes)
  BY <1>5, <1>10, <1>11 DEF Leaves
<1>13. k \in Nat
  BY LineAssumption
<1> QED
  BY <1>5, <1>12, <1>13, ReadLine, Zenon

\* What the read source and the main thread ask for.
LEMMA CallLine ==
  ASSUME ConnTypeOK, NEW task \in Task, queue' = Append(queue, task),
         UNCHANGED <<fd, readSource, events>>
  PROVE  LineNow' = Dispatched(LineNow, NameOf(task))
<1>1. PICK q \in Seq(Task) : q = queue
  BY DEF ConnTypeOK
<1>2. <<task>> \in Seq(Task) /\ Append(q, task) = q \o <<task>>
  BY AppendIsConcat
<1>3. Names(Append(q, task)) = Names(q) \o <<NameOf(task)>>
  BY <1>2, NamesJoin, NamesOf
<1>4. Names(q) \o <<NameOf(task)>> = Append(Names(q), NameOf(task))
  <2>1. PICK m \in Seq(LineTask), t \in LineTask : m = Names(q) /\ t = NameOf(task)
    BY NamesType DEF NameOf, Task, LineTask
  <2>2. Append(m, t) = m \o <<t>>
    BY AppendIsConcat
  <2> QED
    BY <2>1, <2>2
<1>5. LineNow' = Line(Names(queue'), fd', readSource', events')
  BY DEF LineNow, Line, Names, NameOf
<1>6. PICK a, p : a = Append(Names(q), NameOf(task)) /\ p = Names(q)
  OBVIOUS
<1>7. LineNow' = Line(a, fd, readSource, events) /\ LineNow = Line(p, fd, readSource, events)
  BY <1>1, <1>3, <1>4, <1>5, <1>6, LineIs
<1>8. [Line(p, fd, readSource, events) EXCEPT !.queue = a] = Line(a, fd, readSource, events)
  BY DEF Line
<1>9. Line(p, fd, readSource, events).queue = p
  BY DEF Line
<1>10. Dispatched(LineNow, NameOf(task)) =
         [LineNow EXCEPT !.queue = Append(LineNow.queue, NameOf(task))]
  BY Zenon DEF Dispatched
<1> QED
  BY <1>6, <1>7, <1>8, <1>9, <1>10

LEMMA StepsHas ==
  ASSUME NEW s, NEW next,
         \/ next \in Tasks(s)
         \/ next = Dispatched(s, "write")
         \/ next = Dispatched(s, "disconnect")
         \/ /\ s.source /\ s.fd /\ \A i \in DOMAIN s.queue : s.queue[i] # "source"
            /\ next = Dispatched(s, "source")
  PROVE  next \in Steps(s)
<1>1. next \in Tasks(s) => next \in Steps(s)
  BY Zenon DEF Steps
<1>2. next \in Calls(s) => next \in Steps(s)
  BY Zenon DEF Steps
<1>3. next \in Fires(s) => next \in Steps(s)
  BY Zenon DEF Steps
<1>4. Dispatched(s, "write") \in Calls(s) /\ Dispatched(s, "disconnect") \in Calls(s)
  BY Zenon DEF Calls
<1>5. s.source /\ s.fd /\ (\A i \in DOMAIN s.queue : s.queue[i] # "source") =>
        Dispatched(s, "source") \in Fires(s)
  BY DEF Fires
<1> QED
  BY <1>1, <1>2, <1>3, <1>4, <1>5

LEMMA FiresLine ==
  ASSUME ConnTypeOK, SourceReady
  PROVE  LineNow' \in Steps(LineNow)
<1>1. /\ readSource /\ fd /\ \A i \in DOMAIN queue : queue[i] # "source"
      /\ queue' = Append(queue, "source") /\ UNCHANGED <<fd, readSource, events>>
  BY DEF SourceReady
<1>2. "source" \in Task /\ NameOf("source") = "source"
  BY DEF Task, NameOf
<1>3. LineNow' = Dispatched(LineNow, "source")
  BY <1>1, <1>2, CallLine
<1>4. LineNow.source /\ LineNow.fd
  BY <1>1, LineFields
<1>5. \A i \in DOMAIN LineNow.queue : LineNow.queue[i] # "source"
  <2>1. LineNow.queue = Names(queue)
    BY LineIs DEF Line
  <2> QED
    BY <1>1, <2>1 DEF Names, NameOf
<1> QED
  BY <1>3, <1>4, <1>5, StepsHas, Zenon

LEMMA CallsLine ==
  ASSUME ConnTypeOK, NEW task \in {"write", "writeNothing", "disconnect"},
         queue' = Append(queue, task), UNCHANGED <<fd, readSource, events>>
  PROVE  LineNow' \in Steps(LineNow)
<1>1. task \in Task
  BY DEF Task
<1>2. LineNow' = Dispatched(LineNow, NameOf(task))
  BY <1>1, CallLine
<1>3. NameOf(task) = "write" \/ NameOf(task) = "disconnect"
  BY DEF NameOf
<1>4. LineNow' = Dispatched(LineNow, "write") \/ LineNow' = Dispatched(LineNow, "disconnect")
  BY <1>2, <1>3
<1> QED
  BY <1>4, StepsHas, Zenon

\* ConnectFirst is kept by a task that queues no connect, and by a call.
LEMMA FirstLeaves ==
  ASSUME ConnTypeOK, ConnectFirst, NEW tasks \in Seq(Task), NoConnect(tasks), NEW codes,
         Leaves(tasks, codes)
  PROVE  ConnectFirst'
<1>1. PICK q \in Seq(Task) : q = Tail(queue)
  BY QueueIs DEF Leaves
<1>2. NoConnect(q)
  <2>1. CASE NoConnect(queue)
    <3>1. PICK n \in Nat : n = Len(queue)
      BY DEF ConnTypeOK
    <3>2. /\ Len(Tail(queue)) = n - 1
          /\ \A i \in 1..(n - 1) : Tail(queue)[i] = queue[i + 1]
      BY <3>1, HeadTailProperties DEF ConnTypeOK, Leaves
    <3>3. \A i \in 1..(n - 1) : i + 1 \in 1..n
      OBVIOUS
    <3> QED
      BY <1>1, <2>1, <3>1, <3>2, <3>3 DEF NoConnect
  <2>2. CASE ~NoConnect(queue)
    BY <1>1, <2>2 DEF ConnectFirst
  <2> QED
    BY <2>1, <2>2
<1>3. PICK n \in Nat, m \in Nat : n = Len(q) /\ m = Len(tasks)
  OBVIOUS
<1>4. /\ Len(q \o tasks) = n + m
      /\ \A i \in 1..(n + m) : (q \o tasks)[i] = IF i <= n THEN q[i] ELSE tasks[i - n]
  BY <1>3, ConcatProperties
<1>5. ASSUME NEW i \in 1..(n + m)
      PROVE  (q \o tasks)[i] # "connect"
  <2>1. CASE i <= n
    BY <1>2, <1>3, <1>4, <2>1 DEF NoConnect
  <2>2. CASE ~(i <= n)
    <3>1. i - n \in 1..m
      BY <2>2
    <3>2. tasks[i - n] # "connect"
      BY <1>3, <3>1 DEF NoConnect
    <3> QED
      BY <1>4, <2>2, <3>2
  <2> QED
    BY <2>1, <2>2
<1>6. queue' = q \o tasks
  BY <1>1 DEF Leaves
<1>7. NoConnect(queue')
  BY <1>4, <1>5, <1>6 DEF NoConnect
<1> QED
  BY <1>7 DEF ConnectFirst

LEMMA FirstCalls ==
  ASSUME ConnTypeOK, ConnectFirst, NEW task \in Task, task # "connect",
         queue' = Append(queue, task), readSource' = readSource
  PROVE  ConnectFirst'
<1>1. ASSUME NEW q \in Seq(Task), NoConnect(q)
      PROVE  NoConnect(Append(q, task))
  <2>1. PICK n \in Nat : n = Len(q)
    OBVIOUS
  <2>2. /\ Len(Append(q, task)) = n + 1 /\ Append(q, task)[n + 1] = task
        /\ \A i \in 1..n : Append(q, task)[i] = q[i]
    BY <2>1, AppendProperties
  <2>3. \A i \in 1..(n + 1) : i \in 1..n \/ i = n + 1
    OBVIOUS
  <2> QED
    BY <1>1, <2>1, <2>2, <2>3 DEF NoConnect
<1>2. queue \in Seq(Task)
  BY DEF ConnTypeOK
<1>3. CASE NoConnect(queue)
  BY <1>1, <1>2, <1>3 DEF ConnectFirst
<1>4. CASE ~NoConnect(queue)
  <2>1. queue # <<>> /\ NoConnect(Tail(queue)) /\ ~readSource
    BY <1>4 DEF ConnectFirst, NoConnect
  <2>2. Tail(Append(queue, task)) = Append(Tail(queue), task) /\ Tail(queue) \in Seq(Task)
    BY <1>2, <2>1, HeadTailAppend
  <2>3. NoConnect(Append(Tail(queue), task))
    BY <1>1, <2>1, <2>2
  <2> QED
    BY <2>1, <2>2, <2>3 DEF ConnectFirst
<1> QED
  BY <1>3, <1>4

LEMMA PlainTasks ==
  /\ NoConnect(<<>>) /\ NoConnect(<<"disconnect">>)
  /\ \A k \in Nat, password \in MayNeedPassword :
       /\ Disconnects(k) \o password \in Seq(Task)
       /\ NoConnect(Disconnects(k) \o password)
<1>1. NoConnect(<<>>) /\ NoConnect(<<"disconnect">>) /\ NoConnect(<<"writePassword">>)
  BY DEF NoConnect
<1>2. ASSUME NEW k \in Nat, NEW password \in MayNeedPassword
      PROVE  /\ Disconnects(k) \o password \in Seq(Task)
             /\ NoConnect(Disconnects(k) \o password)
  <2>1. /\ Disconnects(k) \in Seq(Task) /\ Len(Disconnects(k)) = k
        /\ \A i \in 1..k : Disconnects(k)[i] = "disconnect"
    BY DisconnectsType DEF Disconnects
  <2>2. password \in Seq(Task) /\ NoConnect(password)
    BY <1>1, LittleTasks DEF MayNeedPassword
  <2>3. PICK d \in Seq(Task), p \in Seq(Task), m \in Nat :
          d = Disconnects(k) /\ p = password /\ m = Len(password)
    BY <2>1, <2>2
  <2>4. /\ d \o p \in Seq(Task) /\ Len(d \o p) = k + m
        /\ \A i \in 1..(k + m) : (d \o p)[i] = IF i <= k THEN d[i] ELSE p[i - k]
    <3>1. Len(d) = k /\ Len(p) = m
      BY <2>1, <2>3
    <3> QED
      BY <3>1, ConcatProperties
  <2>5. ASSUME NEW i \in 1..(k + m)
        PROVE  (d \o p)[i] # "connect"
    <3>1. CASE i <= k
      BY <2>1, <2>3, <2>4, <3>1
    <3>2. CASE ~(i <= k)
      <4>1. i - k \in 1..m
        BY <3>2
      <4>2. p[i - k] # "connect"
        BY <2>2, <2>3, <4>1 DEF NoConnect
      <4> QED
        BY <2>4, <3>2, <4>2
    <3> QED
      BY <3>1, <3>2
  <2>6. NoConnect(d \o p)
    BY <2>4, <2>5 DEF NoConnect
  <2> QED
    BY <2>3, <2>4, <2>6
<1> QED
  BY <1>1, <1>2

Keeps == LineNow' \in Steps(LineNow)

LEMMA TaskKept ==
  ASSUME ConnTypeOK, ConnectFirst, LineNow' \in Tasks(LineNow),
         NEW tasks \in Seq(Task), NoConnect(tasks), NEW codes, Leaves(tasks, codes)
  PROVE  Keeps /\ ConnectFirst'
<1>1. Keeps
  BY StepsHas, Zenon DEF Keeps
<1> QED
  BY <1>1, FirstLeaves

LEMMA CallKept ==
  ASSUME ConnTypeOK, ConnectFirst, NEW task \in {"write", "writeNothing", "disconnect"},
         queue' = Append(queue, task), UNCHANGED <<fd, readSource, events>>
  PROVE  Keeps /\ ConnectFirst'
<1>1. task \in Task /\ task # "connect"
  BY DEF Task
<1>2. ConnectFirst'
  BY <1>1, FirstCalls
<1>3. Keeps
  BY CallsLine DEF Keeps
<1> QED
  BY <1>2, <1>3

LEMMA KeepsStep ==
  ASSUME ConnTypeOK, FewSends, PasswordOnce, ConnectFirst, [ConnNext]_connVars
  PROVE  (Keeps \/ LineNow' = LineNow) /\ ConnectFirst'
<1> USE DEF flags, serverVars, parserVars, history
<1>1. <<>> \in Seq(Task) /\ <<"disconnect">> \in Seq(Task)
  BY LittleTasks
<1>2. NoConnect(<<>>) /\ NoConnect(<<"disconnect">>)
  BY PlainTasks
<1>3. ASSUME UNCHANGED <<queue, fd, readSource, events>>
      PROVE  LineNow' = LineNow /\ ConnectFirst'
  BY <1>3 DEF LineNow, ConnectFirst, NoConnect
<1>4. CASE connectTask
  BY <1>1, <1>2, <1>4, ConnectLine, TaskKept, Zenon
<1>5. CASE SourceCancelled
  BY <1>1, <1>2, <1>5, CancelledLine, TaskKept, Zenon
<1>6. CASE ReceiveFailed
  BY <1>1, <1>2, <1>6, FailedLine, TaskKept, Zenon
<1>7. CASE newTerminalDataAvailable
  <2>1. LineNow' \in Tasks(LineNow)
    BY <1>7, ReadsLine, Zenon
  <2>2. PICK k \in Nat, password \in MayNeedPassword :
          \E codes : Leaves(Disconnects(k) \o password, codes)
    BY <1>7, ReadsLine, Zenon
  <2>3. PICK codes : Leaves(Disconnects(k) \o password, codes)
    BY <2>2
  <2>4. PICK tasks \in Seq(Task) : NoConnect(tasks) /\ Leaves(tasks, codes)
    BY <2>3, PlainTasks, Zenon
  <2> QED
    BY <2>1, <2>4, TaskKept, Zenon
<1>8. CASE writePassword
  <2>1. LineNow' \in Tasks(LineNow)
    BY <1>8, PasswordLine, Zenon
  <2>2. PICK codes : Leaves(<<>>, codes) \/ Leaves(<<"disconnect">>, codes)
    BY <1>8, PasswordLine, Zenon
  <2> QED
    BY <1>1, <1>2, <2>1, <2>2, TaskKept, Zenon
<1>9. CASE writeFrom
  BY <1>1, <1>2, <1>9, WriteLine, TaskKept, Zenon
<1>10. CASE writeNothing
  BY <1>1, <1>2, <1>10, NothingLine, TaskKept, Zenon
<1>11. CASE disconnectTask
  BY <1>1, <1>2, <1>11, EndLine, TaskKept, Zenon
<1>12. CASE SourceReady
  <2>1. Keeps
    BY <1>12, FiresLine DEF Keeps
  <2>2. /\ queue' = Append(queue, "source") /\ readSource' = readSource
        /\ "source" \in Task /\ "source" # "connect"
    BY <1>12 DEF SourceReady, Task
  <2>3. ConnectFirst'
    BY <2>2, FirstCalls
  <2> QED
    BY <2>1, <2>3
<1>13. CASE ServerSends
  BY <1>3, <1>13 DEF ServerSends
<1>14. CASE ServerCloses
  BY <1>3, <1>14 DEF ServerCloses
<1>15. CASE TypeKey
  <2>1. PICK task \in {"write", "writeNothing"} : queue' = Append(queue, task)
    BY <1>15 DEF TypeKey
  <2>2. task \in {"write", "writeNothing", "disconnect"}
    BY <2>1
  <2>3. UNCHANGED <<fd, readSource, events>>
    BY <1>15 DEF TypeKey
  <2> QED
    BY <2>1, <2>2, <2>3, CallKept
<1>16. CASE endConnection
  <2>1. queue' = Append(queue, "disconnect") /\ UNCHANGED <<fd, readSource, events>>
    BY <1>16 DEF endConnection
  <2> QED
    BY <2>1, CallKept
<1>17. CASE UNCHANGED connVars
  BY <1>3, <1>17 DEF connVars
<1> QED
  BY <1>4, <1>5, <1>6, <1>7, <1>8, <1>9, <1>10, <1>11, <1>12, <1>13, <1>14, <1>15, <1>16,
     <1>17 DEF ConnNext, RunTask

LEMMA KeepsInit == ConnInit => LineNow = Dispatched(Allocated, "connect") /\ ConnectFirst
<1> SUFFICES ASSUME ConnInit
             PROVE  LineNow = Dispatched(Allocated, "connect") /\ ConnectFirst
  OBVIOUS
<1>1. queue = <<"connect">> /\ fd = FALSE /\ readSource = FALSE /\ events = <<>>
  BY DEF ConnInit
<1>2. Names(queue) = <<"connect">>
  <2>1. "connect" \in Task /\ NameOf("connect") = "connect"
    BY DEF Task, NameOf
  <2> QED
    BY <1>1, <2>1, NamesOf
<1>3. LineNow = Line(<<"connect">>, FALSE, FALSE, <<>>)
  BY <1>1, <1>2, LineIs
<1>4. Dispatched(Allocated, "connect") = Line(<<"connect">>, FALSE, FALSE, <<>>)
  <2>1. Allocated = Line(<<>>, FALSE, FALSE, <<>>) /\ Allocated.queue = <<>>
    BY DEF Allocated, Line
  <2>2. Append(<<>>, "connect") = <<"connect">>
    OBVIOUS
  <2>3. [Line(<<>>, FALSE, FALSE, <<>>) EXCEPT !.queue = <<"connect">>] =
          Line(<<"connect">>, FALSE, FALSE, <<>>)
    <3>1. PICK q, r, f : q = <<"connect">> /\ r = <<>> /\ f = FALSE
      OBVIOUS
    <3>2. [Line(r, f, f, r) EXCEPT !.queue = q] = Line(q, f, f, r)
      BY DEF Line
    <3> QED
      BY <3>1, <3>2
  <2>4. Dispatched(Allocated, "connect") =
          [Allocated EXCEPT !.queue = Append(Allocated.queue, "connect")]
    BY Zenon DEF Dispatched
  <2> QED
    BY <2>1, <2>2, <2>3, <2>4
<1>5. ConnectFirst
  BY <1>1 DEF ConnectFirst, NoConnect
<1> QED
  BY <1>3, <1>4, <1>5

LEMMA LineKeptUncut ==
  ASSUME ~SplitSubOptions
  PROVE  ConnSpec => KeepsToLine
<1> DEFINE Inv == ConnTypeOK /\ Flow /\ PasswordOnce /\ ConnectFirst
<1>1. ConnInit => Inv /\ LineNow = Dispatched(Allocated, "connect")
  BY InitType, FlowInit, PasswordInit, KeepsInit
<1>2. Inv => FewSends
  BY FewWhenUncut
<1>3. Inv /\ [ConnNext]_connVars => Inv'
  BY <1>2, TypeStep, FlowStep, PasswordStep, KeepsStep
<1>4. Inv /\ [ConnNext]_connVars => [LineNow' \in Steps(LineNow)]_LineNow
  BY <1>2, KeepsStep DEF Keeps
<1> QED
  BY <1>1, <1>3, <1>4, PTL DEF ConnSpec, KeepsToLine

LEMMA LineKeptCut ==
  ASSUME NEW size \in Nat, \A m \in Message : Len(m) <= size,
         MaxMessages * size <= MaxFailures
  PROVE  ConnSpec => KeepsToLine
<1> DEFINE Inv == ConnTypeOK /\ Counted(size) /\ PasswordOnce /\ ConnectFirst
<1>1. ConnInit => Inv /\ LineNow = Dispatched(Allocated, "connect")
  BY InitType, CutInit, PasswordInit, KeepsInit
<1>2. Inv => FewSends
  BY FewWhenCounted
<1>3. Inv /\ [ConnNext]_connVars => Inv'
  BY <1>2, TypeStep, CountedStep, PasswordStep, KeepsStep
<1>4. Inv /\ [ConnNext]_connVars => [LineNow' \in Steps(LineNow)]_LineNow
  BY <1>2, KeepsStep DEF Keeps
<1> QED
  BY <1>1, <1>3, <1>4, PTL DEF ConnSpec, KeepsToLine

\* Every step of a connection is one TelnetLine allows: what the controller's
\* model assumes of a connection holds whatever the bytes are, CONNECTED at most
\* once and at most MaxFailures disconnects included (TelnetConnection.m). It is
\* so where TCP cuts no sub option, which nothing ensures, and where it cuts them
\* too if MaxFailures is no less than the bytes the server sends: a sub option
\* that is parsed as text may hold a request in every few bytes.
THEOREM LineKept ==
  ASSUME ~SplitSubOptions \/ BytesCounted
  PROVE  ConnSpec => KeepsToLine
<1>1. CASE ~SplitSubOptions
  BY <1>1, LineKeptUncut
<1>2. CASE BytesCounted
  <2>1. PICK size \in Nat : /\ \A m \in Message : Len(m) <= size
                            /\ MaxMessages * size <= MaxFailures
    BY <1>2 DEF BytesCounted
  <2> QED
    BY <2>1, LineKeptCut
<1> QED
  BY <1>1, <1>2
=============================================================================
