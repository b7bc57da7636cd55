------------------------------- MODULE Proxy --------------------------------
(***************************************************************************)
(* The connect of a telnet connection, straight or through a proxy: the    *)
(* choice in TelnetTerminal.m, ConnectionTcp.m, ProxyHttp.m, ProxySocks4.m,*)
(* ProxySocks5.m and ProxyTelnet.m, and resolveHost of NetworkHelpers.m.   *)
(*                                                                         *)
(* It runs on the queue of the connection, one call of recv per step.      *)
(* What the proxy sends arrives in cells (bytes; a run of text nobody      *)
(* looks into is one cell), and a recv takes what has arrived by then.     *)
(***************************************************************************)
EXTENDS Integers, Sequences, SequencesExt, FiniteSetsExt

CONSTANTS
  Confs,      \* what the user may have configured (Configuration)
  BufferSize, \* the buffer of the HTTP reply (256)
  HttpReplies \* the replies of an HTTP proxy that grants

VARIABLES
  conf,    \* what the user configured, and what the resolver would list
  pc,      \* where connect is
  socket,  \* arrived and not read
  search,  \* searchIndex and receiveIndex of the HTTP reply
  wire,    \* sent by the proxy and not arrived
  peer     \* the proxy: what it was asked and for which target, did it grant
           \* and with which address in its reply, has it closed
vars == <<conf, pc, socket, search, wire, peer>>

HostText == <<"t1", "t2", "t3">>

-----------------------------------------------------------------------------
(* isMatch and isProxyNeeded.                                              *)

Star == "*"
\* Where part is in s, not before from (offsets from zero); -1: nowhere.
Find(s, part, from) ==
    LET places == {i \in from..(Len(s) - Len(part)) :
                      SubSeq(s, i + 1, i + Len(part)) = part}
    IN  IF places = {} THEN -1 ELSE Min(places)

\* Variant: the search begins behind from.
FindNextStarBeyond(s, from) ==
    LET i == Find(s, <<Star>>, from + 1) IN IF i < 0 THEN Len(s) ELSE i
FindNextStar(s, from) ==
    LET i == Find(s, <<Star>>, from) IN IF i < 0 THEN Len(s) ELSE i

\* A round of the loop of isMatch, from excludedLocation e and hostLocation h:
\* rest has the hostLocations from which the rounds behind it return YES.
MatchRound(host, excluded, rest, e, h) ==
    LET last == Len(excluded)
        wild == FindNextStar(excluded, e)
        part == SubSeq(excluded, e + 1, wild)
        at   == Find(host, part, h)
    IN  IF e = last THEN TRUE
        ELSE IF e = 0 /\ wild = last THEN host = excluded
        ELSE IF part = <<>> THEN h \in rest[e + 1]
        ELSE IF e = 0 THEN at = 0 /\ Len(part) \in rest[wild + 1]
        ELSE IF wild = last
        THEN Len(host) - Len(part) >= h /\ IsSuffix(part, host)
        ELSE at >= 0 /\ at + Len(part) \in rest[wild + 1]

isMatch(host, excluded) ==
    LET Loop[e \in 0..Len(excluded)] ==
          {h \in 0..Len(host) : MatchRound(host, excluded, Loop, e, h)}
    IN  0 \in Loop[0]

\* "localhost", "127.*.*.*" and "::1", in fewer letters.
LocalHosts == {<<"l">>, <<"7", ".", Star, ".", Star>>, <<":", "1">>}

isProxyNeeded(c) ==
    /\ c.type # "none"
    /\ c.includeLocal \/ \A p \in LocalHosts : ~isMatch(c.names[1], p)
    /\ \A i \in DOMAIN c.names[2] : ~isMatch(c.names[1], c.names[2][i])

-----------------------------------------------------------------------------
(* resolveHost, and the address that is taken.                             *)

\* At most two addresses, in the order of the resolver.
resolveHost(list) == SubSeq(list, 1, Min({2, Len(list)}))

\* createSocketAndConnectToHost: is there an address to connect to.
Resolved(list) == resolveHost(list) # <<>>

\* The family the SOCKS and HTTP proxies are asked for; 0: none.
Selected(list) ==
    LET a == resolveHost(list)
    IN  IF a = <<>> THEN 0
        ELSE IF a[1] # 4 /\ Len(a) > 1 THEN a[2] ELSE a[1]

\* SOCKS4 takes the second address for an IPv4 one if the first one is not.
Socks4Address(list) ==
    LET a == resolveHost(list)
    IN  IF a = <<>> \/ (a[1] # 4 /\ Len(a) = 1) THEN 0 ELSE Selected(list)

\* What is written in the command of the proxy.
Target(c) ==
    CASE c.type = "socks4" -> Socks4Address(c.list)
      [] c.type = "http" /\ c.lookup = "local" -> Selected(c.list)
      [] c.type = "socks5" /\ c.lookup # "proxy" /\ Selected(c.list) # 0 ->
            Selected(c.list)
      [] OTHER -> 1     \* the name of the host

-----------------------------------------------------------------------------
\* A type of proxy, <<the host, the excluded patterns>>, the families of the
\* addresses getaddrinfo lists for the host, who is to look it up, and whether
\* there is a password for the proxy.
Configuration(types, names, lists) ==
    [type : types, names : names, includeLocal : BOOLEAN, list : lists,
     lookup : {"local", "proxy", "auto"}, password : BOOLEAN]

Type == {"none", "telnet", "http", "socks4", "socks5"}
Names == Seq(STRING) \X Seq(Seq(STRING))

EndOfReply == <<"\r", "\n", "\r", "\n">>

\* A reply of HTTP that grants: the first digit behind the first space is a 2
\* (refusals have a 4), and it ends with the first line that is empty.
GrantsHttp(r) ==
    /\ \E space, digit \in 1..(Len(r) - 4) :
          /\ space < digit /\ r[space] = " " /\ r[digit] = "2"
          /\ \A i \in 1..(space - 1) : r[i] # " "
          /\ \A i \in space..(digit - 1) : r[i] \notin {"2", "4"}
    /\ \A i \in 0..(Len(r) - 4) :
          SubSeq(r, i + 1, i + 4) = EndOfReply <=> i = Len(r) - 4

ASSUME ProxyAssumption ==
    /\ BufferSize \in Nat /\ BufferSize >= 6
    /\ Confs \subseteq Configuration(Type, Names, Seq({4, 6}))
    /\ HttpReplies \subseteq Seq(STRING) /\ \A r \in HttpReplies : GrantsHttp(r)

Init ==
    /\ conf \in Confs
    /\ pc = "start"
    /\ socket = <<>> /\ wire = <<>>
    /\ search = [at |-> 0, received |-> 0, spaceFound |-> FALSE]
    /\ peer = [asked |-> "nothing", target |-> 1, granted |-> FALSE,
                bound |-> 4, closed |-> FALSE]

\* The configuration once it has been used.
Used(c) == [c EXCEPT !.names = <<<<Star>>, <<>>>>,
                     !.includeLocal = TRUE,
                     !.type = IF isProxyNeeded(c) THEN c.type ELSE "none"]

Fails == pc' = "failed"     \* disconnect, and the result
Succeeds == pc' = "connected"
Asks(what) == peer' = [peer EXCEPT !.asked = what]

\* The next command of a dialogue: it may be too long, or its send may fail.
Sends(next) == \/ pc' = next /\ Asks(next)
               \/ Fails /\ UNCHANGED peer

\* connect up to the first command; SOCKS4 resolves the host before it
\* connects, SOCKS5 and HTTP after it.
Start ==
    LET c == Used(conf)
    IN  /\ pc = "start" /\ conf' = c
        /\ \/ Fails /\ UNCHANGED peer    \* no socket, nobody there, no send
           \/ /\ c.type = "socks4" => Socks4Address(c.list) # 0
              /\ pc' = CASE c.type \in {"none", "telnet"} -> "connected"
                         [] c.type = "socks5" -> "method"
                         [] OTHER -> c.type
              /\ peer' = [peer EXCEPT
                    !.asked = IF c.type = "socks5" THEN "method" ELSE c.type,
                    !.target = Target(c)]
        /\ UNCHANGED <<socket, search, wire>>

-----------------------------------------------------------------------------
(* recv of up to n bytes, in blocking mode: it waits for the first one.    *)

Ready == socket # <<>> \/ (peer.closed /\ wire = <<>>)
Taken(n) == SubSeq(socket, 1, Min({n, Len(socket)}))
Consume(n) == socket' = SubSeq(socket, n + 1, Len(socket))

\* The reply is refused if both bytes are wrong.
Socks4Accepts(r) == ~(r[1] # "0" /\ r[2] # "90")
Socks4Reply ==
    /\ pc = "socks4" /\ Ready /\ Consume(8)
    /\ IF Len(Taken(8)) = 8 /\ Socks4Accepts(Taken(8)) THEN Succeeds ELSE Fails
    /\ UNCHANGED <<conf, search, wire, peer>>

\* negotiateAuthenticationMethod.
MethodChosen ==
    /\ pc = "method" /\ Ready /\ Consume(2)
    /\ IF Len(Taken(2)) = 2 /\ socket[1] = "5" /\ socket[2] # "255"
       THEN LET next == IF socket[2] = "2" THEN "auth" ELSE "socks5"
            IN  Sends(next)
       ELSE Fails /\ UNCHANGED peer
    /\ UNCHANGED <<conf, search, wire>>

\* authenticateWithUsernamePasswordMethod.
Authenticated ==
    /\ pc = "auth" /\ Ready /\ Consume(2)
    /\ IF Len(Taken(2)) = 2 /\ socket[2] = "0"
       THEN Sends("socks5")
       ELSE Fails /\ UNCHANGED peer
    /\ UNCHANGED <<conf, search, wire>>

\* connectThroughProxy: the first five bytes of the reply.
Socks5Accepts(r) == r[1] = "5" /\ r[2] = "0" /\ r[4] \in {"1", "3", "4"}
Socks5Reply ==
    /\ pc = "socks5" /\ Ready /\ Consume(5)
    /\ IF Len(Taken(5)) = 5 /\ Socks5Accepts(Taken(5))
       THEN pc' = socket[4]
       ELSE Fails
    /\ UNCHANGED <<conf, search, wire, peer>>

\* The bytes behind them, by address type: a name of one byte, IPv4, IPv6.
\* Variant: the byte of the address that was read is read again.
RemainingLengthWhole(type) == CASE type = "3" -> 1 + 2
                                [] type = "1" -> 6
                                [] type = "4" -> 19
RemainingLength(type) == CASE type = "3" -> 1 + 2
                           [] type = "1" -> 5
                           [] type = "4" -> 19

Socks5Rest ==
    /\ pc \in {"1", "3", "4"} /\ Ready
    /\ LET n == RemainingLength(pc)
       IN  Consume(n) /\ IF Len(Taken(n)) = n THEN Succeeds ELSE Fails
    /\ UNCHANGED <<conf, search, wire, peer>>

-----------------------------------------------------------------------------
(* receiveReply of ProxyHttp: one round of a loop per step.  What is in    *)
(* the buffer is always what is at the beginning of the socket.            *)

Peeked == Min({BufferSize, Len(socket)})

\* The first of the cells in what, at or behind from; else the end.
FindNext(what, from, end) ==
    Min({end} \cup {i \in from..(end - 1) : socket[i + 1] \in what})

\* The search for the status code, as far as the data goes.
HttpStatus ==
    LET space == IF search.spaceFound THEN search.at
                 ELSE FindNext({" "}, search.at, Peeked)
        found == search.spaceFound \/ space < Peeked
        digit == IF found THEN FindNext({"2", "4"}, space, Peeked) ELSE space
    IN  /\ pc = "http" /\ Ready
        /\ IF Peeked = 0 THEN Fails /\ UNCHANGED search
           ELSE /\ search' = [at |-> digit, received |-> Peeked,
                              spaceFound |-> found]
                /\ IF digit < Peeked
                   THEN IF socket[digit + 1] = "2"
                        THEN pc' = "http end"
                        ELSE Fails
                   ELSE IF digit >= BufferSize THEN Fails
                   ELSE UNCHANGED pc
        /\ UNCHANGED <<conf, socket, wire, peer>>

Ends == {i \in search.at..(search.received - 4) :
            SubSeq(socket, i + 1, i + 4) = EndOfReply}

\* What receiveIn takes off the socket: once the end is found there, and to
\* make room in a buffer that is full.
RemovedAtEnd(i) == i + 3
\* Variant of the second: nothing makes room.
RemovedNever(at) == 0
RemovedWhenFull(at) == BufferSize - at

HttpEnd ==
    LET at == Max({search.at, search.received - 3})
        full == search.received >= BufferSize
        removed == IF full THEN RemovedWhenFull(at) ELSE 0
    IN  /\ pc = "http end"
        /\ IF Ends # {}
           THEN /\ Consume(RemovedAtEnd(Min(Ends))) /\ Succeeds
                /\ UNCHANGED search
           ELSE /\ Consume(removed) /\ UNCHANGED pc
                /\ search' = [search EXCEPT
                        !.at = IF full THEN 0 ELSE at,
                        !.received = Min({BufferSize, Len(socket) - removed})]
        /\ UNCHANGED <<conf, wire, peer>>

-----------------------------------------------------------------------------
(* The proxy and the network.                                              *)

Repeat(cell, n) == [i \in 1..n |-> cell]

\* The replies to a command, whether they grant it, and the address type of
\* those of SOCKS5.
Reply(cells, grants, bound) ==
    [cells |-> cells, grants |-> grants, bound |-> bound]
Replies(asked) ==
    CASE asked \in {"none", "telnet"} -> {Reply(<<>>, TRUE, 4)}
      [] asked = "http" ->
            {Reply(r, TRUE, 4) : r \in HttpReplies}
            \cup {Reply(<<"v", " ", "4", "\r", "\n", "\r", "\n">>, FALSE, 4),
                  Reply(Repeat("v", BufferSize), FALSE, 4)}
      [] asked = "socks4" ->
            {Reply(<<"0", "90">> \o Repeat("0", 6), TRUE, 4),
             Reply(<<"0", "91">> \o Repeat("0", 6), FALSE, 4)}
      [] asked = "method" ->
            {Reply(<<"5", m>>, FALSE, 4) : m \in
                {"0", "255"} \cup (IF conf.password THEN {"2"} ELSE {})}
      [] asked = "auth" -> {Reply(<<"1", s>>, FALSE, 4) : s \in {"0", "1"}}
      [] asked = "socks5" ->
            {Reply(<<"5", "0", "0", "1">> \o Repeat("a", 6), TRUE, 4),
             Reply(<<"5", "0", "0", "3", "1">> \o Repeat("a", 3), TRUE, 1),
             Reply(<<"5", "0", "0", "4">> \o Repeat("a", 18), TRUE, 6),
             Reply(<<"5", "4", "0", "1">> \o Repeat("a", 6), FALSE, 4)}

\* The proxy answers; if it grants, what the host sends comes behind.
ProxyAnswers ==
    /\ peer.asked # "nothing" /\ ~peer.closed
    /\ \E r \in Replies(peer.asked) :
          /\ wire' = wire \o r.cells \o (IF r.grants THEN HostText ELSE <<>>)
          /\ peer' = [peer EXCEPT !.asked = "nothing", !.granted = r.grants,
                                  !.bound = r.bound]
    /\ UNCHANGED <<conf, pc, socket, search>>

Arrives == /\ wire # <<>>
           /\ socket' = Append(socket, Head(wire)) /\ wire' = Tail(wire)
           /\ UNCHANGED <<conf, pc, search, peer>>

\* The proxy or the network ends the connection, behind what was sent or
\* behind what has arrived.
ProxyCloses == /\ ~peer.closed /\ pc \notin {"start", "failed"}
               /\ peer' = [peer EXCEPT !.closed = TRUE, !.asked = "nothing"]
               /\ \/ UNCHANGED wire
                  \/ wire # <<>> /\ wire' = <<>>
               /\ UNCHANGED <<conf, pc, socket, search>>

\* A recv or a peek of a dialogue fails: the network broke.
ReceiveFails == /\ pc \notin {"start", "connected", "failed"} /\ Fails
                /\ UNCHANGED <<conf, socket, search, wire, peer>>

Connect == \/ Start \/ Socks4Reply \/ MethodChosen
           \/ Authenticated \/ Socks5Reply \/ Socks5Rest
           \/ HttpStatus \/ HttpEnd
Next == Connect \/ ProxyAnswers \/ Arrives \/ ProxyCloses \/ ReceiveFails

Spec == Init /\ [][Next]_vars
\* The task of the queue goes on when recv returns; a proxy answers or closes
\* (nothing here times out), and the network delivers.
FairSpec == Spec /\ WF_vars(Connect) /\ WF_vars(ProxyAnswers)
                 /\ WF_vars(Arrives)

-----------------------------------------------------------------------------
(* Properties.                                                             *)

\* A wild card stands for any text: the reference for isMatch.  Rest[i] are
\* the places of the host behind which it is what the pattern says behind i.
MatchRest(host, cell, rest) ==
    {j \in 0..Len(host) :
        IF cell = Star THEN \E k \in j..Len(host) : k \in rest
        ELSE j < Len(host) /\ host[j + 1] = cell /\ j + 1 \in rest}
Matches(host, pattern) ==
    LET Rest[i \in 0..Len(pattern)] ==
          IF i = Len(pattern) THEN {Len(host)}
          ELSE MatchRest(host, pattern[i + 1], Rest[i + 1])
    IN  0 \in Rest[0]

\* A host goes round the proxy exactly when one of the patterns matches it,
\* or it is a local one; the exception is an empty component of the list (a
\* comma at its end), which matches every host (TelnetTerminal.m:148).
Excluded(c) ==
    \/ ~c.includeLocal /\ \E p \in LocalHosts : Matches(c.names[1], p)
    \/ \E i \in DOMAIN c.names[2] :
          c.names[2][i] = <<>> \/ Matches(c.names[1], c.names[2][i])
BypassIsExact ==
    isProxyNeeded(conf) <=> conf.type # "none" /\ ~Excluded(conf)

\* A proxy is never asked for another place than the host; the exceptions
\* are SOCKS4 for a host of two IPv6 addresses, which writes four bytes of
\* the second one (ProxySocks4.m:42), and HTTP for one that cannot be
\* resolved here, which writes no address (ProxyHttp.m:201).
WrongTarget ==
    \/ conf.type = "socks4" /\ Selected(conf.list) = 6
    \/ conf.type = "http" /\ conf.lookup = "local" /\ conf.list = <<>>

\* What of the reply and of the text is still to be read when connect
\* returns: HTTP leaves the last byte of the reply (ProxyHttp.m:137), and
\* SOCKS5 takes two bytes of the text along with an IPv6 reply, of which it
\* has read five of the 22 bytes when it asks for 19 more (ProxySocks5.m:191).
LeftToRead ==
    CASE conf.type = "http" -> <<"\n">> \o HostText
      [] conf.type = "socks5" /\ peer.bound = 6 -> SubSeq(HostText, 3, 3)
      [] OTHER -> HostText

\* When connect succeeds a proxy that replies has been asked for the host and
\* has granted it, whatever pieces its reply came in, and the terminal reads
\* what the host says from its first byte on: with the exceptions above, and
\* that of a SOCKS4 proxy that refuses (ProxySocks4.m:76).
\* ConnectionIsComplete is the same without the exceptions.
ConnectedIsTheHost ==
    pc = "connected" /\ conf.type # "none" =>
        /\ conf.type \in {"http", "socks5"} => peer.granted
        /\ conf.type = "socks4" /\ ~WrongTarget => peer.target = 4
        /\ conf.type \in {"http", "socks5"} /\ ~WrongTarget => peer.target # 0
        /\ peer.granted /\ ~peer.closed => socket \o wire = LeftToRead

\* Claimed, and violated in four ways: "Connection is complete"
\* (ProxySocks4.m:82, ProxySocks5.m:251, ProxyHttp.m:277).  A connection that
\* succeeds through a proxy is one that was asked for the host, and granted,
\* and what is left to read is what the host says, from its first byte on.
ConnectionIsComplete ==
    pc = "connected" /\ conf.type \in {"http", "socks4", "socks5"} =>
        /\ peer.granted
        /\ peer.target # 0 /\ (conf.type = "socks4" => peer.target = 4)
        /\ ~peer.closed => socket \o wire = HostText

\* connect ends, if the proxy says something or closes; the exception is a
\* reply of HTTP that is cut: a peek returns what there is for ever
\* (ProxyHttp.m:75, 129).
Cut == pc \in {"http", "http end"} /\ peer.closed /\ socket # <<>>
ConnectEnds == pc = "start" ~> (pc \in {"connected", "failed"} \/ Cut)
=============================================================================
