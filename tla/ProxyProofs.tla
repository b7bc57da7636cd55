----------------------------- MODULE ProxyProofs -----------------------------
(***************************************************************************)
(* What the terminal has when connect succeeds, for any hosts and lists of *)
(* addresses, any size of the buffer and any replies of HTTP; and who goes *)
(* round the proxy, for any host and any list of patterns.                 *)
(***************************************************************************)
EXTENDS Proxy, SequenceTheorems, WellFoundedInduction, TLAPS

(* A byte, or a run of text. *)
Cell == STRING \cup {"0", "1", "2", "3", "4", "5", "90", "91", "255",
                     "a", "v", " ", "\r", "\n", "t1", "t2", "t3"}

AReply == [cells : Seq(Cell), grants : BOOLEAN, bound : {1, 4, 6}]

(* All that the proxy sends when it grants, or refuses, with r. *)
All(r) == r.cells \o (IF r.grants THEN HostText ELSE <<>>)

(* What arrived and is not read, and what is on the way, are what is left of
   all from k on; the end of it may be missing if the connection closed. *)
Left(all, k) ==
  /\ k + Len(socket) + Len(wire) <= Len(all)
  /\ ~peer.closed => k + Len(socket) + Len(wire) = Len(all)
  /\ \A i \in 1..Len(socket) : socket[i] = all[k + i]
  /\ \A i \in 1..Len(wire) : wire[i] = all[k + Len(socket) + i]

(* A command, or a connection, that was not answered yet. *)
Unanswered(what) ==
  /\ socket = <<>> /\ wire = <<>> /\ ~peer.granted
  /\ peer.asked \in {what, "nothing"}

(* It was answered with r. *)
Answered(r) ==
  peer.asked = "nothing" /\ peer.granted = r.grants /\ peer.bound = r.bound

Socks == {"socks4", "method", "auth", "socks5"}
Waits(what) ==
  Unanswered(what) \/ \E r \in Replies(what) : Answered(r) /\ Left(All(r), 0)

(* How far the search for the status is in a reply that has it at digit,
   behind its first space. *)
Passed(r) ==
  \E space, digit \in 1..(Len(r) - 4) :
    /\ space < digit /\ r[space] = " " /\ r[digit] \in {"2", "4"}
    /\ \A i \in 1..(space - 1) : r[i] # " "
    /\ \A i \in space..(digit - 1) : r[i] \notin {"2", "4"}
    /\ search.at < digit
    /\ search.at >= space - 1 \/ ~search.spaceFound
    /\ search.at <= space - 1 \/ search.spaceFound

Searching ==
  \/ Unanswered("http") /\ search.at = 0 /\ ~search.spaceFound
  \/ \E r \in Replies("http") :
       /\ Answered(r) /\ Left(All(r), 0)
       /\ \/ Passed(r.cells)
          \/ r.cells = Repeat("v", BufferSize) /\ ~search.spaceFound

(* The end of the reply is in what is left, once, and not before the search. *)
EndAhead ==
  \E all \in Seq(Cell), k \in Nat, last \in Nat :
    /\ Left(all, k) /\ k + search.at <= last /\ last + 4 + Len(HostText) = Len(all)
    /\ \A i \in 0..(Len(all) - 4) :
         SubSeq(all, i + 1, i + 4) = EndOfReply <=> i = last
    /\ \A i \in 1..Len(HostText) : all[last + 4 + i] = HostText[i]

SearchTyped ==
  /\ search \in [at : Nat, received : Nat, spaceFound : BOOLEAN]
  /\ search.at <= search.received /\ search.received <= BufferSize
  /\ pc \in {"http", "http end"} => search.received <= Len(socket)

Ended ==
  \/ conf.type \in {"none", "telnet"} /\ Unanswered(conf.type)
  \/ /\ peer.asked = "nothing"
     /\ conf.type \in {"http", "socks5"} => peer.granted
     /\ peer.granted => Left(LeftToRead, 0)

Where ==
  /\ pc = "start" =>
       /\ Unanswered("nothing") /\ ~peer.closed /\ conf \in Confs
       /\ search = [at |-> 0, received |-> 0, spaceFound |-> FALSE]
  /\ \A dialogue \in Socks : pc = dialogue => Waits(dialogue)
  /\ pc \in {"1", "3", "4"} =>
       \E r \in Replies("socks5") :
         r.cells[4] = pc /\ r.grants /\ Answered(r) /\ Left(All(r), 5)
  /\ pc = "http" => Searching
  /\ pc = "http end" => peer.asked = "nothing" /\ peer.granted /\ EndAhead
  /\ pc = "connected" => Ended

Step == {"start", "http", "http end", "1", "3", "4", "connected", "failed"}
          \cup Socks
Commands == Type \cup {"method", "auth"}

Peer == [asked : Commands \cup {"nothing"}, target : {0, 1, 4, 6},
         granted : BOOLEAN, bound : {1, 4, 6}, closed : BOOLEAN]

(* Every reachable state. *)
Chosen ==
  /\ conf.type \in Type /\ conf.list \in Seq({4, 6})
  /\ pc \in Step
  /\ socket \in Seq(Cell) /\ wire \in Seq(Cell)
  /\ peer \in Peer
  /\ pc \in {"http", "http end"} => conf.type = "http"
  /\ pc = "socks4" => conf.type = "socks4"
  /\ pc \in {"method", "auth", "socks5", "1", "3", "4"} => conf.type = "socks5"
  /\ pc \notin {"start", "failed"} =>
       /\ peer.target = Target(conf)
       /\ conf.type = "socks4" => Socks4Address(conf.list) # 0

ProxyInv == Chosen /\ SearchTyped /\ Where

-----------------------------------------------------------------------------
(* Numbers, and pieces of sequences.                                       *)

LEMMA Smaller ==
  ASSUME NEW m \in Int, NEW n \in Int
  PROVE  Min({m, n}) = IF m <= n THEN m ELSE n
BY DEF Min

LEMMA Larger ==
  ASSUME NEW m \in Int, NEW n \in Int
  PROVE  Max({m, n}) = IF m >= n THEN m ELSE n
BY DEF Max

LEMMA Least ==
  ASSUME NEW S, S \subseteq Int, NEW n \in S, \A m \in S : n <= m
  PROVE  Min(S) = n
<1>1. \E x \in S : \A y \in S : x <= y
  OBVIOUS
<1>2. Min(S) \in S /\ \A y \in S : Min(S) <= y
  BY <1>1, Zenon DEF Min
<1>3. Min(S) \in Int /\ n \in Int /\ Min(S) <= n /\ n <= Min(S)
  BY <1>2
<1> QED
  BY <1>3

LEMMA Behind ==
  ASSUME NEW S, NEW s \in Seq(S), NEW n \in Nat
  PROVE  LET rest == SubSeq(s, n + 1, Len(s))
         IN  /\ rest \in Seq(S)
             /\ Len(rest) = IF n <= Len(s) THEN Len(s) - n ELSE 0
             /\ \A i \in 1..Len(rest) : rest[i] = s[n + i]
<1> DEFINE rest == SubSeq(s, n + 1, Len(s))
<1>1. rest \in Seq(S)
  BY SubSeqProperties
<1>2. Len(rest) = IF n <= Len(s) THEN Len(s) - n ELSE 0
  <2>1. Len(rest) = IF n + 1 <= Len(s) THEN Len(s) - (n + 1) + 1 ELSE 0
    BY SubSeqProperties
  <2> QED
    BY <2>1
<1>3. \A i \in 1..Len(rest) : rest[i] = s[n + i]
  <2>1. \A i \in 1..(Len(s) - (n + 1) + 1) : rest[i] = s[n + 1 + i - 1]
    BY SubSeqProperties
  <2>2. \A i \in 1..Len(rest) : /\ i \in 1..(Len(s) - (n + 1) + 1)
                               /\ n + 1 + i - 1 = n + i
    BY <1>2
  <2> QED
    BY <2>1, <2>2
<1> QED
  BY <1>1, <1>2, <1>3

LEMMA FirstTaken ==
  ASSUME NEW S, socket \in Seq(S), NEW n \in Nat
  PROVE  /\ Len(Taken(n)) = IF n <= Len(socket) THEN n ELSE Len(socket)
         /\ \A i \in 1..Len(Taken(n)) : Taken(n)[i] = socket[i]
<1> DEFINE m == Min({n, Len(socket)})
<1>1. m = IF n <= Len(socket) THEN n ELSE Len(socket)
  BY Smaller
<1>2. m \in Nat /\ m <= Len(socket)
  BY <1>1
<1>3. Taken(n) = SubSeq(socket, 1, m)
  BY DEF Taken
<1> HIDE DEF m
<1>4. \A i \in 1..m : socket[i] \in S
  BY <1>2
<1>5. /\ Len(SubSeq(socket, 1, m)) = IF 1 <= m THEN m - 1 + 1 ELSE 0
      /\ \A i \in 1..(m - 1 + 1) : SubSeq(socket, 1, m)[i] = socket[1 + i - 1]
  BY <1>2, <1>4, SubSeqProperties
<1>6. Len(SubSeq(socket, 1, m)) = m
  BY <1>2, <1>5
<1>7. \A i \in 1..m : SubSeq(socket, 1, m)[i] = socket[i]
  <2>1. \A i \in 1..m : i \in 1..(m - 1 + 1) /\ 1 + i - 1 = i
    BY <1>2
  <2> QED
    BY <2>1, <1>5
<1> QED
  BY <1>1, <1>3, <1>6, <1>7

LEMMA Lists ==
  ASSUME NEW S, NEW a \in S, NEW b \in S, NEW c \in S, NEW d \in S
  PROVE  /\ <<a, b>> \in Seq(S) /\ <<a, b, c>> \in Seq(S)
         /\ <<a, b, c, d>> \in Seq(S) /\ Len(<<a, b, c, d>>) = 4
OBVIOUS

LEMMA TextTyped ==
  HostText \in Seq(Cell) /\ Len(HostText) = 3
BY Lists DEF HostText, Cell

LEMMA Shape ==
  ASSUME NEW r \in AReply
  PROVE  r.cells \in Seq(Cell) /\ Len(r.cells) \in Nat /\ r.grants \in BOOLEAN
BY DEF AReply

LEMMA AllOf ==
  ASSUME NEW r \in AReply
  PROVE  /\ All(r) \in Seq(Cell)
         /\ Len(All(r)) = Len(r.cells) + (IF r.grants THEN 3 ELSE 0)
         /\ \A i \in 1..Len(r.cells) : All(r)[i] = r.cells[i]
         /\ r.grants => \A i \in 1..3 : All(r)[Len(r.cells) + i] = HostText[i]
<1> DEFINE text == IF r.grants THEN HostText ELSE <<>>
<1>1. text \in Seq(Cell) /\ Len(text) = IF r.grants THEN 3 ELSE 0
  <2>1. CASE r.grants
    BY <2>1, TextTyped
  <2>2. CASE ~r.grants
    BY <2>2, EmptySeq
  <2> QED
    BY <2>1, <2>2
<1>2. r.cells \in Seq(Cell) /\ Len(r.cells) \in Nat
  BY Shape
<1>3. All(r) = r.cells \o text
  BY DEF All
<1>4. r.grants => text = HostText
  OBVIOUS
<1> HIDE DEF text
<1> DEFINE cells == r.cells
<1> HIDE DEF cells
<1>5. /\ cells \o text \in Seq(Cell)
      /\ Len(cells \o text) = Len(cells) + Len(text)
      /\ \A i \in 1..(Len(cells) + Len(text)) :
           (cells \o text)[i] = IF i <= Len(cells) THEN cells[i]
                                                   ELSE text[i - Len(cells)]
  BY <1>1, <1>2, ConcatProperties DEF cells
<1>6. \A i \in 1..Len(cells) : All(r)[i] = cells[i]
  BY <1>3, <1>5, <1>1, <1>2 DEF cells
<1>7. ASSUME r.grants, NEW i \in 1..3
      PROVE  All(r)[Len(cells) + i] = HostText[i]
  <2>1. /\ Len(cells) + i \in 1..(Len(cells) + Len(text))
        /\ ~(Len(cells) + i <= Len(cells))
        /\ Len(cells) + i - Len(cells) = i
    BY <1>7, <1>1, <1>2 DEF cells
  <2>2. (cells \o text)[Len(cells) + i] = text[i]
    BY <2>1, <1>5
  <2> QED
    BY <2>2, <1>4, <1>7, <1>3 DEF cells
<1> QED
  BY <1>1, <1>3, <1>5, <1>6, <1>7 DEF cells

-----------------------------------------------------------------------------
(* What the proxy may answer.                                              *)

LEMMA RepeatOf ==
  ASSUME NEW S, NEW c \in S, NEW n \in Nat
  PROVE  Repeat(c, n) \in Seq(S) /\ Len(Repeat(c, n)) = n
BY DEF Repeat

LEMMA Joined ==
  ASSUME NEW S, NEW s \in Seq(S), NEW t \in Seq(S)
  PROVE  /\ s \o t \in Seq(S) /\ Len(s \o t) = Len(s) + Len(t)
         /\ \A i \in 1..Len(s) : (s \o t)[i] = s[i]
BY ConcatProperties

LEMMA AReplyOf ==
  ASSUME NEW c \in Seq(Cell), NEW g \in BOOLEAN, NEW b \in {1, 4, 6}
  PROVE  /\ Reply(c, g, b) \in AReply
         /\ Reply(c, g, b).cells = c /\ Reply(c, g, b).grants = g
         /\ Reply(c, g, b).bound = b
BY DEF Reply, AReply

LEMMA Socks4Replies ==
  ASSUME NEW r \in Replies("socks4")
  PROVE  r \in AReply /\ Len(r.cells) = 8
<1>1. PICK c \in {"90", "91"}, g \in BOOLEAN :
        r = Reply(<<"0", c>> \o Repeat("0", 6), g, 4)
  BY DEF Replies
<1> DEFINE head == <<"0", c>>
           zeros == Repeat("0", 6)
<1>2. head \in Seq(Cell) /\ zeros \in Seq(Cell)
  <2>1. "0" \in Cell /\ c \in Cell
    BY DEF Cell
  <2>2. head \in Seq(Cell)
    BY <2>1, Lists
  <2> QED
    BY <2>1, <2>2, RepeatOf
<1>3. Len(head) = 2 /\ Len(zeros) = 6
  BY DEF Repeat
<1> HIDE DEF head, zeros
<1>6. head \o zeros \in Seq(Cell) /\ Len(head \o zeros) = Len(head) + Len(zeros)
  BY <1>2, Joined
<1>4. head \o zeros \in Seq(Cell) /\ Len(head \o zeros) = 8
  BY <1>3, <1>6
<1>5. r = Reply(head \o zeros, g, 4)
  BY <1>1 DEF head, zeros
<1> QED
  BY <1>4, <1>5, AReplyOf

LEMMA ShortReplies ==
  ASSUME NEW what \in {"method", "auth"}, NEW r \in Replies(what)
  PROVE  r \in AReply /\ Len(r.cells) = 2 /\ ~r.grants
<1>1. PICK v \in {"1", "5"}, m \in {"0", "1", "2", "255"} :
        r = Reply(<<v, m>>, FALSE, 4)
  BY DEF Replies
<1>2. <<v, m>> \in Seq(Cell) /\ Len(<<v, m>>) = 2
  BY Lists DEF Cell
<1> QED
  BY <1>1, <1>2, AReplyOf

LEMMA Headed ==
  ASSUME NEW head \in Seq(Cell), NEW tail \in Seq(Cell),
         2 \in 1..Len(head), 4 \in 1..Len(head),
         NEW g \in BOOLEAN, NEW t \in {1, 4, 6}
  PROVE  LET r == Reply(head \o tail, g, t)
         IN  /\ r \in AReply /\ Len(r.cells) = Len(head) + Len(tail)
             /\ r.cells[2] = head[2] /\ r.cells[4] = head[4]
             /\ r.grants = g /\ r.bound = t
<1> DEFINE cells == head \o tail
<1>2. /\ cells \in Seq(Cell) /\ Len(cells) = Len(head) + Len(tail)
      /\ \A i \in 1..Len(head) : cells[i] = head[i]
  BY Joined
<1> HIDE DEF cells
<1>3. LET r == Reply(cells, g, t)
      IN  r \in AReply /\ r.cells = cells /\ r.grants = g /\ r.bound = t
  BY <1>2, AReplyOf
<1> QED
  BY <1>2, <1>3 DEF cells

LEMMA Socks5Replies ==
  ASSUME NEW r \in Replies("socks5")
  PROVE  /\ r \in AReply /\ Len(r.cells) >= 5
         /\ ~r.grants => r.cells[2] = "4"
         /\ r.grants => /\ r.cells[4] \in {"1", "3", "4"}
                        /\ Len(r.cells) = 5 + RemainingLength(r.cells[4])
                                            - (IF r.cells[4] = "4" THEN 2 ELSE 0)
                        /\ r.bound = 6 <=> r.cells[4] = "4"
<1>1. CASE r = Reply(<<"5", "0", "0", "1">> \o Repeat("a", 6), TRUE, 4)
  <2> DEFINE head == <<"5", "0", "0", "1">>
             tail == Repeat("a", 6)
  <2>1. head \in Seq(Cell) /\ tail \in Seq(Cell)
    BY Lists DEF Cell, Repeat
  <2>2. head[2] = "0" /\ head[4] = "1"
    OBVIOUS
  <2>3. Len(head) = 4 /\ Len(tail) = 6
    BY DEF Repeat
  <2>6. 2 \in 1..Len(head) /\ 4 \in 1..Len(head)
    BY <2>3
  <2>4. r = Reply(head \o tail, TRUE, 4)
    BY <1>1
  <2> HIDE DEF head, tail
  <2>5. /\ r \in AReply /\ Len(r.cells) = Len(head) + Len(tail)
        /\ r.cells[2] = head[2] /\ r.cells[4] = head[4]
        /\ r.grants = TRUE /\ r.bound = 4
    BY <2>1, <2>6, <2>4, Headed
  <2> QED
    BY <2>2, <2>3, <2>5 DEF RemainingLength
<1>2. CASE r = Reply(<<"5", "0", "0", "3", "1">> \o Repeat("a", 3), TRUE, 1)
  <2> DEFINE head == <<"5", "0", "0", "3", "1">>
             tail == Repeat("a", 3)
  <2>1. head \in Seq(Cell) /\ tail \in Seq(Cell)
    BY Lists DEF Cell, Repeat
  <2>2. head[2] = "0" /\ head[4] = "3"
    OBVIOUS
  <2>3. Len(head) = 5 /\ Len(tail) = 3
    BY DEF Repeat
  <2>6. 2 \in 1..Len(head) /\ 4 \in 1..Len(head)
    BY <2>3
  <2>4. r = Reply(head \o tail, TRUE, 1)
    BY <1>2
  <2> HIDE DEF head, tail
  <2>5. /\ r \in AReply /\ Len(r.cells) = Len(head) + Len(tail)
        /\ r.cells[2] = head[2] /\ r.cells[4] = head[4]
        /\ r.grants = TRUE /\ r.bound = 1
    BY <2>1, <2>6, <2>4, Headed
  <2> QED
    BY <2>2, <2>3, <2>5 DEF RemainingLength
<1>3. CASE r = Reply(<<"5", "0", "0", "4">> \o Repeat("a", 18), TRUE, 6)
  <2> DEFINE head == <<"5", "0", "0", "4">>
             tail == Repeat("a", 18)
  <2>1. head \in Seq(Cell) /\ tail \in Seq(Cell)
    BY Lists DEF Cell, Repeat
  <2>2. head[2] = "0" /\ head[4] = "4"
    OBVIOUS
  <2>3. Len(head) = 4 /\ Len(tail) = 18
    BY DEF Repeat
  <2>6. 2 \in 1..Len(head) /\ 4 \in 1..Len(head)
    BY <2>3
  <2>4. r = Reply(head \o tail, TRUE, 6)
    BY <1>3
  <2> HIDE DEF head, tail
  <2>5. /\ r \in AReply /\ Len(r.cells) = Len(head) + Len(tail)
        /\ r.cells[2] = head[2] /\ r.cells[4] = head[4]
        /\ r.grants = TRUE /\ r.bound = 6
    BY <2>1, <2>6, <2>4, Headed
  <2> QED
    BY <2>2, <2>3, <2>5 DEF RemainingLength
<1>4. CASE r = Reply(<<"5", "4", "0", "1">> \o Repeat("a", 6), FALSE, 4)
  <2> DEFINE head == <<"5", "4", "0", "1">>
             tail == Repeat("a", 6)
  <2>1. head \in Seq(Cell) /\ tail \in Seq(Cell)
    BY Lists DEF Cell, Repeat
  <2>2. head[2] = "4" /\ head[4] = "1"
    OBVIOUS
  <2>3. Len(head) = 4 /\ Len(tail) = 6
    BY DEF Repeat
  <2>6. 2 \in 1..Len(head) /\ 4 \in 1..Len(head)
    BY <2>3
  <2>4. r = Reply(head \o tail, FALSE, 4)
    BY <1>4
  <2> HIDE DEF head, tail
  <2>5. /\ r \in AReply /\ Len(r.cells) = Len(head) + Len(tail)
        /\ r.cells[2] = head[2] /\ r.cells[4] = head[4]
        /\ r.grants = FALSE /\ r.bound = 4
    BY <2>1, <2>6, <2>4, Headed
  <2> QED
    BY <2>2, <2>3, <2>5 DEF RemainingLength
<1> QED
  BY <1>1, <1>2, <1>3, <1>4 DEF Replies

LEMMA NoReplies ==
  ASSUME NEW what \in {"none", "telnet"}, NEW r \in Replies(what)
  PROVE  r \in AReply /\ Len(r.cells) = 0 /\ r.grants /\ r.bound = 4
<1>1. r = Reply(<<>>, TRUE, 4)
  BY DEF Replies
<1>2. <<>> \in Seq(Cell) /\ Len(<<>>) = 0
  BY EmptySeq
<1> QED
  BY <1>1, <1>2, AReplyOf

Refusal == <<"v", " ", "4", "\r", "\n", "\r", "\n">>

LEMMA RepliesOfHttp ==
  ASSUME NEW r \in Replies("http")
  PROVE  /\ r \in AReply /\ r.bound = 4
         /\ r.grants => r.cells \in HttpReplies
         /\ ~r.grants => r.cells \in {Refusal, Repeat("v", BufferSize)}
<1>1. CASE \E c \in HttpReplies : r = Reply(c, TRUE, 4)
  <2>1. \A c \in HttpReplies : c \in Seq(Cell)
    <3>1. STRING \subseteq Cell
      BY DEF Cell
    <3>2. \A c \in Seq(STRING) : c \in Seq(Cell)
      BY <3>1, SeqMonotonic
    <3> QED
      BY <3>2, ProxyAssumption
  <2>2. PICK c \in HttpReplies : r = Reply(c, TRUE, 4)
    BY <1>1
  <2>3. c \in Seq(Cell)
    BY <2>1
  <2> QED
    BY <2>2, <2>3, AReplyOf
<1>2. CASE r = Reply(Refusal, FALSE, 4)
  <2>1. Refusal \in Seq(Cell)
    BY DEF Refusal, Cell
  <2> QED
    BY <1>2, <2>1, AReplyOf
<1>3. CASE r = Reply(Repeat("v", BufferSize), FALSE, 4)
  <2>1. Repeat("v", BufferSize) \in Seq(Cell)
    <3>1. "v" \in Cell
      BY DEF Cell
    <3> QED
      BY <3>1, ProxyAssumption, RepeatOf
  <2> QED
    BY <1>3, <2>1, AReplyOf
<1> QED
  BY <1>1, <1>2, <1>3 DEF Replies, Refusal

LEMMA AnyReply ==
  ASSUME NEW what \in Commands, NEW r \in Replies(what)
  PROVE  r \in AReply
BY NoReplies, RepliesOfHttp, Socks4Replies, ShortReplies, Socks5Replies
   DEF Commands, Type

-----------------------------------------------------------------------------
(* What is left when something is read, arrives, is lost, or is sent.      *)

LEMMA ReadLeaves ==
  ASSUME NEW all \in Seq(Cell), NEW k \in Nat, NEW n \in Nat,
         socket \in Seq(Cell), wire \in Seq(Cell),
         Left(all, k), n <= Len(socket), Consume(n), wire' = wire,
         peer'.closed = peer.closed
  PROVE  Left(all, k + n)'
<1>1. /\ Len(socket') = Len(socket) - n
      /\ \A i \in 1..Len(socket') : socket'[i] = socket[n + i]
  BY Behind DEF Consume
<1>2. Len(socket) \in Nat /\ Len(wire) \in Nat /\ Len(all) \in Nat
  OBVIOUS
<1>3. /\ k + n + Len(socket') + Len(wire) = k + Len(socket) + Len(wire)
      /\ k + n + Len(socket') = k + Len(socket)
  BY <1>1, <1>2
<1>4. \A i \in 1..Len(socket') : socket'[i] = all[k + n + i]
  <2> SUFFICES ASSUME NEW i \in 1..Len(socket')
               PROVE  socket'[i] = all[k + n + i]
    OBVIOUS
  <2>1. n + i \in 1..Len(socket) /\ k + (n + i) = k + n + i
    BY <1>1, <1>2
  <2>2. socket[n + i] = all[k + (n + i)]
    BY <2>1 DEF Left
  <2> QED
    BY <1>1, <2>1, <2>2
<1>5. \A i \in 1..Len(wire) : wire[i] = all[k + n + Len(socket') + i]
  BY <1>3 DEF Left
<1> QED
  BY <1>3, <1>4, <1>5 DEF Left

LEMMA ArrivalLeaves ==
  ASSUME NEW all \in Seq(Cell), NEW k \in Nat,
         socket \in Seq(Cell), wire \in Seq(Cell), Left(all, k), Arrives
  PROVE  Left(all, k)'
<1>1. /\ Len(socket') = Len(socket) + 1
      /\ \A i \in 1..Len(socket) : socket'[i] = socket[i]
      /\ socket'[Len(socket) + 1] = Head(wire)
  BY AppendProperties DEF Arrives
<1>2. Len(wire') = Len(wire) - 1 /\ \A i \in 1..Len(wire') : wire'[i] = wire[i + 1]
  BY HeadTailProperties DEF Arrives
<1>3. Head(wire) = wire[1] /\ 1 \in 1..Len(wire)
  BY EmptySeq DEF Arrives
<1>4. Len(socket) \in Nat /\ Len(wire) \in Nat /\ Len(all) \in Nat /\ peer' = peer
  BY DEF Arrives
<1>5. k + Len(socket') + Len(wire') = k + Len(socket) + Len(wire)
  BY <1>1, <1>2, <1>4
<1>6. \A i \in 1..Len(socket') : socket'[i] = all[k + i]
  <2> SUFFICES ASSUME NEW i \in 1..Len(socket')
               PROVE  socket'[i] = all[k + i]
    OBVIOUS
  <2>1. CASE i \in 1..Len(socket)
    BY <2>1, <1>1 DEF Left
  <2>2. CASE i = Len(socket) + 1
    <3>1. wire[1] = all[k + Len(socket) + 1]
      BY <1>3 DEF Left
    <3>2. k + Len(socket) + 1 = k + (Len(socket) + 1)
      BY <1>4
    <3> QED
      BY <2>2, <3>1, <3>2, <1>1, <1>3
  <2> QED
    BY <2>1, <2>2, <1>1, <1>4
<1>7. \A i \in 1..Len(wire') : wire'[i] = all[k + Len(socket') + i]
  <2> SUFFICES ASSUME NEW i \in 1..Len(wire')
               PROVE  wire'[i] = all[k + Len(socket') + i]
    OBVIOUS
  <2>1. i + 1 \in 1..Len(wire) /\ k + Len(socket) + (i + 1) = k + Len(socket') + i
    BY <1>1, <1>2, <1>4
  <2>2. wire[i + 1] = all[k + Len(socket) + (i + 1)]
    BY <2>1 DEF Left
  <2> QED
    BY <1>2, <2>1, <2>2
<1> QED
  BY <1>4, <1>5, <1>6, <1>7 DEF Left

LEMMA LossLeaves ==
  ASSUME NEW all \in Seq(Cell), NEW k \in Nat,
         socket \in Seq(Cell), wire \in Seq(Cell), Left(all, k), ProxyCloses,
         peer \in Peer
  PROVE  Left(all, k)'
<1>1. peer'.closed /\ socket' = socket /\ Len(socket) \in Nat /\ Len(all) \in Nat
  BY DEF ProxyCloses, Peer
<1>2. CASE wire' = wire
  BY <1>1, <1>2 DEF Left
<1>3. CASE wire' = <<>>
  <2>1. Len(wire') = 0 /\ Len(wire) \in Nat
    BY <1>3, EmptySeq
  <2>2. k + Len(socket') + Len(wire') <= Len(all)
    BY <2>1, <1>1 DEF Left
  <2>3. \A i \in 1..Len(wire') : wire'[i] = all[k + Len(socket') + i]
    BY <2>1
  <2> QED
    BY <2>2, <2>3, <1>1 DEF Left
<1> QED
  BY <1>2, <1>3 DEF ProxyCloses

LEMMA SameLeft ==
  ASSUME NEW all, NEW k, Left(all, k), UNCHANGED <<socket, wire>>,
         peer'.closed = peer.closed
  PROVE  Left(all, k)'
BY DEF Left

LEMMA AllIsLeft ==
  ASSUME NEW all \in Seq(Cell), socket = <<>>, socket' = socket, wire' = all
  PROVE  Left(all, 0)'
<1>1. Len(socket') = 0 /\ Len(all) \in Nat
  BY EmptySeq
<1> QED
  BY <1>1 DEF Left

LEMMA AnswerLeaves ==
  ASSUME NEW r \in AReply, socket = <<>>, wire = <<>>, socket' = socket,
         wire' = wire \o r.cells \o (IF r.grants THEN HostText ELSE <<>>)
  PROVE  Left(All(r), 0)' /\ wire' \in Seq(Cell)
<1>1. wire' = All(r)
  <2>1. r.cells \in Seq(Cell)
    BY DEF AReply
  <2>2. <<>> \o r.cells = r.cells
    BY <2>1, ConcatEmptySeq
  <2> QED
    BY <2>2 DEF All
<1>2. All(r) \in Seq(Cell)
  BY AllOf
<1> QED
  BY <1>1, <1>2, AllIsLeft

-----------------------------------------------------------------------------
(* The steps.                                                              *)

LEMMA Selection ==
  ASSUME NEW list \in Seq({4, 6})
  PROVE  /\ Selected(list) \in {0, 4, 6}
         /\ list # <<>> => Selected(list) # 0
         /\ Socks4Address(list) \in {0, Selected(list)}
<1> DEFINE a == resolveHost(list)
<1>1. a \in Seq({4, 6}) /\ (list # <<>> => a # <<>>)
  <2> DEFINE n == Min({2, Len(list)})
  <2>1. n = IF 2 <= Len(list) THEN 2 ELSE Len(list)
    BY Smaller
  <2>2. n \in Nat /\ n <= Len(list) /\ (list # <<>> => n # 0)
    BY <2>1, EmptySeq
  <2>3. a = SubSeq(list, 1, n)
    BY DEF resolveHost
  <2> HIDE DEF n
  <2>4. \A i \in 1..n : list[i] \in {4, 6}
    BY <2>2
  <2>5. SubSeq(list, 1, n) \in Seq({4, 6})
        /\ Len(SubSeq(list, 1, n)) = IF 1 <= n THEN n - 1 + 1 ELSE 0
    BY <2>2, <2>4, SubSeqProperties
  <2> QED
    BY <2>2, <2>3, <2>5, EmptySeq
<1> HIDE DEF a
<1>2. a # <<>> => a[1] \in {4, 6}
  BY <1>1, EmptySeq
<1>3. Len(a) > 1 => a[2] \in {4, 6}
  BY <1>1
<1> QED
  BY <1>1, <1>2, <1>3 DEF Selected, Socks4Address, a

LEMMA SameReplies ==
  ASSUME conf' = conf, NEW what
  PROVE  Replies(what)' = Replies(what)
BY DEF Replies

LEMMA Begins ==
  Init => ProxyInv
<1> SUFFICES ASSUME Init
             PROVE  ProxyInv
  OBVIOUS
<1>1. conf.type \in Type /\ conf.list \in Seq({4, 6}) /\ conf \in Confs
  BY ProxyAssumption DEF Init, Configuration
<1>2. socket = <<>> /\ wire = <<>> /\ <<>> \in Seq(Cell) /\ pc = "start"
  BY EmptySeq DEF Init
<1>3. peer \in Peer /\ ~peer.granted /\ peer.asked = "nothing" /\ ~peer.closed
  BY DEF Init, Peer
<1>4. Chosen
  BY <1>1, <1>2, <1>3 DEF Chosen, Step
<1>5. search = [at |-> 0, received |-> 0, spaceFound |-> FALSE]
  BY DEF Init
<1>6. SearchTyped
  BY <1>2, <1>5, ProxyAssumption DEF SearchTyped
<1>7. Where
  BY <1>1, <1>2, <1>3, <1>5 DEF Where, Unanswered, Socks
<1> QED
  BY <1>4, <1>6, <1>7 DEF ProxyInv

LEMMA TargetKnown ==
  ASSUME NEW c, c.list \in Seq({4, 6})
  PROVE  Target(c) \in {0, 1, 4, 6}
<1>1. Selected(c.list) \in {0, 4, 6} /\ Socks4Address(c.list) \in {0, 4, 6}
  BY Selection
<1> QED
  BY <1>1 DEF Target

(* The rest of the text is left, once all else has been read. *)
LEMMA RestIsLeft ==
  ASSUME NEW all \in Seq(Cell), NEW k \in Nat, NEW rest \in Seq(Cell),
         Len(all) = k + Len(rest), \A i \in 1..Len(rest) : all[k + i] = rest[i],
         socket' \in Seq(Cell), wire' \in Seq(Cell), Left(all, k)'
  PROVE  Left(rest, 0)'
<1>1. /\ Len(socket') \in Nat /\ Len(wire') \in Nat /\ Len(rest) \in Nat
      /\ k + Len(socket') + Len(wire') <= Len(all)
      /\ ~peer'.closed => k + Len(socket') + Len(wire') = Len(all)
  BY DEF Left
<1>2. /\ Len(socket') + Len(wire') <= Len(rest)
      /\ ~peer'.closed => Len(socket') + Len(wire') = Len(rest)
  BY <1>1
<1>3. ASSUME NEW i \in 1..Len(socket')
      PROVE  socket'[i] = rest[0 + i]
  <2>1. i \in 1..Len(rest) /\ 0 + i = i
    BY <1>1, <1>2
  <2>2. socket'[i] = all[k + i]
    BY DEF Left
  <2> QED
    BY <2>1, <2>2
<1>4. ASSUME NEW i \in 1..Len(wire')
      PROVE  wire'[i] = rest[0 + Len(socket') + i]
  <2>1. /\ Len(socket') + i \in 1..Len(rest)
        /\ k + Len(socket') + i = k + (Len(socket') + i)
        /\ 0 + Len(socket') + i = Len(socket') + i
    BY <1>1, <1>2
  <2>2. wire'[i] = all[k + Len(socket') + i]
    BY DEF Left
  <2> QED
    BY <2>1, <2>2
<1>5. /\ 0 + Len(socket') + Len(wire') <= Len(rest)
      /\ ~peer'.closed => 0 + Len(socket') + Len(wire') = Len(rest)
  BY <1>1, <1>2
<1> QED
  BY <1>3, <1>4, <1>5 DEF Left

LEMMA Failed ==
  ASSUME ProxyInv, pc' = "failed", socket' \in Seq(Cell), wire' = wire,
         search' = search, peer' \in Peer,
         conf'.type \in Type, conf'.list \in Seq({4, 6})
  PROVE  ProxyInv'
BY DEF ProxyInv, Chosen, SearchTyped, Where, Step, Socks

LEMMA AtDialogue ==
  ASSUME NEW dialogue \in Socks, pc' = dialogue, Waits(dialogue)'
  PROVE  Where'
BY DEF Where, Socks

LEMMA AtRest ==
  ASSUME pc' \in {"1", "3", "4"},
         (\E r \in Replies("socks5") :
            r.cells[4] = pc /\ r.grants /\ Answered(r) /\ Left(All(r), 5))'
  PROVE  Where'
BY DEF Where, Socks

LEMMA AtHttp ==
  ASSUME pc' = "http", Searching'
  PROVE  Where'
BY DEF Where, Socks

LEMMA AtHttpEnd ==
  ASSUME pc' = "http end", peer'.asked = "nothing", peer'.granted, EndAhead'
  PROVE  Where'
BY DEF Where, Socks

LEMMA AtConnected ==
  ASSUME pc' = "connected", Ended'
  PROVE  Where'
BY DEF Where, Socks

LEMMA StartKeeps ==
  ASSUME ProxyInv, Start
  PROVE  ProxyInv'
<1> DEFINE c == Used(conf)
<1>1. /\ conf \in Confs /\ socket = <<>> /\ wire = <<>> /\ ~peer.granted
      /\ search = [at |-> 0, received |-> 0, spaceFound |-> FALSE]
      /\ ~peer.closed /\ peer \in Peer /\ peer.asked = "nothing"
  BY DEF ProxyInv, Chosen, Where, Start, Unanswered
<1>2. c.type \in Type /\ c.list \in Seq({4, 6})
  <2>1. conf \in Configuration(Type, Names, Seq({4, 6}))
    BY <1>1, ProxyAssumption
  <2> QED
    BY <2>1 DEF Used, Configuration, Type
<1> HIDE DEF c
<1>3. conf' = c /\ UNCHANGED <<socket, search, wire>>
  BY DEF Start, c
<1>4. socket' \in Seq(Cell) /\ wire' = wire /\ search' = search
  BY <1>1, <1>3, EmptySeq
<1>5. CASE Fails /\ UNCHANGED peer
  BY <1>1, <1>2, <1>3, <1>4, <1>5, Failed DEF Fails
<1>6. CASE ~(Fails /\ UNCHANGED peer)
  <2>1. /\ c.type = "socks4" => Socks4Address(c.list) # 0
        /\ pc' = CASE c.type \in {"none", "telnet"} -> "connected"
                   [] c.type = "socks5" -> "method"
                   [] OTHER -> c.type
        /\ peer' = [peer EXCEPT
              !.asked = IF c.type = "socks5" THEN "method" ELSE c.type,
              !.target = Target(c)]
    BY <1>6 DEF Start, c
  <2>2. Target(c) \in {0, 1, 4, 6}
    BY <1>2, TargetKnown
  <2>3. /\ peer'.asked = IF c.type = "socks5" THEN "method" ELSE c.type
        /\ peer'.target = Target(c) /\ ~peer'.granted /\ peer' \in Peer
    BY <1>1, <1>2, <2>1, <2>2 DEF Peer, Commands, Type
  <2>4. /\ c.type \in {"none", "telnet"} => pc' = "connected"
        /\ c.type = "socks5" => pc' = "method"
        /\ c.type \in {"http", "socks4"} => pc' = c.type
    BY <2>1
  <2>5. Chosen'
    BY <1>1, <1>2, <1>3, <1>4, <2>1, <2>3, <2>4
       DEF ProxyInv, Chosen, Step, Socks, Type
  <2>6. search'.received = 0 /\ Len(socket') \in Nat
    BY <1>1, <1>3, <1>4
  <2>12. search'.received <= Len(socket')
    BY <2>6
  <2>7. SearchTyped'
    BY <1>3, <2>12 DEF ProxyInv, SearchTyped
  <2>8. \A what : peer'.asked \in {what, "nothing"} => Unanswered(what)'
    BY <1>1, <1>3, <2>3 DEF Unanswered
  <2>9. ASSUME c.type \in {"none", "telnet"}
        PROVE  Where'
    <3>1. Ended'
      BY <1>3, <2>3, <2>8, <2>9 DEF Ended
    <3> QED
      BY <3>1, <2>4, <2>9, AtConnected
  <2>10. ASSUME c.type \in {"socks4", "socks5"}
         PROVE  Where'
    <3>1. \E dialogue \in Socks : pc' = dialogue /\ Unanswered(dialogue)'
      BY <2>3, <2>4, <2>8, <2>10 DEF Socks
    <3>2. PICK dialogue \in Socks : pc' = dialogue /\ Unanswered(dialogue)'
      BY <3>1
    <3>3. Waits(dialogue)'
      BY <3>2 DEF Waits
    <3> QED
      BY <3>2, <3>3, AtDialogue
  <2>11. ASSUME c.type = "http"
         PROVE  Where'
    <3>1. Searching'
      BY <1>1, <1>3, <2>3, <2>8, <2>11 DEF Searching
    <3> QED
      BY <3>1, <2>4, <2>11, AtHttp
  <2> QED
    BY <1>2, <2>5, <2>7, <2>9, <2>10, <2>11 DEF ProxyInv, Type
<1> QED
  BY <1>5, <1>6

(* What a recv of n bytes leaves of the answer, if it gets them. *)
LEMMA Received ==
  ASSUME ProxyInv, NEW what \in Socks, pc = what, NEW n \in Nat,
         Len(Taken(n)) = n, n # 0, Consume(n),
         wire' = wire, peer'.closed = peer.closed
  PROVE  \E r \in Replies(what) :
           /\ r \in AReply /\ Answered(r) /\ Left(All(r), n)'
           /\ n <= Len(socket) /\ Left(All(r), 0)
<1>1. socket \in Seq(Cell) /\ wire \in Seq(Cell) /\ Waits(what)
  BY DEF ProxyInv, Chosen, Where
<1>2. n <= Len(socket)
  BY <1>1, FirstTaken
<1>3. ~Unanswered(what)
  BY <1>2, EmptySeq DEF Unanswered
<1>4. PICK r \in Replies(what) : Answered(r) /\ Left(All(r), 0)
  BY <1>1, <1>3 DEF Waits
<1>5. r \in AReply /\ All(r) \in Seq(Cell)
  BY AnyReply, AllOf DEF Socks, Commands, Type
<1>6. Left(All(r), 0 + n)'
  BY <1>1, <1>2, <1>4, <1>5, ReadLeaves
<1> QED
  BY <1>2, <1>4, <1>5, <1>6

LEMMA ReadTyped ==
  ASSUME socket \in Seq(Cell), NEW n \in Nat, Consume(n)
  PROVE  socket' \in Seq(Cell)
BY Behind DEF Consume

LEMMA Socks4Keeps ==
  ASSUME ProxyInv, Socks4Reply
  PROVE  ProxyInv'
<1>1. /\ pc = "socks4" /\ "socks4" \in Socks /\ Consume(8)
      /\ UNCHANGED <<conf, search, wire, peer>>
  BY DEF Socks4Reply, Socks
<1>2. socket' \in Seq(Cell)
  BY <1>1, ReadTyped DEF ProxyInv, Chosen
<1>3. CASE Fails
  BY <1>1, <1>2, <1>3, Failed DEF Fails, ProxyInv, Chosen
<1>4. CASE ~Fails
  <2>1. Len(Taken(8)) = 8 /\ pc' = "connected"
    BY <1>4 DEF Socks4Reply, Succeeds
  <2>7. PICK what \in Socks, n \in Nat : what = "socks4" /\ n = 8
    BY <1>1
  <2>8. wire' = wire /\ peer'.closed = peer.closed
    BY <1>1
  <2>10. Consume(n) /\ Len(Taken(n)) = n /\ n # 0 /\ pc = what
    <3>1. Consume(n)
      BY <1>1, <2>7 DEF Consume
    <3>2. Len(Taken(n)) = n
      BY <2>1, <2>7
    <3> QED
      BY <3>1, <3>2, <1>1, <2>7
  <2>9. \E r \in Replies(what) : r \in AReply /\ Answered(r) /\ Left(All(r), n)'
    BY <2>8, <2>10, Received
  <2>2. PICK r \in Replies("socks4") : r \in AReply /\ Answered(r) /\ Left(All(r), 8)'
    BY <2>7, <2>9
  <2>3. conf.type = "socks4"
    BY <1>1 DEF ProxyInv, Chosen
  <2>4. ASSUME r.grants
        PROVE  Left(LeftToRead, 0)'
    <3>4. Len(r.cells) = 8 /\ Len(HostText) = 3
      BY <2>2, Socks4Replies, TextTyped
    <3>5. /\ All(r) \in Seq(Cell) /\ Len(All(r)) = Len(r.cells) + 3
          /\ \A i \in 1..3 : All(r)[Len(r.cells) + i] = HostText[i]
      BY <2>4, <2>2, AllOf
    <3>1. /\ All(r) \in Seq(Cell) /\ Len(All(r)) = 8 + Len(HostText)
          /\ \A i \in 1..Len(HostText) : All(r)[8 + i] = HostText[i]
      BY <3>4, <3>5
    <3>2. Left(HostText, 0)'
      BY <3>1, <2>2, <1>1, <1>2, RestIsLeft, TextTyped DEF ProxyInv, Chosen
    <3>3. LeftToRead' = HostText
      BY <2>3, <1>1 DEF LeftToRead
    <3> QED
      BY <3>2, <3>3, <1>1 DEF Left
  <2>5. Ended'
    BY <1>1, <2>2, <2>3, <2>4 DEF Ended, Answered
  <2>6. Chosen' /\ SearchTyped'
    BY <1>1, <1>2, <2>1, <2>3 DEF ProxyInv, Chosen, SearchTyped, Step, Socks
  <2> QED
    BY <2>1, <2>5, <2>6, AtConnected DEF ProxyInv
<1> QED
  BY <1>3, <1>4

(* A reply of two bytes has been read. *)
LEMMA ReadToTheEnd ==
  ASSUME ProxyInv, NEW what \in {"method", "auth"}, pc = what,
         NEW n \in Nat, n = 2, Len(Taken(n)) = n, Consume(n), wire' = wire,
         peer'.closed = peer.closed
  PROVE  socket' = <<>> /\ wire' = <<>> /\ ~peer.granted
<1>1. what \in Socks /\ n # 0
  BY DEF Socks
<1>2. PICK r \in Replies(what) : r \in AReply /\ Answered(r) /\ Left(All(r), n)'
  BY <1>1, Received
<1>3. Len(r.cells) = 2 /\ ~r.grants
  BY ShortReplies
<1>8. Len(All(r)) = Len(r.cells) + (IF r.grants THEN 3 ELSE 0)
  BY <1>2, AllOf
<1>4. Len(All(r)) = 2
  BY <1>3, <1>8
<1>5. socket' \in Seq(Cell) /\ wire' \in Seq(Cell)
  BY ReadTyped DEF ProxyInv, Chosen
<1>6. n + Len(socket') + Len(wire') <= Len(All(r))
  BY <1>2 DEF Left
<1>7. Len(socket') = 0 /\ Len(wire') = 0
  BY <1>4, <1>5, <1>6
<1> QED
  BY <1>2, <1>3, <1>5, <1>7, EmptySeq DEF Answered

(* The next command of SOCKS5. *)
LEMMA NextCommand ==
  ASSUME ProxyInv, pc \in {"method", "auth"}, NEW next \in {"auth", "socks5"},
         pc' = next, Asks(next), UNCHANGED <<conf, search>>,
         socket' = <<>>, wire' = <<>>, ~peer.granted
  PROVE  ProxyInv'
<1>1. /\ peer'.asked = next /\ ~peer'.granted /\ peer' \in Peer
      /\ peer'.target = peer.target
  BY DEF Asks, ProxyInv, Chosen, Peer, Commands
<1>2. <<>> \in Seq(Cell)
  BY EmptySeq
<1>3. Chosen'
  BY <1>1, <1>2 DEF ProxyInv, Chosen, Step, Socks
<1>4. SearchTyped'
  BY DEF ProxyInv, SearchTyped
<1>5. Waits(next)'
  BY <1>1 DEF Waits, Unanswered
<1> QED
  BY <1>3, <1>4, <1>5, AtDialogue DEF ProxyInv, Socks

LEMMA MethodKeeps ==
  ASSUME ProxyInv, MethodChosen
  PROVE  ProxyInv'
<1>1. pc = "method" /\ Consume(2) /\ UNCHANGED <<conf, search, wire>>
  BY DEF MethodChosen
<1>2. socket' \in Seq(Cell)
  BY <1>1, ReadTyped DEF ProxyInv, Chosen
<1>3. CASE Fails /\ UNCHANGED peer
  BY <1>1, <1>2, <1>3, Failed DEF Fails, ProxyInv, Chosen
<1>4. CASE ~(Fails /\ UNCHANGED peer)
  <2>1. Len(Taken(2)) = 2
    BY <1>4 DEF MethodChosen
  <2>2. PICK next \in {"auth", "socks5"} : pc' = next /\ Asks(next)
    BY <1>4 DEF MethodChosen, Sends
  <2>3. peer'.closed = peer.closed
    BY <2>2 DEF Asks, ProxyInv, Chosen, Peer
  <2>4. PICK n \in Nat : n = 2
    OBVIOUS
  <2>5. Consume(n)
    BY <1>1, <2>4 DEF Consume
  <2>6. Len(Taken(n)) = n
    BY <2>1, <2>4
  <2>7. socket' = <<>> /\ wire' = <<>> /\ ~peer.granted
    BY <1>1, <2>3, <2>4, <2>5, <2>6, ReadToTheEnd
  <2> QED
    BY <1>1, <2>2, <2>7, NextCommand
<1> QED
  BY <1>3, <1>4

LEMMA AuthenticatedKeeps ==
  ASSUME ProxyInv, Authenticated
  PROVE  ProxyInv'
<1>1. pc = "auth" /\ Consume(2) /\ UNCHANGED <<conf, search, wire>>
  BY DEF Authenticated
<1>2. socket' \in Seq(Cell)
  BY <1>1, ReadTyped DEF ProxyInv, Chosen
<1>3. CASE Fails /\ UNCHANGED peer
  BY <1>1, <1>2, <1>3, Failed DEF Fails, ProxyInv, Chosen
<1>4. CASE ~(Fails /\ UNCHANGED peer)
  <2>1. Len(Taken(2)) = 2
    BY <1>4 DEF Authenticated
  <2>2. pc' = "socks5" /\ Asks("socks5")
    BY <1>4 DEF Authenticated, Sends
  <2>3. peer'.closed = peer.closed
    BY <2>2 DEF Asks, ProxyInv, Chosen, Peer
  <2>4. PICK n \in Nat : n = 2
    OBVIOUS
  <2>5. Consume(n)
    BY <1>1, <2>4 DEF Consume
  <2>6. Len(Taken(n)) = n
    BY <2>1, <2>4
  <2>7. socket' = <<>> /\ wire' = <<>> /\ ~peer.granted
    BY <1>1, <2>3, <2>4, <2>5, <2>6, ReadToTheEnd
  <2> QED
    BY <1>1, <2>2, <2>7, NextCommand
<1> QED
  BY <1>3, <1>4

(* The first five bytes of the reply: refused, or granted with the type of
   the address. *)
LEMMA Socks5Keeps ==
  ASSUME ProxyInv, Socks5Reply
  PROVE  ProxyInv'
<1>1. /\ pc = "socks5" /\ "socks5" \in Socks /\ Consume(5)
      /\ UNCHANGED <<conf, search, wire, peer>>
  BY DEF Socks5Reply, Socks
<1>2. socket' \in Seq(Cell)
  BY <1>1, ReadTyped DEF ProxyInv, Chosen
<1>3. CASE Fails
  BY <1>1, <1>2, <1>3, Failed DEF Fails, ProxyInv, Chosen
<1>4. CASE ~Fails
  <2>1. Len(Taken(5)) = 5 /\ Socks5Accepts(Taken(5)) /\ pc' = socket[4]
    BY <1>4 DEF Socks5Reply
  <2>2. PICK n \in Nat : n = 5
    OBVIOUS
  <2>3. Consume(n)
    BY <1>1, <2>2 DEF Consume
  <2>4. Len(Taken(n)) = n /\ n # 0
    BY <2>1, <2>2
  <2>5. wire' = wire /\ peer'.closed = peer.closed /\ Replies("socks5")' = Replies("socks5")
    BY <1>1, SameReplies
  <2>6. PICK r \in Replies("socks5") :
          /\ r \in AReply /\ Answered(r) /\ Left(All(r), n)'
          /\ n <= Len(socket) /\ Left(All(r), 0)
    BY <1>1, <2>3, <2>4, <2>5, Received
  <2>7. Len(r.cells) >= 5 /\ (~r.grants => r.cells[2] = "4")
    BY Socks5Replies
  <2>8. Taken(5)[2] = socket[2] /\ Taken(5)[4] = socket[4]
    <3>1. \A m \in Nat : \A i \in 1..Len(Taken(m)) : Taken(m)[i] = socket[i]
      BY FirstTaken DEF ProxyInv, Chosen
    <3>2. 2 \in 1..Len(Taken(5)) /\ 4 \in 1..Len(Taken(5))
      BY <2>1
    <3> QED
      BY <3>1, <3>2
  <2>9. socket[2] = r.cells[2] /\ socket[4] = r.cells[4]
    <3>6. socket \in Seq(Cell)
      BY DEF ProxyInv, Chosen
    <3>5. Len(socket) \in Nat
      BY <3>6
    <3>1. 2 \in 1..Len(socket) /\ 4 \in 1..Len(socket) /\ 0 + 2 = 2 /\ 0 + 4 = 4
      BY <2>2, <2>6, <3>5
    <3>2. socket[2] = All(r)[0 + 2] /\ socket[4] = All(r)[0 + 4]
      BY <2>6, <3>1 DEF Left
    <3>3. \A i \in 1..Len(r.cells) : All(r)[i] = r.cells[i]
      BY <2>6, AllOf
    <3>4. 2 \in 1..Len(r.cells) /\ 4 \in 1..Len(r.cells)
      BY <2>7, <2>6, Shape
    <3> QED
      BY <3>1, <3>2, <3>3, <3>4
  <2>10. r.grants
    BY <2>1, <2>7, <2>8, <2>9 DEF Socks5Accepts
  <2>11. pc' = r.cells[4] /\ pc' \in {"1", "3", "4"}
    BY <2>1, <2>8, <2>9 DEF Socks5Accepts
  <2>12. Answered(r)'
    BY <2>6, <1>1 DEF Answered
  <2>13. Where'
    BY <2>2, <2>5, <2>6, <2>10, <2>11, <2>12, AtRest
  <2>14. Chosen' /\ SearchTyped'
    BY <1>1, <1>2, <2>11 DEF ProxyInv, Chosen, SearchTyped, Step, Socks
  <2> QED
    BY <2>13, <2>14 DEF ProxyInv
<1> QED
  BY <1>3, <1>4

(* The rest of it: what is left is the text, but for two bytes with IPv6. *)
LEMMA Single ==
  ASSUME NEW S, NEW s \in Seq(S), 3 \in 1..Len(s)
  PROVE  SubSeq(s, 3, 3) = <<s[3]>>
<1> DEFINE piece == SubSeq(s, 3, 3)
<1>1. \A i \in 3..3 : s[i] \in S
  OBVIOUS
<1>2. /\ piece \in Seq(S) /\ Len(piece) = IF 3 <= 3 THEN 3 - 3 + 1 ELSE 0
      /\ \A i \in 1..(3 - 3 + 1) : piece[i] = s[3 + i - 1]
  BY <1>1, SubSeqProperties
<1> HIDE DEF piece
<1>3. Len(piece) = 1 /\ 1 \in 1..(3 - 3 + 1) /\ 3 + 1 - 1 = 3
  BY <1>2
<1>4. piece[1] = s[3]
  BY <1>2, <1>3
<1>5. <<s[3]>> \in Seq(S) /\ Len(<<s[3]>>) = 1 /\ <<s[3]>>[1] = s[3]
  OBVIOUS
<1>6. piece = <<s[3]>>
  BY <1>2, <1>3, <1>4, <1>5, SeqEqual
<1> QED
  BY <1>6 DEF piece

LEMMA Socks5RestKeeps ==
  ASSUME ProxyInv, Socks5Rest
  PROVE  ProxyInv'
<1> DEFINE m == RemainingLength(pc)
<1>1. /\ pc \in {"1", "3", "4"} /\ Consume(m)
      /\ UNCHANGED <<conf, search, wire, peer>>
  BY DEF Socks5Rest
<1>2. m \in Nat
  BY <1>1 DEF RemainingLength
<1>3. PICK n \in Nat : n = m
  BY <1>2
<1>4. IF Len(Taken(n)) = n THEN Succeeds ELSE Fails
  BY <1>3 DEF Socks5Rest
<1>5. Consume(n)
  BY <1>1, <1>3 DEF Consume
<1> HIDE DEF m
<1>6. socket' \in Seq(Cell)
  BY <1>5, ReadTyped DEF ProxyInv, Chosen
<1>7. CASE Fails
  BY <1>1, <1>6, <1>7, Failed DEF Fails, ProxyInv, Chosen
<1>8. CASE ~Fails
  <2>1. Len(Taken(n)) = n /\ pc' = "connected"
    BY <1>4, <1>8 DEF Succeeds
  <2>2. PICK r \in Replies("socks5") :
          r.cells[4] = pc /\ r.grants /\ Answered(r) /\ Left(All(r), 5)
    BY <1>1 DEF ProxyInv, Where
  <2>3. /\ r \in AReply
        /\ Len(r.cells) = 5 + n - (IF pc = "4" THEN 2 ELSE 0)
        /\ r.bound = 6 <=> pc = "4"
    BY <1>3, <2>2, Socks5Replies DEF m
  <2>4. /\ All(r) \in Seq(Cell) /\ Len(All(r)) = Len(r.cells) + 3
        /\ \A i \in 1..3 : All(r)[Len(r.cells) + i] = HostText[i]
    BY <2>2, <2>3, AllOf
  <2>14. socket \in Seq(Cell)
    BY DEF ProxyInv, Chosen
  <2>12. socket \in Seq(Cell) /\ Len(socket) \in Nat
    BY <2>14
  <2>5. n <= Len(socket)
    <3>1. Len(Taken(n)) = IF n <= Len(socket) THEN n ELSE Len(socket)
      BY <2>12, FirstTaken
    <3> QED
      BY <2>1, <2>12, <3>1
  <2>13. PICK k \in Nat : k = 5 + n
    OBVIOUS
  <2>6. Left(All(r), k)'
    <3>1. Left(All(r), 5 + n)'
      BY <1>1, <1>5, <2>2, <2>4, <2>5, ReadLeaves DEF ProxyInv, Chosen
    <3> QED
      BY <2>13, <3>1 DEF Left
  <2>7. conf.type = "socks5" /\ wire' \in Seq(Cell) /\ wire' = wire
    BY <1>1 DEF ProxyInv, Chosen
  <2>8. ASSUME pc = "4"
        PROVE  Left(LeftToRead, 0)'
    <3> DEFINE rest == <<"t3">>
    <3>1. rest \in Seq(Cell) /\ Len(rest) = 1 /\ rest[1] = HostText[3]
      BY DEF Cell, HostText
    <3>6. SubSeq(HostText, 3, 3) = <<HostText[3]>>
      <4>1. HostText \in Seq(Cell) /\ 3 \in 1..Len(HostText)
        BY TextTyped
      <4> QED
        BY <4>1, Single
    <3>7. SubSeq(HostText, 3, 3) = rest
      BY <3>6 DEF HostText
    <3>8. peer'.bound = 6 /\ conf'.type = "socks5"
      BY <1>1, <2>2, <2>3, <2>7, <2>8 DEF Answered
    <3>2. LeftToRead' = rest
      BY <3>7, <3>8 DEF LeftToRead
    <3> HIDE DEF rest
    <3>3. k = Len(r.cells) + 2 /\ Len(r.cells) \in Nat
      BY <2>13, <2>3, <2>8, Shape
    <3>4. /\ Len(All(r)) = k + Len(rest)
          /\ \A i \in 1..Len(rest) : All(r)[k + i] = rest[i]
      <4>1. Len(All(r)) = k + Len(rest) /\ k + 1 = Len(r.cells) + 3
        BY <2>4, <3>1, <3>3
      <4>2. All(r)[Len(r.cells) + 3] = HostText[3]
        BY <2>4
      <4> QED
        BY <4>1, <4>2, <3>1
    <3>5. Left(rest, 0)'
      BY <1>6, <2>4, <2>6, <2>7, <3>1, <3>4, RestIsLeft
    <3> QED
      BY <3>2, <3>5 DEF Left
  <2>9. ASSUME pc # "4"
        PROVE  Left(LeftToRead, 0)'
    <3>1. LeftToRead' = HostText
      BY <1>1, <2>2, <2>3, <2>7, <2>9 DEF LeftToRead, Answered
    <3>2. k = Len(r.cells) /\ Len(r.cells) \in Nat
      BY <2>13, <2>3, <2>9, Shape
    <3>3. /\ Len(All(r)) = k + Len(HostText)
          /\ \A i \in 1..Len(HostText) : All(r)[k + i] = HostText[i]
      BY <2>4, <3>2, TextTyped
    <3>4. Left(HostText, 0)'
      BY <1>6, <2>4, <2>6, <2>7, <3>3, RestIsLeft, TextTyped
    <3> QED
      BY <3>1, <3>4 DEF Left
  <2>10. Ended'
    BY <1>1, <2>2, <2>8, <2>9 DEF Ended, Answered
  <2>11. Chosen' /\ SearchTyped'
    BY <1>1, <1>6, <2>1, <2>7 DEF ProxyInv, Chosen, SearchTyped, Step, Socks
  <2> QED
    BY <2>1, <2>10, <2>11, AtConnected DEF ProxyInv
<1> QED
  BY <1>7, <1>8

-----------------------------------------------------------------------------
(* The search in a reply of HTTP.                                          *)

LEMMA LeastExists ==
  ASSUME NEW S, S \subseteq Nat, NEW m \in S
  PROVE  \E n \in S : \A i \in S : n <= i
<1> DEFINE R == OpToRel(<, Nat)
<1>1. \A x, y \in Nat : <<x, y>> \in R <=> x < y
  BY DEF OpToRel
<1>2. IsWellFoundedOn(R, Nat)
  BY NatLessThanWellFounded
<1> HIDE DEF R
<1>3. PICK n \in S : \A i \in S : ~(<<i, n>> \in R)
  BY <1>2, WFMin
<1>4. ASSUME NEW i \in S
      PROVE  n <= i
  <2>1. i \in Nat /\ n \in Nat
    OBVIOUS
  <2>2. ~(i < n)
    BY <2>1, <1>1, <1>3, Zenon
  <2> QED
    BY <2>1, <2>2
<1> QED
  BY <1>4

LEMMA Found ==
  ASSUME NEW what, NEW from \in Nat, NEW end \in Nat, from <= end
  PROVE  LET i == FindNext(what, from, end)
         IN  /\ i \in from..end
             /\ i < end => socket[i + 1] \in what
             /\ \A j \in from..(i - 1) : socket[j + 1] \notin what
<1> DEFINE S == {end} \cup {i \in from..(end - 1) : socket[i + 1] \in what}
<1>1. S \subseteq Nat /\ S \subseteq Int /\ end \in S
  OBVIOUS
<1> HIDE DEF S
<1>2. PICK i \in S : \A j \in S : i <= j
  BY <1>1, LeastExists
<1>3. Min(S) = i
  BY <1>1, <1>2, Least
<1>4. FindNext(what, from, end) = i
  BY <1>3 DEF FindNext, S
<1>5. i \in from..end /\ (i < end => socket[i + 1] \in what)
  BY <1>2 DEF S
<1>6. ASSUME NEW j \in from..(i - 1)
      PROVE  socket[j + 1] \notin what
  <2>1. j \in from..(end - 1) /\ j < i /\ j \in Int /\ i \in Int
    BY <1>5
  <2>2. j \notin S
    BY <1>2, <2>1
  <2> QED
    BY <2>1, <2>2 DEF S
<1> QED
  BY <1>4, <1>5, <1>6

LEMMA PeekedOf ==
  ASSUME socket \in Seq(Cell)
  PROVE  /\ Peeked = IF BufferSize <= Len(socket) THEN BufferSize ELSE Len(socket)
         /\ Peeked \in Nat /\ Peeked <= Len(socket) /\ Peeked <= BufferSize
<1>1. Len(socket) \in Nat /\ BufferSize \in Nat
  BY ProxyAssumption
<1>2. Peeked = IF BufferSize <= Len(socket) THEN BufferSize ELSE Len(socket)
  BY <1>1, Smaller DEF Peeked
<1> QED
  BY <1>1, <1>2

LEMMA RefusalIs ==
  /\ Len(Refusal) = 7
  /\ Refusal[1] = "v" /\ Refusal[2] = " " /\ Refusal[3] = "4"
<1>1. Len(Refusal) = 7
  BY DEF Refusal
<1>2. Refusal[1] = "v" /\ Refusal[2] = " " /\ Refusal[3] = "4"
  BY DEF Refusal
<1> QED
  BY <1>1, <1>2

(* Only a reply that grants has a 2 before its end. *)
LEMMA GrantedByTwo ==
  ASSUME NEW r \in Replies("http"), NEW digit \in 1..(Len(r.cells) - 4),
         r.cells[digit] = "2"
  PROVE  r.grants
<1> SUFFICES ASSUME ~r.grants
             PROVE  FALSE
  OBVIOUS
<1>1. r.cells \in {Refusal, Repeat("v", BufferSize)}
  BY RepliesOfHttp
<1>2. CASE r.cells = Refusal
  <2>1. Len(r.cells) = 7
    BY <1>2, RefusalIs
  <2>2. digit = 1 \/ digit = 2 \/ digit = 3
    BY <2>1
  <2> QED
    BY <1>2, <2>2, RefusalIs
<1>3. CASE r.cells = Repeat("v", BufferSize)
  <2>1. Len(r.cells) = BufferSize /\ BufferSize \in Nat
    BY <1>3, ProxyAssumption, RepeatOf
  <2>2. digit \in 1..BufferSize
    BY <2>1
  <2> QED
    BY <1>3, <2>2 DEF Repeat
<1> QED
  BY <1>1, <1>2, <1>3

(* What a round of the search finds. *)
Round(space, digit, found) ==
  /\ search' = [at |-> digit, received |-> Peeked, spaceFound |-> found]
  /\ search.at <= space /\ space <= digit
  /\ search.spaceFound => space = search.at /\ found
  /\ ~search.spaceFound =>
       /\ \A j \in search.at..(space - 1) : socket[j + 1] # " "
       /\ found <=> space < Peeked
       /\ found => socket[space + 1] = " "
  /\ ~found => digit = space
  /\ found => /\ \A j \in space..(digit - 1) : socket[j + 1] \notin {"2", "4"}
              /\ digit < Peeked => socket[digit + 1] \in {"2", "4"}
  /\ IF digit < Peeked THEN IF socket[digit + 1] = "2" THEN pc' = "http end"
                                                       ELSE pc' = "failed"
                       ELSE pc' = "failed" \/ pc' = pc

LEMMA RoundTaken ==
  ASSUME ProxyInv, HttpStatus, Peeked # 0
  PROVE  \E space, digit \in 0..Peeked, found \in BOOLEAN :
           Round(space, digit, found)
<1> DEFINE space == IF search.spaceFound THEN search.at
                    ELSE FindNext({" "}, search.at, Peeked)
           found == search.spaceFound \/ space < Peeked
           digit == IF found THEN FindNext({"2", "4"}, space, Peeked) ELSE space
<1>0. pc = "http" /\ socket \in Seq(Cell)
  BY DEF HttpStatus, ProxyInv, Chosen
<1>1. search.at \in Nat /\ Peeked \in Nat /\ search.spaceFound \in BOOLEAN
  BY <1>0, PeekedOf DEF ProxyInv, SearchTyped
<1>2. search.at <= Peeked
  <2>1. /\ search.at <= search.received /\ search.received <= BufferSize
        /\ search.received <= Len(socket) /\ search.received \in Nat
    BY <1>0 DEF ProxyInv, SearchTyped
  <2>2. Len(socket) \in Nat /\ BufferSize \in Nat
    BY <1>0, ProxyAssumption
  <2> QED
    BY <1>0, <1>1, <2>1, <2>2, PeekedOf
<1>3. /\ search' = [at |-> digit, received |-> Peeked, spaceFound |-> found]
      /\ IF digit < Peeked THEN IF socket[digit + 1] = "2" THEN pc' = "http end"
                                                           ELSE pc' = "failed"
                           ELSE pc' = "failed" \/ pc' = pc
  BY DEF HttpStatus, Fails
<1>4. /\ space \in search.at..Peeked
      /\ ~search.spaceFound =>
           /\ \A j \in search.at..(space - 1) : socket[j + 1] # " "
           /\ space < Peeked => socket[space + 1] = " "
  <2>1. CASE search.spaceFound
    BY <2>1, <1>1, <1>2
  <2>2. CASE ~search.spaceFound
    <3>1. LET i == FindNext({" "}, search.at, Peeked)
          IN  /\ i \in search.at..Peeked
              /\ i < Peeked => socket[i + 1] \in {" "}
              /\ \A j \in search.at..(i - 1) : socket[j + 1] \notin {" "}
      BY <1>1, <1>2, Found
    <3> QED
      BY <2>2, <3>1
  <2> QED
    BY <2>1, <2>2
<1>5. found \in BOOLEAN /\ (search.spaceFound => space = search.at /\ found)
      /\ (~search.spaceFound => (found <=> space < Peeked))
  BY <1>1
<1> HIDE DEF space, found
<1>11. space \in Nat /\ search.at <= space /\ space <= Peeked /\ space \in 0..Peeked
  <2>1. space \in search.at..Peeked
    BY <1>4
  <2> HIDE DEF digit
  <2> QED
    BY <1>1, <2>1
<1>6. PICK s \in 0..Peeked, f \in BOOLEAN : s = space /\ f = found
  BY <1>5, <1>11
<1>7. digit = IF f THEN FindNext({"2", "4"}, s, Peeked) ELSE s
  BY <1>6
<1> HIDE DEF digit
<1>8. /\ digit \in s..Peeked /\ (~f => digit = s)
      /\ f => /\ \A j \in s..(digit - 1) : socket[j + 1] \notin {"2", "4"}
              /\ digit < Peeked => socket[digit + 1] \in {"2", "4"}
  <2>1. CASE f
    <3>1. LET i == FindNext({"2", "4"}, s, Peeked)
          IN  /\ i \in s..Peeked
              /\ i < Peeked => socket[i + 1] \in {"2", "4"}
              /\ \A j \in s..(i - 1) : socket[j + 1] \notin {"2", "4"}
      BY <1>1, <1>6, Found
    <3> QED
      BY <2>1, <1>7, <3>1
  <2>2. CASE ~f
    BY <2>2, <1>1, <1>6, <1>7
  <2> QED
    BY <2>1, <2>2
<1>9. digit \in 0..Peeked /\ s <= digit /\ search.at <= s
  <2>1. digit \in s..Peeked /\ s \in Nat /\ search.at <= s
    BY <1>6, <1>8, <1>11
  <2> QED
    BY <1>1, <2>1
<1>10. Round(s, digit, f)
  <2>1. search' = [at |-> digit, received |-> Peeked, spaceFound |-> f]
    BY <1>3, <1>6
  <2>2. search.spaceFound => s = search.at /\ f
    BY <1>5, <1>6
  <2>3. ~search.spaceFound =>
          /\ \A j \in search.at..(s - 1) : socket[j + 1] # " "
          /\ f <=> s < Peeked
          /\ f => socket[s + 1] = " "
    BY <1>4, <1>5, <1>6
  <2> QED
    BY <1>3, <1>8, <1>9, <2>1, <2>2, <2>3 DEF Round
<1> QED
  BY <1>6, <1>9, <1>10

LEMMA Begun ==
  ASSUME NEW r \in AReply, socket \in Seq(Cell), Left(All(r), 0),
         NEW i \in 1..Len(socket), i <= Len(r.cells)
  PROVE  socket[i] = r.cells[i]
<1>1. i \in 1..Len(r.cells) /\ 0 + i = i
  BY Shape
<1>2. socket[i] = All(r)[0 + i]
  BY DEF Left
<1> QED
  BY <1>1, <1>2, AllOf

LEMMA RoundPasses ==
  ASSUME NEW r \in AReply, socket \in Seq(Cell), search.at \in Nat,
         Left(All(r), 0), Passed(r.cells),
         NEW space \in Nat, NEW digit \in Nat, NEW found \in BOOLEAN,
         NEW p \in Nat, p = Peeked, space <= p, digit <= p,
         Round(space, digit, found)
  PROVE  /\ digit >= p => Passed(r.cells)'
         /\ digit < p => /\ digit + 1 \in 1..(Len(r.cells) - 4)
                         /\ socket[digit + 1] = r.cells[digit + 1]
<1> DEFINE cells == r.cells
<1>0. PICK n \in Nat : n = Len(cells)
  BY Shape
<1>1. PICK sp \in 1..(n - 4), d \in 1..(n - 4) :
        /\ sp < d /\ cells[sp] = " " /\ cells[d] \in {"2", "4"}
        /\ \A i \in 1..(sp - 1) : cells[i] # " "
        /\ \A i \in sp..(d - 1) : cells[i] \notin {"2", "4"}
        /\ search.at < d
        /\ search.at >= sp - 1 \/ ~search.spaceFound
        /\ search.at <= sp - 1 \/ search.spaceFound
  BY <1>0 DEF Passed
<1>2. \A i \in 1..p : i <= n => socket[i] = cells[i]
  <2>1. p <= Len(socket) /\ Len(socket) \in Nat
    BY PeekedOf
  <2>2. \A i \in 1..p : i \in 1..Len(socket)
    BY <2>1
  <2> QED
    BY <2>2, <1>0, Begun
<1> HIDE DEF cells
<1>3. PICK at \in Nat : at = search.at
  OBVIOUS
<1>4. /\ sp \in Nat /\ d \in Nat /\ 1 <= sp /\ sp < d /\ d <= n - 4 /\ at < d
      /\ at >= sp - 1 \/ ~search.spaceFound
      /\ at <= sp - 1 \/ search.spaceFound
  <2>1. /\ sp < d /\ at < d
        /\ at >= sp - 1 \/ ~search.spaceFound
        /\ at <= sp - 1 \/ search.spaceFound
    BY <1>1, <1>3
  <2> QED
    BY <2>1
<1>5. at <= space /\ space <= digit
  BY <1>3 DEF Round
<1>6. /\ search.spaceFound => space = at /\ found
      /\ ~search.spaceFound => (found <=> space < p)
      /\ ~found => digit = space
  BY <1>3 DEF Round
<1>7. ~search.spaceFound => /\ \A j \in at..(space - 1) : socket[j + 1] # " "
                            /\ found => socket[space + 1] = " "
  BY <1>3 DEF Round
<1>8. found => /\ \A j \in space..(digit - 1) : socket[j + 1] \notin {"2", "4"}
               /\ digit < p => socket[digit + 1] \in {"2", "4"}
  BY DEF Round
<1>9. ASSUME ~search.spaceFound
      PROVE  space <= sp - 1 /\ (found => space = sp - 1)
  <2>0. at <= sp - 1
    BY <1>4, <1>9
  <2>1. ~(sp - 1 < space)
    <3> SUFFICES ASSUME sp - 1 < space
                 PROVE  FALSE
      OBVIOUS
    <3>1. sp - 1 \in at..(space - 1) /\ sp - 1 + 1 = sp /\ sp \in 1..p /\ sp <= n
      BY <2>0, <1>4
    <3>2. socket[sp] # " "
      BY <3>1, <1>7, <1>9
    <3> QED
      BY <3>1, <3>2, <1>1, <1>2
  <2>2. ASSUME found, space < sp - 1
        PROVE  FALSE
    <3>0. space < p
      BY <1>6, <1>9, <2>2
    <3>1. space + 1 \in 1..(sp - 1) /\ space + 1 \in 1..p /\ space + 1 <= n
      BY <3>0, <1>4, <2>2
    <3>2. socket[space + 1] = " "
      BY <1>7, <1>9, <2>2
    <3>3. socket[space + 1] = cells[space + 1]
      BY <3>1, <1>2
    <3> QED
      BY <3>1, <3>2, <3>3, <1>1
  <2> QED
    BY <1>4, <2>1, <2>2
<1>10. found => sp - 1 <= space /\ space < d
  BY <1>4, <1>6, <1>9
<1>11. CASE ~found
  <2>1. digit = space /\ ~search.spaceFound /\ ~(space < p)
    BY <1>6, <1>11
  <2>2. digit <= sp - 1
    BY <2>1, <1>9
  <2>3. digit >= p /\ digit < d
    BY <2>1, <2>2, <1>4
  <2>4. search'.at = digit /\ search'.spaceFound = FALSE
    BY <1>11 DEF Round
  <2>5. Passed(cells)'
    BY <1>0, <1>1, <2>2, <2>3, <2>4 DEF Passed
  <2> QED
    BY <2>5, <2>3 DEF cells
<1>12. CASE found
  <2>0. sp - 1 <= space /\ space < d
    BY <1>10, <1>12
  <2>1. ~(d <= digit)
    <3> SUFFICES ASSUME d <= digit
                 PROVE  FALSE
      OBVIOUS
    <3>1. d - 1 \in space..(digit - 1) /\ d - 1 + 1 = d /\ d \in 1..p /\ d <= n
      BY <2>0, <1>4
    <3>2. socket[d] \notin {"2", "4"}
      BY <3>1, <1>8, <1>12
    <3> QED
      BY <3>1, <3>2, <1>1, <1>2
  <2>2. ASSUME digit < p
        PROVE  digit + 1 \in 1..(n - 4) /\ socket[digit + 1] = cells[digit + 1]
    <3>1. digit + 1 \in 1..(n - 4) /\ digit + 1 \in 1..p /\ digit + 1 <= n
      BY <1>4, <2>1, <2>2
    <3> QED
      BY <3>1, <1>2
  <2>3. ASSUME digit >= p
        PROVE  Passed(cells)'
    <3>1. search'.at = digit /\ search'.spaceFound = TRUE
      BY <1>12 DEF Round
    <3>2. digit < d /\ digit >= sp - 1
      BY <1>4, <1>5, <2>0, <2>1
    <3> QED
      BY <1>0, <1>1, <3>1, <3>2 DEF Passed
  <2> QED
    BY <1>0, <2>2, <2>3 DEF cells
<1> QED
  BY <1>11, <1>12

(* The reply that is too long has no space. *)
LEMMA RoundFails ==
  ASSUME NEW r \in AReply, socket \in Seq(Cell), search.at \in Nat,
         Left(All(r), 0), r.cells = Repeat("v", BufferSize), ~search.spaceFound,
         NEW space \in Nat, NEW digit \in Nat, NEW found \in BOOLEAN,
         NEW p \in Nat, p = Peeked, space <= p, digit <= p,
         Round(space, digit, found)
  PROVE  ~found /\ digit >= p
<1>1. p <= Len(socket) /\ p <= BufferSize /\ BufferSize \in Nat
  BY PeekedOf, ProxyAssumption
<1>2. PICK m \in Nat : m = Len(socket)
  OBVIOUS
<1>3. (found <=> space < p) /\ (~found => digit = space)
  BY DEF Round
<1>4. found => socket[space + 1] = " "
  BY DEF Round
<1>5. ASSUME found
      PROVE  FALSE
  <2>1. space < p /\ p <= m
    BY <1>1, <1>2, <1>3, <1>5
  <2>2. /\ space + 1 \in 1..m /\ space + 1 \in 1..BufferSize
        /\ space + 1 <= BufferSize
    BY <1>1, <2>1
  <2>3. Len(r.cells) = BufferSize
    BY <1>1, RepeatOf
  <2>4. socket[space + 1] = r.cells[space + 1]
    BY <1>2, <2>2, <2>3, Begun
  <2>5. r.cells[space + 1] = "v"
    BY <2>2 DEF Repeat
  <2> QED
    BY <2>4, <2>5, <1>4, <1>5
<1>6. ~found /\ digit = space /\ ~(space < p)
  BY <1>3, <1>5
<1> QED
  BY <1>6

(* Four cells in a row. *)
LEMMA FourOf ==
  ASSUME NEW S, NEW s \in Seq(S), NEW i \in Nat, i + 4 <= Len(s)
  PROVE  LET four == SubSeq(s, i + 1, i + 4)
         IN  /\ four \in Seq(S) /\ Len(four) = 4
             /\ \A j \in 1..4 : four[j] = s[i + j]
<1> DEFINE a == i + 1
           b == i + 4
<1>1. a \in Int /\ b \in Int /\ a <= b /\ b - a + 1 = 4 /\ a..b \subseteq 1..Len(s)
  BY LenProperties
<1>2. \A j \in 1..4 : a + j - 1 = i + j
  OBVIOUS
<1> HIDE DEF a, b
<1>3. \A j \in a..b : s[j] \in S
  BY <1>1, ElementOfSeq
<1>4. /\ SubSeq(s, a, b) \in Seq(S)
      /\ Len(SubSeq(s, a, b)) = IF a <= b THEN b - a + 1 ELSE 0
      /\ \A j \in 1..(b - a + 1) : SubSeq(s, a, b)[j] = s[a + j - 1]
  BY <1>1, <1>3, SubSeqProperties
<1>5. Len(SubSeq(s, a, b)) = 4 /\ \A j \in 1..4 : SubSeq(s, a, b)[j] = s[i + j]
  BY <1>1, <1>2, <1>4
<1> QED
  BY <1>4, <1>5 DEF a, b

LEMMA SameFour ==
  ASSUME NEW S, NEW s \in Seq(S), NEW t \in Seq(S), NEW i \in Nat, NEW k \in Nat,
         i + 4 <= Len(s), k + 4 <= Len(t), \A j \in 1..4 : s[i + j] = t[k + j]
  PROVE  SubSeq(s, i + 1, i + 4) = SubSeq(t, k + 1, k + 4)
<1> DEFINE u == SubSeq(s, i + 1, i + 4)
           v == SubSeq(t, k + 1, k + 4)
<1>1. u \in Seq(S) /\ Len(u) = 4 /\ \A j \in 1..4 : u[j] = s[i + j]
  BY FourOf
<1>2. v \in Seq(S) /\ Len(v) = 4 /\ \A j \in 1..4 : v[j] = t[k + j]
  BY FourOf
<1> HIDE DEF u, v
<1>4. Len(u) = Len(v) /\ 1..Len(u) = 1..4
  BY <1>1, <1>2
<1>5. \A j \in 1..4 : u[j] = v[j]
  BY <1>1, <1>2
<1>6. \A j \in 1..Len(u) : u[j] = v[j]
  BY <1>4, <1>5
<1>3. u = v
  BY <1>1, <1>2, <1>4, <1>6, SeqEqual
<1> QED
  BY <1>3 DEF u, v

(* The end of a reply that grants is its only one, and the text that follows
   does not make another. *)
LEMMA OneEnd ==
  ASSUME NEW r \in Replies("http"), r.grants, NEW last \in Int,
         last = Len(r.cells) - 4
  PROVE  /\ All(r) \in Seq(Cell) /\ last \in Nat
         /\ last + 4 + Len(HostText) = Len(All(r))
         /\ \A i \in 0..(Len(All(r)) - 4) :
              SubSeq(All(r), i + 1, i + 4) = EndOfReply <=> i = last
         /\ \A i \in 1..Len(HostText) : All(r)[last + 4 + i] = HostText[i]
<1> DEFINE cells == r.cells
           all == All(r)
<1>1. r \in AReply /\ cells \in HttpReplies
  BY RepliesOfHttp
<1>2. cells \in Seq(Cell) /\ all \in Seq(Cell)
  BY <1>1, Shape, AllOf
<1>3. PICK n \in Nat : n = Len(cells)
  BY <1>1, Shape
<1>4. /\ Len(all) = n + 3
      /\ \A i \in 1..n : all[i] = cells[i]
      /\ \A i \in 1..3 : all[n + i] = HostText[i]
  BY <1>1, <1>3, AllOf
<1>5. GrantsHttp(cells)
  BY <1>1, ProxyAssumption
<1> HIDE DEF all, cells
<1>6. last \in Nat /\ n = last + 4 /\ Len(HostText) = 3
  <2>1. \E digit \in 1..(n - 4) : TRUE
    BY <1>3, <1>5 DEF GrantsHttp
  <2>2. n - 4 \in Nat
    BY <2>1
  <2> QED
    BY <2>2, <1>3, TextTyped DEF cells
<1>7. ASSUME NEW i \in 0..(n - 1)
      PROVE  SubSeq(all, i + 1, i + 4) = EndOfReply <=> i = last
  <2>1. CASE i <= last
    <3>1. i \in Nat /\ i + 4 <= n /\ i \in 0..(n - 4)
      BY <2>1, <1>6
    <3>2. i + 4 <= Len(all) /\ i + 4 <= Len(cells)
      BY <3>1, <1>3, <1>4
    <3>3. \A j \in 1..4 : all[i + j] = cells[i + j]
      <4>1. \A j \in 1..4 : i + j \in 1..n
        BY <3>1
      <4> QED
        BY <4>1, <1>4
    <3>4. SubSeq(all, i + 1, i + 4) = SubSeq(cells, i + 1, i + 4)
      BY <1>2, <3>1, <3>2, <3>3, SameFour
    <3>5. SubSeq(cells, i + 1, i + 4) = EndOfReply <=> i = n - 4
      BY <3>1, <1>3, <1>5 DEF GrantsHttp
    <3> QED
      BY <3>4, <3>5, <1>6
  <2>2. CASE ~(i <= last)
    <3>1. i \in Nat /\ i + 4 <= n + 3 /\ i + 4 - n \in 1..3 /\ i + 4 = n + (i + 4 - n)
      BY <2>2, <1>6
    <3>2. i + 4 <= Len(all)
      BY <3>1, <1>4
    <3>3. all[i + 4] = HostText[i + 4 - n]
      BY <3>1, <1>4
    <3>4. \A j \in 1..3 : HostText[j] # "\n"
      <4>1. HostText[1] = "t1" /\ HostText[2] = "t2" /\ HostText[3] = "t3"
        BY DEF HostText
      <4>2. \A j \in 1..3 : j = 1 \/ j = 2 \/ j = 3
        OBVIOUS
      <4> QED
        BY <4>1, <4>2
    <3>5. all[i + 4] # "\n"
      BY <3>1, <3>3, <3>4
    <3>6. \A j \in 1..4 : SubSeq(all, i + 1, i + 4)[j] = all[i + j]
      BY <1>2, <3>1, <3>2, FourOf
    <3>7. SubSeq(all, i + 1, i + 4)[4] # "\n"
      BY <3>5, <3>6
    <3>8. SubSeq(all, i + 1, i + 4) # EndOfReply
      <4>1. EndOfReply[4] = "\n"
        BY DEF EndOfReply
      <4> QED
        BY <3>7, <4>1
    <3> QED
      BY <2>2, <3>8, <1>6
  <2> QED
    BY <2>1, <2>2
<1>8. /\ Len(all) - 4 = n - 1 /\ last + 4 + Len(HostText) = Len(all)
  BY <1>4, <1>6
<1> QED
  BY <1>2, <1>4, <1>6, <1>7, <1>8 DEF all

LEMMA FailedTyped ==
  ASSUME ProxyInv, pc' = "failed", SearchTyped', UNCHANGED <<conf, socket, wire, peer>>
  PROVE  ProxyInv'
<1>1. Chosen'
  BY DEF ProxyInv, Chosen, Step
<1>2. Where'
  BY DEF Where, Socks
<1> QED
  BY <1>1, <1>2 DEF ProxyInv

LEMMA StatusKeeps ==
  ASSUME ProxyInv, HttpStatus
  PROVE  ProxyInv'
<1>1. /\ pc = "http" /\ UNCHANGED <<conf, socket, wire, peer>>
      /\ socket \in Seq(Cell)
  BY DEF HttpStatus, ProxyInv, Chosen
<1>2. CASE Peeked = 0
  <2>1. pc' = "failed" /\ search' = search
    BY <1>2 DEF HttpStatus, Fails
  <2>2. SearchTyped'
    BY <2>1 DEF ProxyInv, SearchTyped
  <2> QED
    BY <1>1, <2>1, <2>2, FailedTyped
<1>3. CASE Peeked # 0
  <2>1. PICK space \in 0..Peeked, digit \in 0..Peeked, found \in BOOLEAN :
          Round(space, digit, found)
    BY <1>3, RoundTaken
  <2>2. PICK p \in Nat : p = Peeked
    BY <1>1, PeekedOf
  <2>3. space \in Nat /\ digit \in Nat /\ space <= p /\ digit <= p
    BY <2>2
  <2>4. search' = [at |-> digit, received |-> p, spaceFound |-> found]
    BY <2>1, <2>2 DEF Round
  <2>5. SearchTyped'
    <3>1. p <= BufferSize /\ p <= Len(socket)
      BY <1>1, <2>2, PeekedOf
    <3>2. p <= Len(socket')
      BY <1>1, <3>1
    <3> QED
      BY <2>3, <2>4, <3>1, <3>2 DEF SearchTyped
  <2>6. CASE pc' = "failed"
    BY <1>1, <2>5, <2>6, FailedTyped
  <2>7. CASE pc' # "failed"
    <3>1. IF digit < p THEN pc' = "http end" /\ socket[digit + 1] = "2"
                       ELSE pc' = "http"
      BY <1>1, <2>1, <2>2, <2>7 DEF Round
    <3>2. Chosen'
      BY <1>1, <3>1 DEF ProxyInv, Chosen, Step, Socks
    <3>3. socket # <<>>
      <4>1. Len(socket) # 0
        <5>1. Peeked <= Len(socket) /\ Peeked \in Nat /\ Len(socket) \in Nat
          BY <1>1, PeekedOf
        <5> QED
          BY <1>3, <5>1
      <4> QED
        BY <1>1, <4>1, EmptySeq
    <3>4. PICK r \in Replies("http") :
            /\ Answered(r) /\ Left(All(r), 0)
            /\ \/ Passed(r.cells)
               \/ r.cells = Repeat("v", BufferSize) /\ ~search.spaceFound
      BY <1>1, <3>3 DEF ProxyInv, Where, Searching, Unanswered
    <3>5. r \in AReply /\ search.at \in Nat
      BY RepliesOfHttp DEF ProxyInv, SearchTyped
    <3>6. Left(All(r), 0)' /\ Answered(r)' /\ Replies("http")' = Replies("http")
      BY <1>1, <3>4, SameReplies DEF Answered, Left
    <3>7. CASE Passed(r.cells)
      <4>1. /\ digit >= p => Passed(r.cells)'
            /\ digit < p => /\ digit + 1 \in 1..(Len(r.cells) - 4)
                            /\ socket[digit + 1] = r.cells[digit + 1]
        BY <1>1, <2>1, <2>2, <2>3, <3>4, <3>5, <3>7, RoundPasses
      <4>2. CASE digit >= p
        <5>0. ~(digit < p)
          BY <2>3, <4>2
        <5>1. pc' = "http"
          BY <3>1, <5>0
        <5>2. Searching'
          BY <3>6, <4>1, <4>2 DEF Searching
        <5> QED
          BY <2>5, <3>2, <5>1, <5>2, AtHttp DEF ProxyInv
      <4>3. CASE digit < p
        <5>1. pc' = "http end" /\ r.cells[digit + 1] = "2"
          BY <3>1, <4>1, <4>3
        <5>2. r.grants
          BY <4>1, <4>3, <5>1, GrantedByTwo
        <5>3. PICK last \in Int : last = Len(r.cells) - 4
          <6>1. Len(r.cells) \in Nat
            BY <3>5, Shape
          <6>2. Len(r.cells) - 4 \in Int
            BY <6>1
          <6> QED
            BY <6>2
        <5>4. /\ All(r) \in Seq(Cell) /\ last \in Nat
              /\ last + 4 + Len(HostText) = Len(All(r))
              /\ \A i \in 0..(Len(All(r)) - 4) :
                   SubSeq(All(r), i + 1, i + 4) = EndOfReply <=> i = last
              /\ \A i \in 1..Len(HostText) : All(r)[last + 4 + i] = HostText[i]
          BY <5>2, <5>3, OneEnd
        <5>5. 0 + search'.at <= last
          <6>1. search'.at = digit /\ digit + 1 <= last
            BY <2>4, <4>1, <4>3, <5>3
          <6> QED
            BY <2>3, <5>4, <6>1
        <5>6. EndAhead'
          BY <3>6, <5>4, <5>5 DEF EndAhead
        <5>7. peer'.asked = "nothing" /\ peer'.granted
          BY <3>6, <5>2 DEF Answered
        <5> QED
          BY <2>5, <3>2, <5>1, <5>6, <5>7, AtHttpEnd DEF ProxyInv
      <4> QED
        BY <2>3, <4>2, <4>3
    <3>8. CASE r.cells = Repeat("v", BufferSize) /\ ~search.spaceFound
      <4>1. ~found /\ digit >= p
        BY <1>1, <2>1, <2>2, <2>3, <3>4, <3>5, <3>8, RoundFails
      <4>0. ~(digit < p)
        BY <2>3, <4>1
      <4>2. pc' = "http"
        BY <3>1, <4>0
      <4>3. search'.spaceFound = FALSE
        BY <2>4, <4>1
      <4>4. Searching'
        BY <3>6, <3>8, <4>3 DEF Searching
      <4> QED
        BY <2>5, <3>2, <4>2, <4>4, AtHttp DEF ProxyInv
    <3> QED
      BY <3>4, <3>7, <3>8
  <2> QED
    BY <2>6, <2>7
<1> QED
  BY <1>2, <1>3

-----------------------------------------------------------------------------
(* The search for the end of the reply.                                    *)

(* Four cells in the data are four of all. *)
LEMMA FourSeen ==
  ASSUME NEW all \in Seq(Cell), NEW k \in Nat,
         socket \in Seq(Cell), wire \in Seq(Cell), Left(all, k),
         NEW i \in Nat, i + 4 <= Len(socket), NEW h \in Nat, h = k + i
  PROVE  /\ h \in 0..(Len(all) - 4)
         /\ SubSeq(socket, i + 1, i + 4) = SubSeq(all, h + 1, h + 4)
<1>1. PICK m \in Nat, w \in Nat, n \in Nat :
        m = Len(socket) /\ w = Len(wire) /\ n = Len(all)
  OBVIOUS
<1>2. k + m + w <= n
  BY <1>1 DEF Left
<1>3. h + 4 <= n /\ h \in 0..(n - 4)
  BY <1>1, <1>2
<1>4. \A j \in 1..4 : socket[i + j] = all[h + j]
  <2> SUFFICES ASSUME NEW j \in 1..4
               PROVE  socket[i + j] = all[h + j]
    OBVIOUS
  <2>1. i + j \in 1..m /\ k + (i + j) = h + j
    BY <1>1
  <2>2. socket[i + j] = all[k + (i + j)]
    BY <1>1, <2>1 DEF Left
  <2> QED
    BY <2>1, <2>2
<1>5. h + 4 <= Len(all)
  BY <1>1, <1>3
<1> DEFINE u == SubSeq(socket, i + 1, i + 4)
           v == SubSeq(all, h + 1, h + 4)
<1>7. u \in Seq(Cell) /\ Len(u) = 4 /\ \A j \in 1..4 : u[j] = socket[i + j]
  BY FourOf
<1>8. v \in Seq(Cell) /\ Len(v) = 4 /\ \A j \in 1..4 : v[j] = all[h + j]
  BY <1>5, FourOf
<1> HIDE DEF u, v
<1>9. Len(u) = Len(v) /\ \A j \in 1..4 : u[j] = v[j]
  BY <1>4, <1>7, <1>8
<1>10. 1..Len(u) = 1..4
  BY <1>7
<1>11. u = v
  BY <1>7, <1>8, <1>9, <1>10, SeqEqual
<1>6. SubSeq(socket, i + 1, i + 4) = SubSeq(all, h + 1, h + 4)
  BY <1>11 DEF u, v
<1> QED
  BY <1>1, <1>3, <1>6

LEMMA EndSeen ==
  ASSUME NEW all \in Seq(Cell), NEW k \in Nat, NEW last \in Nat,
         socket \in Seq(Cell), wire \in Seq(Cell), Left(all, k),
         \A i \in 0..(Len(all) - 4) :
            SubSeq(all, i + 1, i + 4) = EndOfReply <=> i = last,
         NEW i \in Nat, i + 4 <= Len(socket)
  PROVE  SubSeq(socket, i + 1, i + 4) = EndOfReply <=> k + i = last
<1>1. PICK h \in Nat : h = k + i
  OBVIOUS
<1>2. /\ h \in 0..(Len(all) - 4)
      /\ SubSeq(socket, i + 1, i + 4) = SubSeq(all, h + 1, h + 4)
  BY <1>1, FourSeen
<1>3. SubSeq(all, h + 1, h + 4) = EndOfReply <=> h = last
  BY <1>2
<1> QED
  BY <1>1, <1>2, <1>3

(* The last byte of the reply is read with what the host says. *)
LEMMA EndRead ==
  ASSUME NEW all \in Seq(Cell), NEW k \in Nat, NEW last \in Nat,
         k = last + 3, last + 4 + Len(HostText) = Len(all),
         SubSeq(all, last + 1, last + 4) = EndOfReply,
         \A i \in 1..Len(HostText) : all[last + 4 + i] = HostText[i],
         socket' \in Seq(Cell), wire' \in Seq(Cell), Left(all, k)',
         conf'.type = "http"
  PROVE  Left(LeftToRead, 0)'
<1> DEFINE rest == <<"\n">> \o HostText
<1>1. /\ rest \in Seq(Cell) /\ Len(rest) = 4
      /\ rest[1] = "\n" /\ \A i \in 1..3 : rest[1 + i] = HostText[i]
  <2>1. <<"\n">> \in Seq(Cell)
    <3>1. "\n" \in Cell
      BY DEF Cell
    <3> QED
      BY <3>1
  <2>2. Len(<<"\n">>) = 1 /\ <<"\n">>[1] = "\n"
    OBVIOUS
  <2> DEFINE head == <<"\n">>
  <2> HIDE DEF head
  <2>3. /\ head \o HostText \in Seq(Cell)
        /\ Len(head \o HostText) = Len(head) + Len(HostText)
        /\ \A i \in 1..(Len(head) + Len(HostText)) :
             (head \o HostText)[i] = IF i <= Len(head) THEN head[i]
                                     ELSE HostText[i - Len(head)]
    <3>1. head \in Seq(Cell) /\ HostText \in Seq(Cell)
      BY <2>1, TextTyped DEF head
    <3> QED
      BY <3>1, ConcatProperties
  <2>4. Len(head) = 1 /\ head[1] = "\n" /\ Len(HostText) = 3
    BY <2>2, TextTyped DEF head
  <2>5. (head \o HostText)[1] = "\n"
    BY <2>3, <2>4
  <2>6. \A i \in 1..3 : (head \o HostText)[1 + i] = HostText[i]
    <3>1. \A i \in 1..3 : 1 + i \in 1..(1 + 3) /\ ~(1 + i <= 1) /\ 1 + i - 1 = i
      OBVIOUS
    <3> QED
      BY <2>3, <2>4, <3>1
  <2> QED
    BY <2>3, <2>4, <2>5, <2>6 DEF head
<1>2. LeftToRead' = rest
  BY DEF LeftToRead
<1> HIDE DEF rest
<1>3. PICK n \in Nat : n = Len(all)
  OBVIOUS
<1>4. n = k + 4 /\ last + 4 = k + 1 /\ last + 4 <= n
  BY <1>3, TextTyped
<1>5. all[last + 4] = "\n"
  <2>1. \A j \in 1..4 : SubSeq(all, last + 1, last + 4)[j] = all[last + j]
    BY <1>3, <1>4, FourOf
  <2>2. EndOfReply[4] = "\n" /\ 4 \in 1..4
    BY DEF EndOfReply
  <2> QED
    BY <2>1, <2>2
<1>6. \A i \in 1..3 : all[k + (1 + i)] = rest[1 + i]
  <2>1. \A i \in 1..3 : all[last + 4 + i] = HostText[i]
    BY TextTyped
  <2>2. \A i \in 1..3 : last + 4 + i = k + (1 + i)
    BY <1>4
  <2> QED
    BY <1>1, <2>1, <2>2
<1>7. \A i \in 1..4 : all[k + i] = rest[i]
  <2>1. all[k + 1] = rest[1]
    BY <1>1, <1>4, <1>5
  <2>2. \A i \in 1..4 : i = 1 \/ (i - 1 \in 1..3 /\ i = 1 + (i - 1))
    OBVIOUS
  <2> QED
    BY <1>6, <2>1, <2>2
<1>8. Len(all) = k + Len(rest) /\ \A i \in 1..Len(rest) : all[k + i] = rest[i]
  BY <1>1, <1>3, <1>4, <1>7
<1>9. Left(rest, 0)'
  BY <1>1, <1>8, RestIsLeft
<1> QED
  BY <1>2, <1>9 DEF Left

LEMMA EndKeeps ==
  ASSUME ProxyInv, HttpEnd
  PROVE  ProxyInv'
<1>1. /\ pc = "http end" /\ UNCHANGED <<conf, wire, peer>>
      /\ socket \in Seq(Cell) /\ wire \in Seq(Cell) /\ conf.type = "http"
      /\ peer.asked = "nothing" /\ peer.granted /\ EndAhead
  BY DEF HttpEnd, ProxyInv, Chosen, Where
<1>2. PICK all \in Seq(Cell), k \in Nat, last \in Nat :
        /\ Left(all, k) /\ k + search.at <= last
        /\ last + 4 + Len(HostText) = Len(all)
        /\ \A i \in 0..(Len(all) - 4) :
             SubSeq(all, i + 1, i + 4) = EndOfReply <=> i = last
        /\ \A i \in 1..Len(HostText) : all[last + 4 + i] = HostText[i]
  BY <1>1 DEF EndAhead
<1>3. PICK at \in Nat, received \in Nat :
        /\ at = search.at /\ received = search.received
        /\ at <= received /\ received <= BufferSize /\ received <= Len(socket)
  BY <1>1 DEF ProxyInv, SearchTyped
<1>4. PICK m \in Nat : m = Len(socket)
  BY <1>1, LenProperties
<1>5. PICK away \in Nat : last = k + away /\ at <= away
  <2>1. k + at <= last
    BY <1>2, <1>3
  <2>2. last - k \in Nat /\ at <= last - k /\ last = k + (last - k)
    BY <2>1
  <2> QED
    BY <2>2
<1>6. \A i \in at..(received - 4) :
        SubSeq(socket, i + 1, i + 4) = EndOfReply <=> i = away
  <2> SUFFICES ASSUME NEW i \in at..(received - 4)
               PROVE  SubSeq(socket, i + 1, i + 4) = EndOfReply <=> i = away
    OBVIOUS
  <2>1. received <= m
    BY <1>3, <1>4
  <2>2. i \in Nat /\ i + 4 <= m
    BY <2>1
  <2>3. i + 4 <= Len(socket)
    BY <1>4, <2>2
  <2>4. SubSeq(socket, i + 1, i + 4) = EndOfReply <=> k + i = last
    <3>1. /\ socket \in Seq(Cell) /\ wire \in Seq(Cell) /\ Left(all, k)
          /\ \A h \in 0..(Len(all) - 4) :
                SubSeq(all, h + 1, h + 4) = EndOfReply <=> h = last
      BY <1>1, <1>2
    <3>2. i \in Nat /\ i + 4 <= Len(socket)
      BY <2>2, <2>3
    <3> QED
      BY <3>1, <3>2, EndSeen, Zenon
  <2>5. k + i = last <=> i = away
    BY <1>5, <2>2
  <2> QED
    BY <2>4, <2>5
<1>7. Ends = {i \in at..(received - 4) : i = away}
  BY <1>3, <1>6 DEF Ends
<1>8. CASE Ends # {}
  <2>1. Ends = {away} /\ away + 4 <= received
    BY <1>3, <1>7, <1>8
  <2>2. Min(Ends) = away
    <3>1. Ends \subseteq Int /\ away \in Ends /\ \A i \in Ends : away <= i
      BY <2>1
    <3> QED
      BY <3>1, Least
  <2>3. PICK n \in Nat : n = away + 3
    OBVIOUS
  <2>4. Consume(n) /\ pc' = "connected" /\ search' = search
    <3>1. Consume(RemovedAtEnd(Min(Ends))) /\ Succeeds /\ UNCHANGED search
      BY <1>8 DEF HttpEnd
    <3>2. RemovedAtEnd(Min(Ends)) = n
      BY <2>2, <2>3 DEF RemovedAtEnd
    <3> QED
      BY <3>1, <3>2 DEF Succeeds, Consume
  <2>5. n <= Len(socket)
    <3>1. received <= m
      BY <1>3, <1>4
    <3>2. n <= m
      BY <2>1, <2>3, <3>1
    <3> QED
      BY <1>4, <3>2
  <2>6. socket' \in Seq(Cell) /\ wire' \in Seq(Cell)
    BY <1>1, <2>4, ReadTyped
  <2>7. PICK c \in Nat : c = k + n
    OBVIOUS
  <2>8. Left(all, c)'
    <3>1. Left(all, k + n)'
      BY <1>1, <1>2, <2>4, <2>5, ReadLeaves
    <3> QED
      BY <2>7, <3>1 DEF Left
  <2>9. SubSeq(all, last + 1, last + 4) = EndOfReply
    <3>1. Len(all) = last + 7
      BY <1>2, TextTyped
    <3>2. last \in 0..(Len(all) - 4)
      BY <3>1
    <3> QED
      BY <1>2, <3>2
  <2>10. Left(LeftToRead, 0)'
    <3>1. c = last + 3
      BY <1>5, <2>3, <2>7
    <3> QED
      BY <1>1, <1>2, <2>6, <2>8, <2>9, <3>1, EndRead
  <2>11. Ended'
    BY <1>1, <2>10 DEF Ended
  <2>12. Chosen' /\ SearchTyped'
    BY <1>1, <2>4, <2>6 DEF ProxyInv, Chosen, SearchTyped, Step, Socks
  <2> QED
    BY <2>4, <2>11, <2>12, AtConnected DEF ProxyInv
<1>9. CASE Ends = {}
  <2>1. received - 3 <= away
    <3>1. away \notin at..(received - 4)
      BY <1>7, <1>9
    <3> QED
      BY <1>5, <3>1
  <2>2. PICK behind \in Nat : /\ behind = Max({search.at, search.received - 3})
                              /\ behind <= away /\ at <= behind
                              /\ received - 3 <= behind /\ behind <= received
    <3>1. Max({at, received - 3}) = IF at >= received - 3 THEN at ELSE received - 3
      BY Larger
    <3> QED
      BY <1>3, <1>5, <2>1, <3>1
  <2>3. PICK full \in BOOLEAN : full <=> received >= BufferSize
    <3>1. (received >= BufferSize) \in BOOLEAN
      OBVIOUS
    <3> QED
      BY <3>1, Zenon
  <2>4. BufferSize \in Nat /\ BufferSize >= 6
    BY ProxyAssumption
  <2>5. PICK removed \in Nat :
          /\ removed = IF full THEN BufferSize - behind ELSE 0
          /\ removed <= m
          /\ k + removed + (IF full THEN 0 ELSE behind) <= last
    <3>1. received <= BufferSize /\ received <= m
      BY <1>3, <1>4
    <3>2. CASE full
      <4>1. received = BufferSize
        BY <2>3, <2>4, <3>1, <3>2
      <4>2. /\ BufferSize - behind \in Nat /\ BufferSize - behind <= m
            /\ k + (BufferSize - behind) <= last
        BY <1>5, <2>2, <2>4, <3>1, <4>1
      <4> QED
        BY <3>2, <4>2
    <3>3. CASE ~full
      BY <1>5, <2>2, <3>3
    <3> QED
      BY <3>2, <3>3
  <2>6. /\ Consume(removed) /\ pc' = pc
        /\ search' = [search EXCEPT
              !.at = IF full THEN 0 ELSE behind,
              !.received = Min({BufferSize, Len(socket) - removed})]
    <3>1. removed = IF search.received >= BufferSize
                    THEN RemovedWhenFull(Max({search.at, search.received - 3}))
                    ELSE 0
      BY <1>3, <2>2, <2>3, <2>5 DEF RemovedWhenFull
    <3>2. LET f == search.received >= BufferSize
              b == Max({search.at, search.received - 3})
              n == IF f THEN RemovedWhenFull(b) ELSE 0
          IN  /\ Consume(n) /\ pc' = pc
              /\ search' = [search EXCEPT
                    !.at = IF f THEN 0 ELSE b,
                    !.received = Min({BufferSize, Len(socket) - n})]
      BY <1>9 DEF HttpEnd
    <3>3. full <=> search.received >= BufferSize
      BY <1>3, <2>3
    <3> QED
      BY <2>2, <3>1, <3>2, <3>3 DEF Consume
  <2>7. socket' \in Seq(Cell) /\ Len(socket') = m - removed
    <3>1. socket' \in Seq(Cell)
      BY <1>1, <2>6, ReadTyped
    <3>2. Len(socket') = IF removed <= Len(socket) THEN Len(socket) - removed ELSE 0
      BY <1>1, <2>6, Behind DEF Consume
    <3> QED
      BY <1>4, <2>5, <3>1, <3>2
  <2>8. PICK c \in Nat : c = k + removed
    OBVIOUS
  <2>9. Left(all, c)'
    <3>1. Left(all, k + removed)'
      BY <1>1, <1>2, <1>4, <2>5, <2>6, ReadLeaves
    <3> QED
      BY <2>8, <3>1 DEF Left
  <2>10. PICK again \in Nat, now \in Nat :
           /\ again = search'.at /\ now = search'.received
           /\ again = IF full THEN 0 ELSE behind
           /\ now = IF BufferSize <= m - removed THEN BufferSize ELSE m - removed
    <3>1. search \in [at : Nat, received : Nat, spaceFound : BOOLEAN]
      BY DEF ProxyInv, SearchTyped
    <3>2. /\ search'.at = IF full THEN 0 ELSE behind
          /\ search'.received = Min({BufferSize, m - removed})
      BY <1>4, <2>6, <3>1
    <3>3. m - removed \in Nat
      BY <2>5
    <3>4. Min({BufferSize, m - removed})
            = IF BufferSize <= m - removed THEN BufferSize ELSE m - removed
      BY <2>4, <3>3, Smaller
    <3> QED
      BY <2>4, <3>2, <3>3, <3>4
  <2>11. SearchTyped'
    <3>1. search' \in [at : Nat, received : Nat, spaceFound : BOOLEAN]
      <4>1. search'.spaceFound = search.spaceFound /\ search.spaceFound \in BOOLEAN
        BY <2>6 DEF ProxyInv, SearchTyped
      <4> QED
        BY <2>6, <2>10, <4>1 DEF ProxyInv, SearchTyped
    <3>2. again <= now /\ now <= BufferSize /\ now <= m - removed
      <4>1. received <= m /\ received <= BufferSize
        BY <1>3, <1>4
      <4>2. CASE full
        BY <2>4, <2>5, <2>10, <4>2
      <4>3. CASE ~full
        <5>1. /\ removed = 0 /\ again = behind
              /\ now = IF BufferSize <= m - removed THEN BufferSize ELSE m - removed
          BY <2>5, <2>10, <4>3
        <5> QED
          BY <2>2, <2>4, <4>1, <5>1
      <4> QED
        BY <4>2, <4>3
    <3>3. now <= Len(socket')
      BY <2>7, <3>2
    <3> QED
      BY <2>10, <3>1, <3>2, <3>3 DEF SearchTyped
  <2>12. c + search'.at <= last
    BY <2>5, <2>8, <2>10
  <2>13. EndAhead'
    BY <1>2, <2>9, <2>12 DEF EndAhead
  <2>14. Chosen'
    BY <1>1, <2>6, <2>7 DEF ProxyInv, Chosen
  <2> QED
    BY <1>1, <2>6, <2>11, <2>13, <2>14, AtHttpEnd DEF ProxyInv
<1> QED
  BY <1>8, <1>9

-----------------------------------------------------------------------------
(* The proxy and the network.                                              *)

LEMMA LeftTyped ==
  LeftToRead \in Seq(Cell)
<1>1. PICK left \in {HostText, <<"\n">> \o HostText, SubSeq(HostText, 3, 3)} :
        left = LeftToRead
  BY Zenon DEF LeftToRead
<1>2. \A i \in 3..3 : i \in 1..Len(HostText)
  BY TextTyped
<1>3. \A i \in 3..3 : HostText[i] \in Cell
  BY <1>2, TextTyped, ElementOfSeq
<1>4. SubSeq(HostText, 3, 3) \in Seq(Cell)
  BY <1>3, SubSeqProperties
<1>5. "\n" \in Cell
  BY DEF Cell
<1>6. <<"\n">> \in Seq(Cell)
  BY <1>5
<1>7. <<"\n">> \o HostText \in Seq(Cell)
  BY <1>6, TextTyped, ConcatProperties
<1> QED
  BY <1>1, <1>4, <1>7, TextTyped

(* What arrives or is lost leaves connect where it is. *)
LEMMA StaysWhere ==
  ASSUME ProxyInv, UNCHANGED <<conf, pc, search>>, pc # "start",
         \A all \in Seq(Cell), k \in Nat : Left(all, k) => Left(all, k)',
         \A what : Unanswered(what) => Unanswered(what)',
         peer.asked = "nothing" => peer'.asked = "nothing",
         peer'.granted = peer.granted, peer'.bound = peer.bound
  PROVE  Where'
<1>1. \A what \in Commands : \A r \in Replies(what) : All(r) \in Seq(Cell)
  BY AnyReply, AllOf
<1>2. \A what : Replies(what)' = Replies(what)
  BY SameReplies
<1>3. \A r : Answered(r) => Answered(r)'
  BY DEF Answered
<1>4. ASSUME NEW dialogue \in Socks, pc = dialogue
      PROVE  Waits(dialogue)'
  <2>1. Waits(dialogue) /\ dialogue \in Commands
    BY <1>4 DEF ProxyInv, Where, Socks, Commands, Type
  <2>2. CASE Unanswered(dialogue)
    BY <2>2 DEF Waits
  <2>3. CASE ~Unanswered(dialogue)
    <3>1. PICK r \in Replies(dialogue) : Answered(r) /\ Left(All(r), 0)
      BY <2>1, <2>3 DEF Waits
    <3>2. Answered(r)' /\ Left(All(r), 0)'
      BY <1>1, <1>3, <2>1, <3>1
    <3> QED
      BY <1>2, <3>2 DEF Waits
  <2> QED
    BY <2>2, <2>3
<1>5. ASSUME pc \in {"1", "3", "4"}
      PROVE  (\E r \in Replies("socks5") :
                r.cells[4] = pc /\ r.grants /\ Answered(r) /\ Left(All(r), 5))'
  <2>1. PICK r \in Replies("socks5") :
          r.cells[4] = pc /\ r.grants /\ Answered(r) /\ Left(All(r), 5)
    BY <1>5 DEF ProxyInv, Where
  <2>2. All(r) \in Seq(Cell)
    BY <1>1 DEF Commands, Type
  <2>3. Answered(r)' /\ Left(All(r), 5)' /\ r.cells[4] = pc' /\ r.grants
    BY <1>3, <2>1, <2>2
  <2> QED
    BY <1>2, <2>3
<1>6. ASSUME pc = "http"
      PROVE  Searching'
  <2>1. Searching
    BY <1>6 DEF ProxyInv, Where
  <2>2. CASE Unanswered("http") /\ search.at = 0 /\ ~search.spaceFound
    BY <2>2 DEF Searching
  <2>3. CASE ~(Unanswered("http") /\ search.at = 0 /\ ~search.spaceFound)
    <3>1. PICK r \in Replies("http") :
            /\ Answered(r) /\ Left(All(r), 0)
            /\ \/ Passed(r.cells)
               \/ r.cells = Repeat("v", BufferSize) /\ ~search.spaceFound
      BY <2>1, <2>3 DEF Searching
    <3>2. All(r) \in Seq(Cell)
      BY <1>1 DEF Commands, Type
    <3>3. Answered(r)' /\ Left(All(r), 0)'
      BY <1>3, <3>1, <3>2
    <3>4. Passed(r.cells) => Passed(r.cells)'
      BY DEF Passed
    <3> QED
      BY <1>2, <3>1, <3>3, <3>4 DEF Searching
  <2> QED
    BY <2>2, <2>3
<1>7. ASSUME pc = "http end"
      PROVE  peer'.asked = "nothing" /\ peer'.granted /\ EndAhead'
  <2>1. peer.asked = "nothing" /\ peer.granted /\ EndAhead
    BY <1>7 DEF ProxyInv, Where
  <2>2. PICK all \in Seq(Cell), k \in Nat, last \in Nat :
          /\ Left(all, k) /\ k + search.at <= last
          /\ last + 4 + Len(HostText) = Len(all)
          /\ \A i \in 0..(Len(all) - 4) :
               SubSeq(all, i + 1, i + 4) = EndOfReply <=> i = last
          /\ \A i \in 1..Len(HostText) : all[last + 4 + i] = HostText[i]
    BY <2>1 DEF EndAhead
  <2>3. Left(all, k)' /\ k + search'.at <= last
    BY <2>2
  <2>4. EndAhead'
    BY <2>2, <2>3 DEF EndAhead
  <2> QED
    BY <2>1, <2>4
<1>8. ASSUME pc = "connected"
      PROVE  Ended'
  <2>1. Ended
    BY <1>8 DEF ProxyInv, Where
  <2>2. CASE conf.type \in {"none", "telnet"} /\ Unanswered(conf.type)
    <3>1. PICK what \in {"none", "telnet"} : what = conf.type
      BY <2>2
    <3>2. Unanswered(what)'
      BY <2>2, <3>1
    <3> QED
      BY <3>1, <3>2 DEF Ended, Unanswered
  <2>3. CASE ~(conf.type \in {"none", "telnet"} /\ Unanswered(conf.type))
    <3>1. /\ peer.asked = "nothing"
          /\ conf.type \in {"http", "socks5"} => peer.granted
          /\ peer.granted => Left(LeftToRead, 0)
      BY <2>1, <2>3 DEF Ended
    <3>2. PICK left \in Seq(Cell) : left = LeftToRead
      BY LeftTyped
    <3>4. left = LeftToRead'
      BY <3>2 DEF LeftToRead
    <3>5. peer'.granted => Left(left, 0)'
      BY <3>1, <3>2 DEF Left
    <3>6. peer'.granted => Left(LeftToRead, 0)'
      BY <3>4, <3>5 DEF Left
    <3> QED
      BY <3>1, <3>6 DEF Ended
  <2> QED
    BY <2>2, <2>3
<1> QED
  BY <1>4, <1>5, <1>6, <1>7, <1>8 DEF Where

LEMMA ArrivesKeeps ==
  ASSUME ProxyInv, Arrives
  PROVE  ProxyInv'
<1>1. /\ socket \in Seq(Cell) /\ wire \in Seq(Cell) /\ wire # <<>>
      /\ socket' = Append(socket, Head(wire)) /\ wire' = Tail(wire)
      /\ UNCHANGED <<conf, pc, search, peer>>
  BY DEF Arrives, ProxyInv, Chosen
<1>2. socket' \in Seq(Cell) /\ wire' \in Seq(Cell) /\ Len(socket') = Len(socket) + 1
  BY <1>1, HeadTailProperties, AppendProperties
<1>3. Chosen'
  BY <1>1, <1>2 DEF ProxyInv, Chosen
<1>4. SearchTyped'
  <2>1. search.received \in Nat /\ Len(socket) \in Nat
    <3>1. search.received \in Nat
      BY DEF ProxyInv, SearchTyped
    <3>2. Len(socket) \in Nat
      BY <1>1, LenProperties
    <3> QED
      BY <3>1, <3>2
  <2>2. search.received <= Len(socket) => search.received <= Len(socket')
    BY <1>2, <2>1
  <2> QED
    BY <1>1, <2>2 DEF ProxyInv, SearchTyped
<1>5. pc # "start" /\ \A what : ~Unanswered(what)
  BY <1>1 DEF ProxyInv, Where, Unanswered
<1>6. \A all \in Seq(Cell), k \in Nat : Left(all, k) => Left(all, k)'
  BY <1>1, ArrivalLeaves
<1>7. Where'
  BY <1>1, <1>5, <1>6, StaysWhere
<1> QED
  BY <1>3, <1>4, <1>7 DEF ProxyInv

LEMMA ClosesKeeps ==
  ASSUME ProxyInv, ProxyCloses
  PROVE  ProxyInv'
<1>1. /\ socket \in Seq(Cell) /\ wire \in Seq(Cell) /\ peer \in Peer
      /\ UNCHANGED <<conf, pc, socket, search>> /\ pc # "start"
      /\ wire' = wire \/ wire' = <<>>
  BY DEF ProxyCloses, ProxyInv, Chosen
<1>2. /\ peer' \in Peer /\ peer'.asked = "nothing" /\ peer'.target = peer.target
      /\ peer'.granted = peer.granted /\ peer'.bound = peer.bound
  BY <1>1 DEF ProxyCloses, Peer
<1>3. socket' \in Seq(Cell) /\ wire' \in Seq(Cell)
  BY <1>1, EmptySeq
<1>4. Chosen'
  BY <1>1, <1>2, <1>3 DEF ProxyInv, Chosen
<1>5. SearchTyped'
  BY <1>1 DEF ProxyInv, SearchTyped
<1>6. \A all \in Seq(Cell), k \in Nat : Left(all, k) => Left(all, k)'
  BY <1>1, LossLeaves
<1>7. \A what : Unanswered(what) => Unanswered(what)'
  BY <1>1, <1>2 DEF Unanswered
<1>8. Where'
  BY <1>1, <1>2, <1>6, <1>7, StaysWhere
<1> QED
  BY <1>4, <1>5, <1>8 DEF ProxyInv

LEMMA ReceiveFailsKeeps ==
  ASSUME ProxyInv, ReceiveFails
  PROVE  ProxyInv'
<1>1. /\ socket \in Seq(Cell) /\ peer \in Peer
      /\ conf.type \in Type /\ conf.list \in Seq({4, 6})
  BY DEF ProxyInv, Chosen
<1>2. pc' = "failed" /\ UNCHANGED <<conf, socket, search, wire, peer>>
  BY DEF ReceiveFails, Fails
<1> QED
  BY <1>1, <1>2, Failed

LEMMA AnswersKeep ==
  ASSUME ProxyInv, ProxyAnswers
  PROVE  ProxyInv'
<1>1. /\ peer.asked # "nothing" /\ peer.asked \in Commands /\ peer \in Peer
      /\ UNCHANGED <<conf, pc, socket, search>>
      /\ socket \in Seq(Cell) /\ wire \in Seq(Cell)
  BY DEF ProxyAnswers, ProxyInv, Chosen, Peer
<1>2. PICK r \in Replies(peer.asked) :
        /\ wire' = wire \o r.cells \o (IF r.grants THEN HostText ELSE <<>>)
        /\ peer' = [peer EXCEPT !.asked = "nothing", !.granted = r.grants,
                                !.bound = r.bound]
  BY DEF ProxyAnswers
<1>3. r \in AReply
  BY <1>1, AnyReply
<1>4. peer' \in Peer /\ peer'.target = peer.target /\ Answered(r)'
  <2>1. r.grants \in BOOLEAN /\ r.bound \in {1, 4, 6}
    BY <1>3 DEF AReply
  <2> QED
    BY <1>1, <1>2, <2>1 DEF Peer, Answered
<1>5. wire' \in Seq(Cell)
  <2>1. r.cells \in Seq(Cell)
    BY <1>3, Shape
  <2>2. wire \o r.cells \in Seq(Cell)
    BY <1>1, <2>1, ConcatProperties
  <2>3. (IF r.grants THEN HostText ELSE <<>>) \in Seq(Cell)
    BY TextTyped, EmptySeq
  <2> DEFINE before == wire \o r.cells
             text == IF r.grants THEN HostText ELSE <<>>
  <2> HIDE DEF before, text
  <2>4. before \o text \in Seq(Cell)
    BY <2>2, <2>3, ConcatProperties DEF before, text
  <2> QED
    BY <1>2, <2>4 DEF before, text
<1>6. Chosen'
  BY <1>1, <1>4, <1>5 DEF ProxyInv, Chosen
<1>7. SearchTyped'
  BY <1>1 DEF ProxyInv, SearchTyped
<1>8. \A what : Unanswered(what) => what = peer.asked /\ socket = <<>> /\ wire = <<>>
  BY <1>1 DEF Unanswered
<1>9. ASSUME NEW what, Unanswered(what)
      PROVE  r \in Replies(what)' /\ Left(All(r), 0)'
  <2>1. what = peer.asked /\ socket = <<>> /\ wire = <<>>
    BY <1>8, <1>9
  <2>2. Replies(what)' = Replies(what)
    BY <1>1, SameReplies
  <2>3. Left(All(r), 0)'
    BY <1>1, <1>2, <1>3, <2>1, AnswerLeaves
  <2> QED
    BY <1>2, <2>1, <2>2, <2>3
<1>10. ASSUME NEW dialogue \in Socks, pc = dialogue
       PROVE  Waits(dialogue)'
  <2>1. Unanswered(dialogue)
    BY <1>1, <1>10 DEF ProxyInv, Where, Waits, Answered
  <2> QED
    BY <1>4, <1>9, <2>1 DEF Waits
<1>11. ASSUME pc = "http"
       PROVE  Searching'
  <2>1. Unanswered("http") /\ search.at = 0 /\ ~search.spaceFound
    BY <1>1, <1>11 DEF ProxyInv, Where, Searching, Answered
  <2>2. r \in Replies("http")' /\ Left(All(r), 0)' /\ r \in Replies("http")
    BY <1>1, <1>9, <2>1, SameReplies
  <2>3. CASE r.grants
    <3>1. PICK n \in Nat : n = Len(r.cells)
      BY <1>3, Shape
    <3>2. GrantsHttp(r.cells)
      BY <2>2, <2>3, RepliesOfHttp, ProxyAssumption
    <3>3. PICK space \in 1..(n - 4), digit \in 1..(n - 4) :
            /\ space < digit /\ r.cells[space] = " " /\ r.cells[digit] = "2"
            /\ \A i \in 1..(space - 1) : r.cells[i] # " "
            /\ \A i \in space..(digit - 1) : r.cells[i] \notin {"2", "4"}
      BY <3>1, <3>2 DEF GrantsHttp
    <3>4. search'.at = 0 /\ ~search'.spaceFound /\ 0 < digit /\ 0 <= space - 1
      BY <1>1, <2>1
    <3>5. Passed(r.cells)'
      BY <3>1, <3>3, <3>4 DEF Passed
    <3> QED
      BY <1>4, <2>2, <3>5 DEF Searching
  <2>4. CASE r.cells = Refusal
    <3>1. PICK space \in 1..(7 - 4), digit \in 1..(7 - 4) : space = 2 /\ digit = 3
      OBVIOUS
    <3>2. r.cells[space] = " " /\ r.cells[digit] = "4" /\ Len(r.cells) = 7
      BY <2>4, <3>1, RefusalIs
    <3>3. \A i \in 1..(space - 1) : r.cells[i] # " "
      <4>1. \A i \in 1..(space - 1) : i = 1
        BY <3>1
      <4> QED
        BY <4>1, <2>4, RefusalIs
    <3>4. \A i \in space..(digit - 1) : r.cells[i] \notin {"2", "4"}
      <4>1. \A i \in space..(digit - 1) : i = space
        BY <3>1
      <4> QED
        BY <4>1, <3>2
    <3>5. /\ search'.at = 0 /\ ~search'.spaceFound
          /\ space < digit /\ 0 < digit /\ 0 <= space - 1
      BY <1>1, <2>1, <3>1
    <3>6. Passed(r.cells)'
      BY <3>2, <3>3, <3>4, <3>5 DEF Passed
    <3> QED
      BY <1>4, <2>2, <3>6 DEF Searching
  <2>5. CASE r.cells = Repeat("v", BufferSize)
    BY <1>1, <1>4, <2>1, <2>2, <2>5 DEF Searching
  <2> QED
    BY <2>2, <2>3, <2>4, <2>5, RepliesOfHttp
<1>12. ASSUME pc = "connected"
       PROVE  Ended'
  <2>1. conf.type \in {"none", "telnet"} /\ Unanswered(conf.type)
    BY <1>1, <1>12 DEF ProxyInv, Where, Ended
  <2>2. PICK what \in {"none", "telnet"} : what = conf.type
    BY <2>1
  <2>3. r \in Replies(what) /\ Left(All(r), 0)'
    BY <1>2, <1>8, <1>9, <2>1, <2>2
  <2>4. Len(r.cells) = 0 /\ r.grants
    BY <2>3, NoReplies
  <2>5. /\ All(r) \in Seq(Cell) /\ Len(All(r)) = 0 + Len(HostText)
        /\ \A i \in 1..Len(HostText) : All(r)[0 + i] = HostText[i]
    <3>1. /\ All(r) \in Seq(Cell) /\ Len(All(r)) = Len(r.cells) + 3
          /\ \A i \in 1..3 : All(r)[Len(r.cells) + i] = HostText[i]
      BY <1>3, <2>4, AllOf
    <3> QED
      BY <2>4, <3>1, TextTyped
  <2>6. socket' \in Seq(Cell)
    BY <1>1
  <2>7. Left(HostText, 0)'
    BY <1>5, <2>3, <2>5, <2>6, RestIsLeft, TextTyped
  <2>8. LeftToRead' = HostText
    BY <1>1, <2>1 DEF LeftToRead
  <2>9. Left(LeftToRead, 0)'
    BY <2>7, <2>8 DEF Left
  <2>10. peer'.asked = "nothing" /\ conf'.type \in {"none", "telnet"}
    BY <1>1, <1>4, <2>1 DEF Answered
  <2> QED
    BY <2>9, <2>10 DEF Ended
<1>13. pc # "start" /\ pc \notin {"1", "3", "4"} /\ pc # "http end"
  BY <1>1 DEF ProxyInv, Where, Unanswered, Answered
<1>14. Where'
  BY <1>1, <1>10, <1>11, <1>12, <1>13 DEF Where
<1> QED
  BY <1>6, <1>7, <1>14 DEF ProxyInv

LEMMA StutterKeeps ==
  ASSUME ProxyInv, UNCHANGED vars
  PROVE  ProxyInv'
<1>1. UNCHANGED <<conf, pc, socket, search, wire, peer>>
  BY DEF vars
<1>2. Chosen' /\ SearchTyped'
  BY <1>1 DEF ProxyInv, Chosen, SearchTyped
<1>3. CASE pc = "start"
  <2>1. /\ Unanswered("nothing") /\ ~peer.closed /\ conf \in Confs
        /\ search = [at |-> 0, received |-> 0, spaceFound |-> FALSE]
    BY <1>3 DEF ProxyInv, Where
  <2>2. /\ Unanswered("nothing")' /\ ~peer'.closed /\ conf' \in Confs
        /\ search' = [at |-> 0, received |-> 0, spaceFound |-> FALSE]
    BY <1>1, <2>1 DEF Unanswered
  <2>3. pc' = "start"
    BY <1>1, <1>3
  <2>4. Where'
    BY <2>2, <2>3 DEF Where, Socks
  <2> QED
    BY <1>2, <2>4 DEF ProxyInv
<1>4. CASE pc # "start"
  <2>1. \A all \in Seq(Cell), k \in Nat : Left(all, k) => Left(all, k)'
    BY <1>1, SameLeft
  <2>2. \A what : Unanswered(what) => Unanswered(what)'
    BY <1>1 DEF Unanswered
  <2> QED
    BY <1>1, <1>2, <1>4, <2>1, <2>2, StaysWhere DEF ProxyInv
<1> QED
  BY <1>2, <1>3, <1>4 DEF ProxyInv

-----------------------------------------------------------------------------

(* Where connect is, what was asked, what of the answer was read and what of
   it is still to come agree, in every state. *)
THEOREM ProxyInvariant == Spec => []ProxyInv
<1>1. Init => ProxyInv
  BY Begins
<1>2. ProxyInv /\ [Next]_vars => ProxyInv'
  <2> SUFFICES ASSUME ProxyInv, [Next]_vars
               PROVE  ProxyInv'
    OBVIOUS
  <2>1. CASE Start
    BY <2>1, StartKeeps
  <2>2. CASE Socks4Reply
    BY <2>2, Socks4Keeps
  <2>3. CASE MethodChosen
    BY <2>3, MethodKeeps
  <2>4. CASE Authenticated
    BY <2>4, AuthenticatedKeeps
  <2>5. CASE Socks5Reply
    BY <2>5, Socks5Keeps
  <2>6. CASE Socks5Rest
    BY <2>6, Socks5RestKeeps
  <2>7. CASE HttpStatus
    BY <2>7, StatusKeeps
  <2>8. CASE HttpEnd
    BY <2>8, EndKeeps
  <2>9. CASE ProxyAnswers
    BY <2>9, AnswersKeep
  <2>10. CASE Arrives
    BY <2>10, ArrivesKeeps
  <2>11. CASE ProxyCloses
    BY <2>11, ClosesKeeps
  <2>12. CASE ReceiveFails
    BY <2>12, ReceiveFailsKeeps
  <2>13. CASE UNCHANGED vars
    BY <2>13, StutterKeeps
  <2> QED
    BY <2>1, <2>2, <2>3, <2>4, <2>5, <2>6, <2>7, <2>8, <2>9, <2>10, <2>11, <2>12,
       <2>13
       DEF Next, Connect
<1> QED
  BY <1>1, <1>2, PTL DEF Spec

(* What is left from the first cell on is all there is to come. *)
LEMMA LeftIsAll ==
  ASSUME NEW rest \in Seq(Cell), socket \in Seq(Cell), wire \in Seq(Cell),
         Left(rest, 0), ~peer.closed
  PROVE  socket \o wire = rest
<1> DEFINE come == socket \o wire
<1>1. PICK m \in Nat, w \in Nat : m = Len(socket) /\ w = Len(wire)
  OBVIOUS
<1>2. Len(rest) = m + w
  BY <1>1 DEF Left
<1>3. /\ come \in Seq(Cell) /\ Len(come) = m + w
      /\ \A i \in 1..(m + w) : come[i] = IF i <= m THEN socket[i] ELSE wire[i - m]
  BY <1>1, ConcatProperties
<1> HIDE DEF come
<1>4. \A i \in 1..(m + w) : come[i] = rest[i]
  <2> SUFFICES ASSUME NEW i \in 1..(m + w)
               PROVE  come[i] = rest[i]
    OBVIOUS
  <2>1. CASE i <= m
    <3>1. i \in 1..m /\ 0 + i = i
      BY <2>1
    <3>2. socket[i] = rest[0 + i]
      BY <1>1, <3>1 DEF Left
    <3> QED
      BY <1>3, <2>1, <3>1, <3>2
  <2>2. CASE ~(i <= m)
    <3>1. i - m \in 1..w /\ 0 + m + (i - m) = i
      BY <2>2
    <3>2. wire[i - m] = rest[0 + m + (i - m)]
      BY <1>1, <3>1 DEF Left
    <3> QED
      BY <1>3, <2>2, <3>1, <3>2
  <2> QED
    BY <2>1, <2>2
<1>5. Len(come) = Len(rest) /\ \A i \in 1..Len(come) : come[i] = rest[i]
  BY <1>2, <1>3, <1>4
<1>6. come = rest
  BY <1>3, <1>5, SeqEqual
<1> QED
  BY <1>6 DEF come

(* When connect succeeds, a proxy that replies was asked for the host and
   granted it, and the terminal reads what the host says from its first byte
   on: for any replies of HTTP that grant and any size of the buffer from six
   bytes on, with the exceptions of the property. *)
THEOREM ConnectedIsTheHostHolds == Spec => []ConnectedIsTheHost
<1>1. ProxyInv => ConnectedIsTheHost
  <2> SUFFICES ASSUME ProxyInv, pc = "connected", conf.type # "none"
               PROVE  /\ conf.type \in {"http", "socks5"} => peer.granted
                      /\ conf.type = "socks4" /\ ~WrongTarget => peer.target = 4
                      /\ conf.type \in {"http", "socks5"} /\ ~WrongTarget =>
                           peer.target # 0
                      /\ peer.granted /\ ~peer.closed => socket \o wire = LeftToRead
    BY DEF ConnectedIsTheHost
  <2>1. Ended
    BY DEF ProxyInv, Where
  <2>2. /\ peer.target = Target(conf) /\ conf.list \in Seq({4, 6})
        /\ conf.type = "socks4" => Socks4Address(conf.list) # 0
        /\ socket \in Seq(Cell) /\ wire \in Seq(Cell)
    BY DEF ProxyInv, Chosen
  <2>3. /\ Selected(conf.list) \in {0, 4, 6}
        /\ conf.list # <<>> => Selected(conf.list) # 0
        /\ Socks4Address(conf.list) \in {0, Selected(conf.list)}
    BY <2>2, Selection
  <2>4. conf.type \in {"http", "socks5"} => peer.granted
    BY <2>1 DEF Ended
  <2>5. conf.type = "socks4" /\ ~WrongTarget => peer.target = 4
    BY <2>2, <2>3 DEF Target, WrongTarget
  <2>6. conf.type \in {"http", "socks5"} /\ ~WrongTarget => peer.target # 0
    <3>1. CASE conf.type = "http"
      BY <2>2, <2>3, <3>1 DEF Target, WrongTarget
    <3>2. CASE conf.type = "socks5"
      BY <2>2, <2>3, <3>2 DEF Target
    <3> QED
      BY <3>1, <3>2
  <2>7. ASSUME peer.granted, ~peer.closed
        PROVE  socket \o wire = LeftToRead
    <3>1. Left(LeftToRead, 0)
      BY <2>1, <2>7 DEF Ended, Unanswered
    <3>2. PICK rest \in Seq(Cell) : rest = LeftToRead
      BY LeftTyped
    <3>3. Left(rest, 0)
      BY <3>1, <3>2
    <3>4. socket \o wire = rest
      BY <2>2, <2>7, <3>3, LeftIsAll
    <3> QED
      BY <3>2, <3>4
  <2> QED
    BY <2>4, <2>5, <2>6, <2>7
<1> QED
  BY <1>1, ProxyInvariant, PTL

-----------------------------------------------------------------------------
(***************************************************************************)
(* isMatch.  Two recursive functions over the same pattern: Rests are the  *)
(* places of the reference, Loops what the rounds of the loop return.  That*)
(* both exist and what they are is counted down from the end of it.        *)
(***************************************************************************)

(* What holds at N, and at n when it holds behind n, holds from 0 to N. *)
LEMMA CountedDown ==
  ASSUME NEW N \in Nat, NEW S, N \in S,
         \A n \in 0..(N - 1) : (\A m \in (n + 1)..N : m \in S) => n \in S
  PROVE  0..N \subseteq S
<1> DEFINE T == {N - n : n \in {i \in 0..N : i \notin S}}
<1> SUFFICES ASSUME NEW bad \in 0..N, bad \notin S PROVE FALSE
  OBVIOUS
<1>1. T \subseteq Nat /\ N - bad \in T
  OBVIOUS
<1>2. PICK d \in T : \A i \in T : d <= i
  BY <1>1, LeastExists
<1>3. PICK n \in 0..N : n \notin S /\ d = N - n
  BY <1>2
<1>4. n \in 0..(N - 1)
  BY <1>3
<1>5. PICK m \in (n + 1)..N : m \notin S
  BY <1>3, <1>4
<1>6. N - m \in T /\ N - m < d
  BY <1>3, <1>4, <1>5
<1>7. d \in Nat /\ d <= N - m /\ m \in Nat
  BY <1>1, <1>2, <1>4, <1>5, <1>6
<1> QED
  BY <1>6, <1>7

(* The places of the reference, from the end of the pattern on. *)
Rests(host, pattern, f) ==
  f = [i \in 0..Len(pattern) |->
         IF i = Len(pattern) THEN {Len(host)}
         ELSE MatchRest(host, pattern[i + 1], f[i + 1])]

LEMMA RestsExist ==
  ASSUME NEW host, NEW pattern, Len(pattern) \in Nat
  PROVE  \E f : Rests(host, pattern, f)
<1> DEFINE N == Len(pattern)
           one(i, rest) == MatchRest(host, pattern[i + 1], rest)
           Is(n, f) == f = [i \in n..N |-> IF i = N THEN {Len(host)} ELSE one(i, f[i + 1])]
           S == {n \in 0..N : \E f : Is(n, f)}
<1> HIDE DEF N
<1>0. N \in Nat
  BY DEF N
<1>1. N \in S
  <2> DEFINE f == [i \in N..N |-> {Len(host)}]
  <2>1. f = [i \in N..N |-> IF i = N THEN {Len(host)} ELSE one(i, f[i + 1])]
    BY <1>0
  <2>2. Is(N, f)
    BY <2>1, Zenon
  <2>3. \E x : Is(N, x)
    BY <2>2, Zenon
  <2> HIDE DEF Is
  <2> QED
    BY <1>0, <2>3
<1>2. ASSUME NEW n \in 0..(N - 1), \A m \in (n + 1)..N : m \in S
      PROVE  n \in S
  <2>1. n + 1 \in S
    <3> HIDE DEF S
    <3> QED
      BY <1>0, <1>2
  <2>2. PICK f : Is(n + 1, f)
    BY <2>1
  <2> HIDE DEF one
  <2> DEFINE g == [i \in n..N |-> IF i = n THEN one(n, f[n + 1]) ELSE f[i]]
             h == [i \in n..N |-> IF i = N THEN {Len(host)} ELSE one(i, g[i + 1])]
  <2>3. ASSUME NEW i \in n..N
        PROVE  g[i] = h[i]
    <3>1. CASE i = n
      BY <1>0, <3>1
    <3>2. CASE i # n /\ i # N
      <4>1. g[i] = f[i] /\ g[i + 1] = f[i + 1] /\ i \in (n + 1)..N
        BY <1>0, <3>2
      <4>2. f[i] = one(i, f[i + 1])
        BY <1>0, <2>2, <3>2, <4>1
      <4> QED
        BY <3>2, <4>1, <4>2
    <3>3. CASE i # n /\ i = N
      <4>1. g[N] = f[N] /\ N \in (n + 1)..N
        BY <1>0, <3>3
      <4>2. f[N] = {Len(host)}
        BY <2>2, <4>1
      <4> QED
        BY <3>3, <4>1, <4>2
    <3> QED
      BY <3>1, <3>2, <3>3
  <2>4. g = h
    BY <2>3
  <2>5. Is(n, g)
    BY <2>4
  <2>6. \E x : Is(n, x)
    BY <2>5, Zenon
  <2> HIDE DEF Is
  <2> QED
    BY <2>6, <1>0
<1>3. 0..N \subseteq S
  <2> HIDE DEF S
  <2> QED
    BY <1>0, <1>1, <1>2, CountedDown
<1>4. 0 \in S
  BY <1>0, <1>3
<1>5. PICK f : Is(0, f)
  BY <1>4
<1>6. Rests(host, pattern, f)
  BY <1>5, Zenon DEF Rests, N
<1> QED
  BY <1>6

LEMMA MatchesIs ==
  ASSUME NEW host, NEW pattern, Len(pattern) \in Nat
  PROVE  \E f : Rests(host, pattern, f) /\ (Matches(host, pattern) <=> 0 \in f[0])
<1> DEFINE Is(f) == f = [i \in 0..Len(pattern) |->
                           IF i = Len(pattern) THEN {Len(host)}
                           ELSE MatchRest(host, pattern[i + 1], f[i + 1])]
           f == CHOOSE f : Is(f)
<1>1. PICK g : Rests(host, pattern, g)
  BY RestsExist
<1>2. \E h : Is(h)
  BY <1>1 DEF Rests
<1>3. Is(f)
  BY <1>2, Zenon
<1>4. Matches(host, pattern) <=> 0 \in f[0]
  BY Zenon DEF Matches
<1> QED
  BY <1>3, <1>4, Zenon DEF Rests

(* What Rests says of the places. *)
LEMMA RestsAre ==
  ASSUME NEW S, NEW host \in Seq(S), NEW pattern \in Seq(S), NEW f,
         Rests(host, pattern, f)
  PROVE  /\ \A i \in 0..Len(pattern) : f[i] \subseteq 0..Len(host)
         /\ f[Len(pattern)] = {Len(host)}
         /\ \A i \in 0..(Len(pattern) - 1), j \in 0..Len(host) :
              j \in f[i] <=>
                IF pattern[i + 1] = Star THEN \E k \in j..Len(host) : k \in f[i + 1]
                ELSE /\ j < Len(host) /\ host[j + 1] = pattern[i + 1]
                     /\ j + 1 \in f[i + 1]
<1> DEFINE N == Len(pattern)
<1>1. N \in Nat /\ Len(host) \in Nat
  OBVIOUS
<1>2. f[N] = {Len(host)}
  BY <1>1 DEF Rests
<1>3. ASSUME NEW i \in 0..(N - 1)
      PROVE  f[i] = MatchRest(host, pattern[i + 1], f[i + 1])
  <2>1. i \in 0..N /\ i # N
    BY <1>1
  <2> QED
    BY <2>1 DEF Rests
<1>4. ASSUME NEW i \in 0..N
      PROVE  f[i] \subseteq 0..Len(host)
  <2>1. CASE i = N
    BY <1>1, <1>2, <2>1
  <2>2. CASE i # N
    <3>1. i \in 0..(N - 1)
      BY <1>1, <2>2
    <3> QED
      BY <3>1, <1>3 DEF MatchRest
  <2> QED
    BY <2>1, <2>2
<1>5. ASSUME NEW i \in 0..(N - 1), NEW j \in 0..Len(host)
      PROVE  j \in f[i] <=>
                IF pattern[i + 1] = Star THEN \E k \in j..Len(host) : k \in f[i + 1]
                ELSE /\ j < Len(host) /\ host[j + 1] = pattern[i + 1]
                     /\ j + 1 \in f[i + 1]
  BY <1>3 DEF MatchRest
<1> QED
  BY <1>2, <1>4, <1>5

(* The piece of the pattern from e to w is in the host behind j. *)
Occurs(host, pattern, e, w, j) ==
  /\ j + (w - e) <= Len(host)
  /\ \A k \in (e + 1)..w : host[j + k - e] = pattern[k]

(* A piece without a wild card stands for itself. *)
LEMMA PieceIs ==
  ASSUME NEW S, NEW host \in Seq(S), NEW pattern \in Seq(S), NEW f,
         Rests(host, pattern, f),
         NEW w \in 0..Len(pattern), NEW e \in 0..w,
         \A k \in (e + 1)..w : pattern[k] # Star
  PROVE  \A j \in 0..Len(host) :
           j \in f[e] <=> Occurs(host, pattern, e, w, j) /\ j + (w - e) \in f[w]
<1> DEFINE At(i, j) == j + (w - i) <= Len(host) /\ \A k \in (i + 1)..w : host[j + k - i] = pattern[k]
           T == {i \in 0..w : i >= e => \A j \in 0..Len(host) :
                                j \in f[i] <=> At(i, j) /\ j + (w - i) \in f[w]}
<1>1. Len(host) \in Nat /\ Len(pattern) \in Nat /\ w \in Nat /\ e \in Nat
  OBVIOUS
<1>2. w \in T
  <2>1. ASSUME NEW j \in 0..Len(host)
        PROVE  j \in f[w] <=> At(w, j) /\ j + (w - w) \in f[w]
    BY <1>1
  <2> QED
    BY <1>1, <2>1
<1>3. ASSUME NEW i \in 0..(w - 1), \A m \in (i + 1)..w : m \in T
      PROVE  i \in T
  <2>5. i \in 0..w
    BY <1>1
  <2> SUFFICES ASSUME i >= e, NEW j \in 0..Len(host)
               PROVE  j \in f[i] <=> At(i, j) /\ j + (w - i) \in f[w]
    <3> HIDE DEF At
    <3> QED
      BY <2>5
  <2>1. i \in 0..(Len(pattern) - 1) /\ i + 1 \in T /\ pattern[i + 1] # Star /\ i + 1 >= e
    <3>1. i \in 0..(Len(pattern) - 1) /\ i + 1 >= e /\ i + 1 \in (e + 1)..w
      BY <1>1
    <3>2. i + 1 \in (i + 1)..w
      BY <1>1
    <3> HIDE DEF T
    <3> QED
      BY <1>3, <3>1, <3>2
  <2>2. j \in f[i] <=> /\ j < Len(host) /\ host[j + 1] = pattern[i + 1]
                       /\ j + 1 \in f[i + 1]
    BY <2>1, RestsAre
  <2>3. CASE j < Len(host)
    <3>1. j + 1 \in 0..Len(host)
      BY <1>1, <2>3
    <3>2. j + 1 \in f[i + 1] <=> At(i + 1, j + 1) /\ (j + 1) + (w - (i + 1)) \in f[w]
      BY <2>1, <3>1
    <3>3. (j + 1) + (w - (i + 1)) = j + (w - i)
      BY <1>1
    <3>4. At(i, j) <=> host[j + 1] = pattern[i + 1] /\ At(i + 1, j + 1)
      <4>1. \A k \in (i + 2)..w : (j + 1) + k - (i + 1) = j + k - i
        BY <1>1
      <4>2. ASSUME At(i, j)
            PROVE  host[j + 1] = pattern[i + 1] /\ At(i + 1, j + 1)
        <5>1. i + 1 \in (i + 1)..w /\ j + (i + 1) - i = j + 1
          BY <1>1
        <5>2. host[j + 1] = pattern[i + 1]
          BY <4>2, <5>1
        <5>3. ASSUME NEW k \in ((i + 1) + 1)..w
              PROVE  host[(j + 1) + k - (i + 1)] = pattern[k]
          <6>1. k \in (i + 1)..w /\ (j + 1) + k - (i + 1) = j + k - i
            BY <1>1
          <6> QED
            BY <4>2, <6>1
        <5> QED
          BY <3>3, <4>2, <5>2, <5>3
      <4>3. ASSUME host[j + 1] = pattern[i + 1], At(i + 1, j + 1)
            PROVE  At(i, j)
        <5>1. ASSUME NEW k \in (i + 1)..w
              PROVE  host[j + k - i] = pattern[k]
          <6>1. CASE k = i + 1
            <7>1. j + k - i = j + 1
              BY <1>1, <6>1
            <7> QED
              BY <4>3, <6>1, <7>1
          <6>2. CASE k # i + 1
            <7>1. k \in ((i + 1) + 1)..w /\ (j + 1) + k - (i + 1) = j + k - i
              BY <1>1, <6>2
            <7> QED
              BY <4>3, <7>1
          <6> QED
            BY <6>1, <6>2
        <5> QED
          BY <3>3, <4>3, <5>1
      <4> QED
        BY <4>2, <4>3
    <3> HIDE DEF At
    <3> QED
      BY <2>2, <2>3, <3>2, <3>3, <3>4
  <2>4. CASE ~(j < Len(host))
    <3>1. ~(j + (w - i) <= Len(host))
      BY <1>1, <2>4
    <3> QED
      BY <2>2, <2>4, <3>1
  <2> QED
    BY <2>3, <2>4
<1>4. 0..w \subseteq T
  <2> HIDE DEF T
  <2> QED
    BY <1>1, <1>2, <1>3, CountedDown
<1>5. e \in T
  BY <1>1, <1>4
<1> QED
  BY <1>1, <1>5 DEF Occurs

(* What is between two wild cards. *)
Piece(excluded, e, w) == SubSeq(excluded, e + 1, w)

LEMMA PartAt ==
  ASSUME NEW S, NEW host \in Seq(S), NEW excluded \in Seq(S),
         NEW w \in 0..Len(excluded), NEW e \in 0..w
  PROVE  LET part == Piece(excluded, e, w) IN
         /\ part \in Seq(S) /\ Len(part) = w - e
         /\ \A i \in 1..(w - e) : part[i] = excluded[e + i]
         /\ \A k \in Nat :
              (k + Len(part) <= Len(host) /\ SubSeq(host, k + 1, k + Len(part)) = part)
                <=> Occurs(host, excluded, e, w, k)
<1> DEFINE part == Piece(excluded, e, w)
<1>1. Len(host) \in Nat /\ Len(excluded) \in Nat /\ w \in Nat /\ e \in Nat
  OBVIOUS
<1>2. part \in Seq(S) /\ Len(part) = w - e /\ \A i \in 1..(w - e) : part[i] = excluded[e + i]
  BY <1>1, SubSeqProperties DEF Piece
<1> HIDE DEF part
<1>3. ASSUME NEW k \in Nat
      PROVE  (k + Len(part) <= Len(host) /\ SubSeq(host, k + 1, k + Len(part)) = part)
               <=> Occurs(host, excluded, e, w, k)
  <2> DEFINE there == SubSeq(host, k + 1, k + Len(part))
  <2>1. ASSUME k + Len(part) <= Len(host)
        PROVE  /\ there \in Seq(S) /\ Len(there) = w - e
               /\ \A i \in 1..(w - e) : there[i] = host[k + i]
    BY <1>1, <1>2, <2>1, SubSeqProperties
  <2> HIDE DEF there
  <2>2. ASSUME k + Len(part) <= Len(host), there = part
        PROVE  Occurs(host, excluded, e, w, k)
    <3>1. ASSUME NEW i \in (e + 1)..w
          PROVE  host[k + i - e] = excluded[i]
      <4>1. i - e \in 1..(w - e) /\ k + (i - e) = k + i - e /\ e + (i - e) = i
        BY <1>1
      <4>2. there[i - e] = host[k + i - e] /\ part[i - e] = excluded[i]
        BY <1>2, <2>1, <2>2, <4>1
      <4> QED
        BY <2>2, <4>2
    <3> QED
      BY <1>2, <2>2, <3>1 DEF Occurs
  <2>3. ASSUME Occurs(host, excluded, e, w, k)
        PROVE  k + Len(part) <= Len(host) /\ there = part
    <3>1. k + Len(part) <= Len(host)
      BY <1>2, <2>3 DEF Occurs
    <3>2. ASSUME NEW i \in 1..(w - e)
          PROVE  there[i] = part[i]
      <4>1. e + i \in (e + 1)..w /\ k + (e + i) - e = k + i
        BY <1>1
      <4>2. host[k + i] = excluded[e + i]
        BY <2>3, <4>1 DEF Occurs
      <4> QED
        BY <1>2, <2>1, <3>1, <4>2
    <3>3. there = part
      BY <1>2, <2>1, <3>1, <3>2, SeqEqual
    <3> QED
      BY <3>1, <3>3
  <2> QED
    BY <1>2, <2>2, <2>3 DEF there
<1> QED
  BY <1>2, <1>3 DEF part

(* The first of the places, or none. *)
LEMMA FirstPlace ==
  ASSUME NEW s, NEW part, NEW from \in Nat, Len(s) \in Nat, Len(part) \in Nat,
         NEW places,
         places = {i \in from..(Len(s) - Len(part)) : SubSeq(s, i + 1, i + Len(part)) = part}
  PROVE  \/ places = {} /\ Find(s, part, from) = -1
         \/ /\ places # {} /\ Find(s, part, from) \in places
            /\ \A i \in places : Find(s, part, from) <= i
<1>1. Find(s, part, from) = IF places = {} THEN -1 ELSE Min(places)
  BY DEF Find
<1>2. places \subseteq Nat
  OBVIOUS
<1>3. CASE places = {}
  BY <1>1, <1>3
<1>4. CASE places # {}
  <2>1. PICK m : m \in places
    BY <1>4
  <2>2. PICK n \in places : \A i \in places : n <= i
    BY <1>2, <2>1, LeastExists
  <2>3. places \subseteq Int
    BY <1>2
  <2>4. Min(places) = n
    BY <2>2, <2>3, Least
  <2> QED
    BY <1>1, <1>4, <2>2, <2>4
<1> QED
  BY <1>3, <1>4

LEMMA FindNextStarIs ==
  ASSUME NEW S, NEW s \in Seq(S), NEW from \in 0..Len(s)
  PROVE  LET i == FindNextStar(s, from)
         IN  /\ i \in from..Len(s)
             /\ \A k \in (from + 1)..i : s[k] # Star
             /\ i < Len(s) => s[i + 1] = Star
<1> DEFINE places == {i \in from..(Len(s) - Len(<<Star>>)) :
                         SubSeq(s, i + 1, i + Len(<<Star>>)) = <<Star>>}
           at == Find(s, <<Star>>, from)
           next == FindNextStar(s, from)
<1>1. Len(s) \in Nat /\ from \in Nat /\ Len(<<Star>>) = 1
  OBVIOUS
<1>2. next = IF at < 0 THEN Len(s) ELSE at
  BY DEF FindNextStar
<1>3. \/ places = {} /\ at = -1
      \/ places # {} /\ at \in places /\ \A i \in places : at <= i
  BY <1>1, FirstPlace
<1>4. ASSUME NEW i \in from..(Len(s) - 1)
      PROVE  i \in places <=> s[i + 1] = Star
  <2> DEFINE one == SubSeq(s, i + 1, i + 1)
  <2>1. one \in Seq(S) /\ Len(one) = 1 /\ one[1] = s[i + 1]
    BY <1>1, SubSeqProperties
  <2>2. i \in places <=> one = <<Star>>
    BY <1>1
  <2> HIDE DEF one, places
  <2>3. one = <<Star>> <=> one[1] = Star
    BY <2>1
  <2> QED
    BY <2>1, <2>2, <2>3
<1>5. places \subseteq from..(Len(s) - 1)
  BY <1>1
<1> HIDE DEF places, at, next
<1>6. CASE places = {}
  <2>1. next = Len(s)
    BY <1>2, <1>3, <1>6
  <2>2. ASSUME NEW k \in (from + 1)..next
        PROVE  s[k] # Star
    <3>1. k - 1 \in from..(Len(s) - 1) /\ (k - 1) + 1 = k
      BY <1>1, <2>1
    <3> QED
      BY <1>4, <1>6, <3>1
  <2> QED
    BY <1>1, <2>1, <2>2 DEF next
<1>7. CASE places # {}
  <2>1. at \in places /\ \A i \in places : at <= i
    BY <1>3, <1>7
  <2>2. at \in from..(Len(s) - 1) /\ next = at
    BY <1>1, <1>2, <1>5, <2>1
  <2>3. ASSUME NEW k \in (from + 1)..next
        PROVE  s[k] # Star
    <3>1. k - 1 \in from..(Len(s) - 1) /\ (k - 1) + 1 = k /\ ~(at <= k - 1)
      BY <1>1, <2>2
    <3> QED
      BY <1>4, <2>1, <3>1
  <2>4. s[next + 1] = Star
    BY <1>4, <2>1, <2>2
  <2> QED
    BY <1>1, <2>2, <2>3, <2>4 DEF next
<1> QED
  BY <1>6, <1>7

(* The first place of a piece of the pattern. *)
LEMMA FindIs ==
  ASSUME NEW S, NEW host \in Seq(S), NEW excluded \in Seq(S),
         NEW w \in 0..Len(excluded), NEW e \in 0..w, NEW h \in 0..Len(host)
  PROVE  LET at == Find(host, Piece(excluded, e, w), h)
         IN  \/ /\ at = -1
                /\ \A k \in h..Len(host) : ~Occurs(host, excluded, e, w, k)
             \/ /\ at \in h..Len(host) /\ Occurs(host, excluded, e, w, at)
                /\ \A k \in h..Len(host) : Occurs(host, excluded, e, w, k) => at <= k
<1> DEFINE part == Piece(excluded, e, w)
           places == {i \in h..(Len(host) - Len(part)) :
                         SubSeq(host, i + 1, i + Len(part)) = part}
           at == Find(host, part, h)
<1>1. Len(host) \in Nat /\ Len(excluded) \in Nat /\ h \in Nat /\ Len(part) \in Nat
  BY PartAt
<1>2. ASSUME NEW k \in h..Len(host)
      PROVE  k \in places <=> Occurs(host, excluded, e, w, k)
  <2>1. \A i \in Nat :
          (i + Len(part) <= Len(host) /\ SubSeq(host, i + 1, i + Len(part)) = part)
            <=> Occurs(host, excluded, e, w, i)
    BY PartAt, Zenon
  <2> HIDE DEF part
  <2> QED
    BY <1>1, <2>1
<1>3. \/ places = {} /\ at = -1
      \/ places # {} /\ at \in places /\ \A i \in places : at <= i
  BY <1>1, FirstPlace
<1>4. places \subseteq h..Len(host)
  <2> HIDE DEF part
  <2> QED
    BY <1>1
<1> HIDE DEF places
<1> QED
  BY <1>2, <1>3, <1>4

LEMMA SuffixIs ==
  ASSUME NEW S, NEW host \in Seq(S), NEW excluded \in Seq(S),
         NEW w \in 0..Len(excluded), NEW e \in 0..w
  PROVE  LET part == Piece(excluded, e, w)
         IN  IsSuffix(part, host) <=>
               w - e <= Len(host) /\ Occurs(host, excluded, e, w, Len(host) - (w - e))
<1> DEFINE part == Piece(excluded, e, w)
           n == w - e
           begin == SubSeq(Reverse(part), 1, n)
           end == SubSeq(Reverse(host), 1, n)
<1>1. Len(host) \in Nat /\ Len(excluded) \in Nat /\ w \in Nat /\ e \in Nat /\ n \in Nat
  OBVIOUS
<1>2. part \in Seq(S) /\ Len(part) = n /\ \A i \in 1..n : part[i] = excluded[e + i]
  BY PartAt
<1> HIDE DEF part, n
<1>3. /\ Reverse(part) \in Seq(S) /\ Len(Reverse(part)) = n
      /\ \A i \in 1..n : Reverse(part)[i] = part[n - i + 1]
  BY <1>1, <1>2 DEF Reverse
<1>4. /\ Reverse(host) \in Seq(S) /\ Len(Reverse(host)) = Len(host)
      /\ \A i \in 1..Len(host) : Reverse(host)[i] = host[Len(host) - i + 1]
  BY <1>1 DEF Reverse
<1>5. IsSuffix(part, host) <=> n <= Len(host) /\ begin = end
  BY <1>3, <1>4 DEF IsSuffix, IsPrefix
<1>6. /\ begin \in Seq(S) /\ Len(begin) = n
      /\ \A i \in 1..n : begin[i] = part[n - i + 1]
  BY <1>1, <1>3, SubSeqProperties
<1>7. ASSUME n <= Len(host)
      PROVE  /\ end \in Seq(S) /\ Len(end) = n
             /\ \A i \in 1..n : end[i] = host[Len(host) - i + 1]
  BY <1>1, <1>4, <1>7, SubSeqProperties
<1> HIDE DEF begin, end
<1>8. ASSUME n <= Len(host), begin = end
      PROVE  Occurs(host, excluded, e, w, Len(host) - n)
  <2>1. ASSUME NEW k \in (e + 1)..w
        PROVE  host[(Len(host) - n) + k - e] = excluded[k]
    <3> DEFINE i == n - (k - e) + 1
    <3>1. i \in 1..n /\ n - i + 1 = k - e /\ Len(host) - i + 1 = (Len(host) - n) + k - e
      BY <1>1 DEF n
    <3>2. k - e \in 1..n /\ e + (k - e) = k
      BY <1>1 DEF n
    <3> HIDE DEF i
    <3>3. begin[i] = part[k - e] /\ end[i] = host[(Len(host) - n) + k - e]
      BY <1>6, <1>7, <1>8, <3>1
    <3>4. part[k - e] = excluded[k]
      BY <1>2, <3>2
    <3> QED
      BY <1>8, <3>3, <3>4
  <2>2. (Len(host) - n) + (w - e) <= Len(host)
    BY <1>1 DEF n
  <2> QED
    BY <2>1, <2>2 DEF Occurs
<1>9. ASSUME n <= Len(host), Occurs(host, excluded, e, w, Len(host) - n)
      PROVE  begin = end
  <2>1. ASSUME NEW i \in 1..n
        PROVE  begin[i] = end[i]
    <3> DEFINE k == e + (n - i + 1)
    <3>1. k \in (e + 1)..w /\ (Len(host) - n) + k - e = Len(host) - i + 1
      BY <1>1 DEF n
    <3>2. n - i + 1 \in 1..n
      BY <1>1
    <3>3. host[(Len(host) - n) + k - e] = excluded[k]
      <4> HIDE DEF k
      <4> QED
        BY <1>9, <3>1 DEF Occurs
    <3>4. part[n - i + 1] = excluded[k]
      BY <1>2, <3>2
    <3> QED
      BY <1>6, <1>7, <1>9, <3>1, <3>3, <3>4
  <2> QED
    BY <1>6, <1>7, <1>9, <2>1, SeqEqual
<1> QED
  BY <1>5, <1>8, <1>9 DEF part, n

(* A round, one case after the other. *)
LEMMA RoundIs ==
  ASSUME NEW S, NEW host \in Seq(S), NEW excluded \in Seq(S), NEW g,
         NEW e \in 0..Len(excluded), NEW h \in 0..Len(host)
  PROVE  LET last == Len(excluded)
             w == FindNextStar(excluded, e)
             part == Piece(excluded, e, w)
             at == Find(host, part, h)
             R == MatchRound(host, excluded, g, e, h)
         IN  /\ e = last => R
             /\ e # last /\ e = 0 /\ w = last => (R <=> host = excluded)
             /\ e # last /\ e = w => (R <=> h \in g[e + 1])
             /\ e = 0 /\ w \notin {0, last} => (R <=> at = 0 /\ w \in g[w + 1])
             /\ e \notin {0, last, w} /\ w = last =>
                  (R <=> Len(host) - (w - e) >= h /\ IsSuffix(part, host))
             /\ e \notin {0, w} /\ w # last =>
                  (R <=> at >= 0 /\ at + (w - e) \in g[w + 1])
<1> DEFINE last == Len(excluded)
           w == FindNextStar(excluded, e)
           part == Piece(excluded, e, w)
           at == Find(host, part, h)
           R == MatchRound(host, excluded, g, e, h)
<1>1. R <=> IF e = last THEN TRUE
          ELSE IF e = 0 /\ w = last THEN host = excluded
          ELSE IF part = <<>> THEN h \in g[e + 1]
          ELSE IF e = 0 THEN at = 0 /\ Len(part) \in g[w + 1]
          ELSE IF w = last
          THEN Len(host) - Len(part) >= h /\ IsSuffix(part, host)
          ELSE at >= 0 /\ at + Len(part) \in g[w + 1]
  BY Zenon DEF MatchRound, Piece
<1>2. w \in e..last /\ last \in Nat
  BY FindNextStarIs
<1>3. w \in 0..last /\ e \in 0..w
  BY <1>2
<1>4. part \in Seq(S) /\ Len(part) = w - e
  <2> HIDE DEF w
  <2> QED
    BY <1>3, PartAt
<1>5. part = <<>> <=> e = w
  <2> HIDE DEF part, w
  <2> QED
    BY <1>3, <1>4
<1> HIDE DEF part, at, R, last, w
<1>6. /\ e = last => R
      /\ e # last /\ e = 0 /\ w = last => (R <=> host = excluded)
      /\ e # last /\ e = w => (R <=> h \in g[e + 1])
  BY <1>1, <1>3, <1>5
<1>7. e = 0 /\ w \notin {0, last} => (R <=> at = 0 /\ w \in g[w + 1])
  <2> SUFFICES ASSUME e = 0, w \notin {0, last} PROVE (R <=> at = 0 /\ w \in g[w + 1])
    OBVIOUS
  <2>1. Len(part) = w /\ part # <<>> /\ e # last
    BY <1>2, <1>3, <1>4, <1>5
  <2> QED
    BY <1>1, <2>1
<1>8. e \notin {0, last, w} /\ w = last =>
                  (R <=> Len(host) - (w - e) >= h /\ IsSuffix(part, host))
  BY <1>1, <1>4, <1>5
<1>9. e \notin {0, w} /\ w # last =>
                  (R <=> at >= 0 /\ at + (w - e) \in g[w + 1])
  <2> SUFFICES ASSUME e \notin {0, w}, w # last PROVE (R <=> at >= 0 /\ at + (w - e) \in g[w + 1])
    OBVIOUS
  <2>1. e # last /\ part # <<>>
    BY <1>2, <1>3, <1>5
  <2> QED
    BY <1>1, <1>4, <2>1
<1> QED
  BY <1>6, <1>7, <1>8, <1>9 DEF part, at, R, last, w

(* The hostLocations from which there is a place to go on at. *)
From(host, f, i) == {j \in 0..Len(host) : \E k \in j..Len(host) : k \in f[i]}

(* Behind a wild card: taking the first place of a piece loses nothing. *)
LEMMA RoundBehind ==
  ASSUME NEW S, NEW host \in Seq(S), NEW excluded \in Seq(S), NEW f, NEW g,
         Rests(host, excluded, f),
         NEW e \in 1..Len(excluded), NEW h \in 0..Len(host),
         \A i \in (e + 1)..Len(excluded) : g[i] = From(host, f, i)
  PROVE  MatchRound(host, excluded, g, e, h) <=> h \in From(host, f, e)
<1> DEFINE last == Len(excluded)
           m == Len(host)
           w == FindNextStar(excluded, e)
           part == Piece(excluded, e, w)
           at == Find(host, part, h)
           R == MatchRound(host, excluded, g, e, h)
           Goal == \E k \in h..m : k \in f[e]
<1>1. /\ w \in e..last /\ \A k \in (e + 1)..w : excluded[k] # Star
      /\ w < last => excluded[w + 1] = Star
  BY FindNextStarIs
<1>2. last \in Nat /\ m \in Nat /\ h \in 0..m /\ e \in 0..last
  OBVIOUS
<1>3. h \in From(host, f, e) <=> Goal
  BY DEF From
<1>4. /\ e = last => R
      /\ e # last /\ e = w => (R <=> h \in g[e + 1])
      /\ e \notin {0, last, w} /\ w = last =>
           (R <=> m - (w - e) >= h /\ IsSuffix(part, host))
      /\ e \notin {0, w} /\ w # last =>
           (R <=> at >= 0 /\ at + (w - e) \in g[w + 1])
  BY <1>2, RoundIs, Zenon
<1>5. f[last] = {m}
  BY RestsAre
<1>6. ASSUME NEW i \in 0..(last - 1), excluded[i + 1] = Star, NEW j \in 0..m
      PROVE  j \in f[i] <=> \E k \in j..m : k \in f[i + 1]
  BY <1>6, RestsAre
<1>7. \A k \in 0..m : k \in f[e] <=> Occurs(host, excluded, e, w, k) /\ k + (w - e) \in f[w]
  <2>1. w \in 0..last /\ e \in 0..w
    BY <1>1, <1>2
  <2> HIDE DEF w
  <2> QED
    BY <1>1, <2>1, PieceIs
<1>8. \/ /\ at = -1
         /\ \A k \in h..m : ~Occurs(host, excluded, e, w, k)
      \/ /\ at \in h..m /\ Occurs(host, excluded, e, w, at)
         /\ \A k \in h..m : Occurs(host, excluded, e, w, k) => at <= k
  <2>1. w \in 0..last /\ e \in 0..w
    BY <1>1, <1>2
  <2> HIDE DEF w
  <2> QED
    BY <2>1, FindIs, Zenon DEF part, at
<1>9. IsSuffix(part, host) <=> w - e <= m /\ Occurs(host, excluded, e, w, m - (w - e))
  <2>1. w \in 0..last /\ e \in 0..w
    BY <1>1, <1>2
  <2> HIDE DEF w
  <2> QED
    BY <2>1, SuffixIs, Zenon
<1>10. \A i \in (e + 1)..last : g[i] = From(host, f, i)
  OBVIOUS
<1> HIDE DEF w, part, at, R, last, m
<1>11. CASE e = last
  <2>1. m \in h..m /\ m \in f[e]
    BY <1>2, <1>5, <1>11
  <2>2. R /\ Goal
    BY <1>4, <1>11, <2>1
  <2> QED
    BY <1>3, <2>2 DEF R
<1>12. CASE e # last /\ e = w
  <2>1. e \in 0..(last - 1) /\ e + 1 \in (e + 1)..last /\ excluded[e + 1] = Star
    BY <1>1, <1>2, <1>12
  <2>2. R <=> h \in From(host, f, e + 1)
    BY <1>4, <1>12, <1>10, <2>1
  <2>3. R <=> \E k \in h..m : k \in f[e + 1]
    BY <1>2, <2>2 DEF From, m
  <2>4. ASSUME NEW k \in h..m, k \in f[e + 1]
        PROVE  Goal
    BY <1>2, <1>6, <2>1, <2>4
  <2>5. ASSUME NEW k \in h..m, k \in f[e]
        PROVE  \E i \in h..m : i \in f[e + 1]
    <3>1. PICK i \in k..m : i \in f[e + 1]
      <4>1. k \in 0..m
        BY <1>2
      <4> QED
        BY <1>6, <2>1, <2>5, <4>1
    <3> QED
      BY <1>2, <3>1
  <2> QED
    BY <1>3, <2>3, <2>4, <2>5 DEF R
<1>13. CASE e # last /\ e # w /\ w = last
  <2> DEFINE n == w - e
  <2>1. n \in Nat
    BY <1>1, <1>2
  <2>2. R <=> m - n >= h /\ Occurs(host, excluded, e, w, m - n)
    BY <1>1, <1>2, <1>4, <1>9, <1>13
  <2>3. ASSUME m - n >= h, Occurs(host, excluded, e, w, m - n)
        PROVE  Goal
    <3>1. m - n \in h..m /\ (m - n) + n = m /\ m - n \in 0..m
      BY <1>2, <2>1, <2>3
    <3>2. m - n \in f[e]
      BY <1>5, <1>7, <1>13, <2>3, <3>1
    <3> QED
      BY <3>1, <3>2
  <2>4. ASSUME NEW k \in h..m, k \in f[e]
        PROVE  m - n >= h /\ Occurs(host, excluded, e, w, m - n)
    <3>1. k \in 0..m
      BY <1>2
    <3>2. Occurs(host, excluded, e, w, k) /\ k + n \in f[w]
      BY <1>7, <2>4, <3>1
    <3>3. k + n = m
      BY <1>5, <1>13, <3>2
    <3>4. k = m - n
      BY <1>2, <2>1, <3>1, <3>3
    <3> QED
      BY <1>2, <3>2, <3>4
  <2> QED
    BY <1>3, <2>2, <2>3, <2>4 DEF R
<1>14. CASE e # last /\ e # w /\ w # last
  <2> DEFINE n == w - e
  <2>1. n \in Nat /\ w \in 0..(last - 1) /\ w + 1 \in (e + 1)..last /\ excluded[w + 1] = Star
    BY <1>1, <1>2, <1>14
  <2>2. R <=> at >= 0 /\ at + n \in From(host, f, w + 1)
    BY <1>2, <1>4, <1>14, <1>10, <2>1
  <2>3. R <=> at >= 0 /\ at + n \in 0..m /\ \E k \in (at + n)..m : k \in f[w + 1]
    BY <1>2, <2>2 DEF From, m
  <2>4. ASSUME at >= 0, at + n \in 0..m, NEW k \in (at + n)..m, k \in f[w + 1]
        PROVE  Goal
    <3>1. at \in h..m /\ Occurs(host, excluded, e, w, at)
      BY <1>8, <2>4
    <3>2. at + n \in f[w]
      BY <1>6, <2>1, <2>4
    <3>3. at \in 0..m
      BY <1>2, <3>1
    <3>4. at \in f[e]
      BY <1>7, <3>1, <3>2, <3>3
    <3> QED
      BY <3>1, <3>4
  <2>5. ASSUME NEW k \in h..m, k \in f[e]
        PROVE  at >= 0 /\ at + n \in 0..m /\ \E i \in (at + n)..m : i \in f[w + 1]
    <3>1. k \in 0..m
      BY <1>2
    <3>2. Occurs(host, excluded, e, w, k) /\ k + n \in f[w]
      BY <1>7, <2>5, <3>1
    <3>3. at \in h..m /\ at <= k
      BY <1>8, <3>2
    <3>4. k + n \in 0..m
      BY <1>2, <2>1, <3>1, <3>2 DEF Occurs, m
    <3>5. PICK i \in (k + n)..m : i \in f[w + 1]
      BY <1>6, <2>1, <3>2, <3>4
    <3>6. at + n \in 0..m /\ i \in (at + n)..m /\ at >= 0
      BY <1>2, <2>1, <3>1, <3>3, <3>4, <3>5
    <3> QED
      BY <3>5, <3>6
  <2> QED
    BY <1>3, <2>3, <2>4, <2>5 DEF R
<1> QED
  BY <1>11, <1>12, <1>13, <1>14 DEF R

(* The first round: what is before the first wild card is in front. *)
LEMMA RoundFirst ==
  ASSUME NEW S, NEW host \in Seq(S), NEW excluded \in Seq(S), NEW f, NEW g,
         Rests(host, excluded, f), excluded # <<>>,
         \A i \in 1..Len(excluded) : g[i] = From(host, f, i)
  PROVE  MatchRound(host, excluded, g, 0, 0) <=> 0 \in f[0]
<1> DEFINE last == Len(excluded)
           m == Len(host)
           w == FindNextStar(excluded, 0)
           part == Piece(excluded, 0, w)
           at == Find(host, part, 0)
           R == MatchRound(host, excluded, g, 0, 0)
<1>1. /\ w \in 0..last /\ \A k \in (0 + 1)..w : excluded[k] # Star
      /\ w < last => excluded[w + 1] = Star
  BY FindNextStarIs
<1>2. last \in Nat /\ m \in Nat /\ 0 \in 0..m /\ 0 \in 0..last /\ last # 0 /\ 0 \in 0..w
  BY <1>1
<1>3. /\ 0 # last /\ 0 = 0 /\ w = last => (R <=> host = excluded)
      /\ 0 # last /\ 0 = w => (R <=> 0 \in g[0 + 1])
      /\ 0 = 0 /\ w \notin {0, last} => (R <=> at = 0 /\ w \in g[w + 1])
  <2>1. PICK e \in 0..last : e = 0
    BY <1>2
  <2> DEFINE v == FindNextStar(excluded, e)
             E == MatchRound(host, excluded, g, e, 0)
             it == Find(host, Piece(excluded, e, v), 0)
  <2>2. /\ e # last /\ e = 0 /\ v = last => (E <=> host = excluded)
        /\ e # last /\ e = v => (E <=> 0 \in g[e + 1])
        /\ e = 0 /\ v \notin {0, last} => (E <=> it = 0 /\ v \in g[v + 1])
    BY <1>2, RoundIs, ZenonT(60)
  <2> QED
    BY <2>1, <2>2, Zenon
<1>4. f[last] = {m}
  BY RestsAre
<1>5. ASSUME NEW i \in 0..(last - 1), excluded[i + 1] = Star, NEW j \in 0..m
      PROVE  j \in f[i] <=> \E k \in j..m : k \in f[i + 1]
  BY <1>5, RestsAre
<1>6. \A k \in 0..m : k \in f[0] <=> Occurs(host, excluded, 0, w, k) /\ k + (w - 0) \in f[w]
  <2> HIDE DEF w
  <2> QED
    BY <1>1, <1>2, PieceIs
<1>7. \/ /\ at = -1
         /\ \A k \in 0..m : ~Occurs(host, excluded, 0, w, k)
      \/ /\ at \in 0..m /\ Occurs(host, excluded, 0, w, at)
         /\ \A k \in 0..m : Occurs(host, excluded, 0, w, k) => at <= k
  <2> HIDE DEF w
  <2> QED
    BY <1>1, <1>2, FindIs, Zenon DEF part, at
<1>8. \A i \in 1..last : g[i] = From(host, f, i)
  OBVIOUS
<1>9. 0 \in f[0] <=> Occurs(host, excluded, 0, w, 0) /\ w \in f[w]
  <2> HIDE DEF w
  <2> QED
    BY <1>1, <1>2, <1>6
<1>10. host = excluded <=> Len(host) = Len(excluded) /\ \A i \in 1..Len(host) : host[i] = excluded[i]
  BY SeqEqual
<1> HIDE DEF w, part, at, R, last, m
<1>11. CASE w = last
  <2>1. R <=> host = excluded
    BY <1>2, <1>3, <1>11
  <2>2. ASSUME host = excluded
        PROVE  0 \in f[0]
    <3>1. m = last /\ w \in f[w]
      BY <1>2, <1>4, <1>11, <2>2 DEF m, last
    <3>2. Occurs(host, excluded, 0, w, 0)
      BY <1>2, <1>11, <2>2, <3>1 DEF Occurs, m, last
    <3> QED
      BY <1>9, <3>1, <3>2
  <2>3. ASSUME 0 \in f[0]
        PROVE  host = excluded
    <3>1. Occurs(host, excluded, 0, w, 0) /\ w \in f[w]
      BY <1>9, <2>3
    <3>2. w = m
      BY <1>4, <1>11, <3>1
    <3>3. ASSUME NEW i \in 1..m
          PROVE  host[i] = excluded[i]
      <4>1. i \in (0 + 1)..w /\ 0 + i - 0 = i
        BY <1>2, <3>2
      <4> QED
        BY <3>1, <4>1 DEF Occurs
    <3> QED
      BY <1>10, <1>11, <3>2, <3>3 DEF m, last
  <2> QED
    BY <2>1, <2>2, <2>3 DEF R
<1>12. CASE w # last /\ w = 0
  <2>1. R <=> 0 \in From(host, f, 1)
    BY <1>2, <1>3, <1>8, <1>12
  <2>2. R <=> \E k \in 0..m : k \in f[1]
    BY <1>2, <2>1 DEF From, m
  <2>3. 0 \in 0..(last - 1) /\ excluded[0 + 1] = Star
    BY <1>1, <1>2, <1>12
  <2>4. 0 \in f[0] <=> \E k \in 0..m : k \in f[0 + 1]
    BY <1>2, <1>5, <2>3
  <2> QED
    BY <2>2, <2>4 DEF R
<1>13. CASE w # last /\ w # 0
  <2>1. w \in 0..(last - 1) /\ w + 1 \in 1..last /\ excluded[w + 1] = Star
    BY <1>1, <1>2, <1>13
  <2>2. R <=> at = 0 /\ w \in From(host, f, w + 1)
    BY <1>2, <1>3, <1>8, <1>13, <2>1
  <2>3. R <=> at = 0 /\ w \in 0..m /\ \E k \in w..m : k \in f[w + 1]
    BY <1>2, <2>2 DEF From, m
  <2>4. ASSUME at = 0, w \in 0..m, NEW k \in w..m, k \in f[w + 1]
        PROVE  0 \in f[0]
    <3>1. Occurs(host, excluded, 0, w, 0)
      BY <1>7, <2>4
    <3>2. w \in f[w]
      BY <1>5, <2>1, <2>4
    <3> QED
      BY <1>9, <3>1, <3>2
  <2>5. ASSUME 0 \in f[0]
        PROVE  at = 0 /\ w \in 0..m /\ \E i \in w..m : i \in f[w + 1]
    <3>1. Occurs(host, excluded, 0, w, 0) /\ w \in f[w]
      BY <1>9, <2>5
    <3>2. at \in 0..m /\ at <= 0
      BY <1>2, <1>7, <3>1
    <3>3. w \in 0..m
      BY <1>1, <1>2, <3>1 DEF Occurs, m
    <3>4. \E i \in w..m : i \in f[w + 1]
      BY <1>5, <2>1, <3>1, <3>3
    <3> QED
      BY <1>2, <3>2, <3>3, <3>4
  <2> QED
    BY <2>3, <2>4, <2>5 DEF R
<1> QED
  BY <1>11, <1>12, <1>13 DEF R

(***************************************************************************)
(* The loop.                                                               *)
(***************************************************************************)

Loops(host, excluded, g) ==
  g = [e \in 0..Len(excluded) |->
         {h \in 0..Len(host) : MatchRound(host, excluded, g, e, h)}]

LEMMA LoopsAre ==
  ASSUME NEW S, NEW host \in Seq(S), NEW excluded \in Seq(S), NEW f, NEW g,
         Rests(host, excluded, f), Loops(host, excluded, g)
  PROVE  \A i \in 1..Len(excluded) : g[i] = From(host, f, i)
<1> DEFINE T == {i \in 0..Len(excluded) : i # 0 => g[i] = From(host, f, i)}
<1>1. Len(excluded) \in Nat
  OBVIOUS
<1>2. ASSUME NEW i \in 1..Len(excluded), \A k \in (i + 1)..Len(excluded) : k \in T
      PROVE  i \in T
  <2>1. \A k \in (i + 1)..Len(excluded) : g[k] = From(host, f, k)
    BY <1>1, <1>2
  <2>2. \A h \in 0..Len(host) : MatchRound(host, excluded, g, i, h) <=> h \in From(host, f, i)
    BY <2>1, RoundBehind
  <2>3. g[i] = {h \in 0..Len(host) : MatchRound(host, excluded, g, i, h)}
    <3>1. i \in 0..Len(excluded)
      BY <1>1
    <3> QED
      BY <3>1 DEF Loops
  <2>4. From(host, f, i) \subseteq 0..Len(host)
    BY DEF From
  <2>5. g[i] = From(host, f, i)
    BY <2>2, <2>3, <2>4
  <2> QED
    BY <1>1, <2>5
<1>3. ASSUME NEW i \in 0..(Len(excluded) - 1), \A k \in (i + 1)..Len(excluded) : k \in T
      PROVE  i \in T
  <2>1. i = 0 \/ i \in 1..Len(excluded)
    BY <1>1
  <2>2. CASE i = 0
    BY <1>1, <2>2
  <2> HIDE DEF T
  <2> QED
    BY <1>2, <1>3, <2>1, <2>2
<1>4. Len(excluded) \in T
  <2>1. CASE Len(excluded) = 0
    BY <1>1, <2>1
  <2>2. CASE Len(excluded) # 0
    <3>1. /\ Len(excluded) \in 1..Len(excluded)
          /\ \A k \in (Len(excluded) + 1)..Len(excluded) : k \in T
      BY <1>1, <2>2
    <3> HIDE DEF T
    <3> QED
      BY <1>2, <3>1
  <2> QED
    BY <2>1, <2>2
<1>5. 0..Len(excluded) \subseteq T
  <2> HIDE DEF T
  <2> QED
    BY <1>1, <1>3, <1>4, CountedDown
<1> QED
  BY <1>1, <1>5

LEMMA LoopsExist ==
  ASSUME NEW S, NEW host \in Seq(S), NEW excluded \in Seq(S)
  PROVE  \E g : Loops(host, excluded, g)
<1>0. Len(excluded) \in Nat
  OBVIOUS
<1>1. PICK f : Rests(host, excluded, f)
  BY <1>0, RestsExist
<1> DEFINE last == Len(excluded)
           behind == [i \in 1..last |-> From(host, f, i)]
           g == [e \in 0..last |->
                   IF e = 0 THEN {h \in 0..Len(host) : MatchRound(host, excluded, behind, 0, h)}
                   ELSE From(host, f, e)]
           round == [e \in 0..last |->
                       {h \in 0..Len(host) : MatchRound(host, excluded, g, e, h)}]
<1>2. last \in Nat
  OBVIOUS
<1>3. \A i \in 1..last : g[i] = From(host, f, i) /\ behind[i] = From(host, f, i)
  BY <1>2
<1>4. g[0] = {h \in 0..Len(host) : MatchRound(host, excluded, behind, 0, h)}
  BY <1>2
<1> HIDE DEF behind, g
<1>5. ASSUME NEW h \in 0..Len(host)
      PROVE  MatchRound(host, excluded, behind, 0, h) <=> MatchRound(host, excluded, g, 0, h)
  <2> DEFINE w == FindNextStar(excluded, 0)
             at == Find(host, Piece(excluded, 0, w), h)
  <2>1. w \in 0..last
    BY <1>2, FindNextStarIs
  <2>2. 0 \in 0..last
    BY <1>2
  <2>3. \A r : LET R == MatchRound(host, excluded, r, 0, h)
               IN  /\ 0 = last => R
                   /\ 0 # last /\ 0 = 0 /\ w = last => (R <=> host = excluded)
                   /\ 0 # last /\ 0 = w => (R <=> h \in r[0 + 1])
                   /\ 0 = 0 /\ w \notin {0, last} => (R <=> at = 0 /\ w \in r[w + 1])
    BY <2>2, RoundIs, Zenon
  <2> HIDE DEF w, at, last
  <2>4. CASE last = 0
    BY <2>3, <2>4
  <2>5. CASE last # 0 /\ w = last
    BY <2>3, <2>5
  <2>6. CASE last # 0 /\ w = 0
    <3>1. g[0 + 1] = behind[0 + 1]
      BY <1>2, <1>3, <2>6
    <3> QED
      BY <2>3, <2>6, <3>1
  <2>7. CASE last # 0 /\ w \notin {0, last}
    <3>1. g[w + 1] = behind[w + 1]
      BY <1>2, <1>3, <2>1, <2>7
    <3> QED
      BY <2>3, <2>7, <3>1
  <2> QED
    BY <2>4, <2>5, <2>6, <2>7
<1>6. ASSUME NEW e \in 0..last
      PROVE  g[e] = round[e]
  <2>1. round[e] = {h \in 0..Len(host) : MatchRound(host, excluded, g, e, h)}
    OBVIOUS
  <2>2. CASE e = 0
    BY <1>4, <1>5, <2>1, <2>2
  <2>3. CASE e # 0
    <3>1. e \in 1..last /\ \A i \in (e + 1)..last : g[i] = From(host, f, i)
      BY <1>2, <1>3, <2>3
    <3>2. \A h \in 0..Len(host) : MatchRound(host, excluded, g, e, h) <=> h \in From(host, f, e)
      BY <1>1, <3>1, RoundBehind
    <3>3. From(host, f, e) \subseteq 0..Len(host)
      BY DEF From
    <3> QED
      BY <1>3, <2>1, <3>1, <3>2, <3>3
  <2> QED
    BY <2>2, <2>3
<1>7. g = round
  BY <1>6 DEF g
<1> QED
  BY <1>7 DEF Loops

LEMMA isMatchIs ==
  ASSUME NEW S, NEW host \in Seq(S), NEW excluded \in Seq(S)
  PROVE  \E g : /\ Loops(host, excluded, g)
                /\ isMatch(host, excluded) <=> 0 \in g[0]
<1> DEFINE Is(g) == g = [e \in 0..Len(excluded) |->
                           {h \in 0..Len(host) : MatchRound(host, excluded, g, e, h)}]
           g == CHOOSE g : Is(g)
<1>1. PICK h : Loops(host, excluded, h)
  BY LoopsExist
<1>2. \E x : Is(x)
  BY <1>1 DEF Loops
<1>3. Is(g)
  BY <1>2, Zenon
<1>4. isMatch(host, excluded) <=> 0 \in g[0]
  BY Zenon DEF isMatch
<1> QED
  BY <1>3, <1>4, Zenon DEF Loops

(* isMatch is right for every host and every pattern but the empty one, which
   it takes for a match. *)
THEOREM isMatchIsExact ==
  ASSUME NEW S, NEW host \in Seq(S), NEW excluded \in Seq(S)
  PROVE  isMatch(host, excluded) <=> excluded = <<>> \/ Matches(host, excluded)
<1>1. PICK g : /\ Loops(host, excluded, g)
               /\ isMatch(host, excluded) <=> 0 \in g[0]
  BY isMatchIs
<1>2. Len(excluded) \in Nat /\ Len(host) \in Nat /\ 0 \in 0..Len(excluded)
  OBVIOUS
<1>3. PICK f : Rests(host, excluded, f) /\ (Matches(host, excluded) <=> 0 \in f[0])
  BY <1>2, MatchesIs
<1>4. 0 \in g[0] <=> MatchRound(host, excluded, g, 0, 0)
  <2>1. g[0] = {h \in 0..Len(host) : MatchRound(host, excluded, g, 0, h)}
    BY <1>1, <1>2 DEF Loops
  <2> QED
    BY <1>2, <2>1
<1>5. CASE excluded = <<>>
  <2>1. 0 = Len(excluded) /\ 0 \in 0..Len(host)
    BY <1>2, <1>5
  <2>2. MatchRound(host, excluded, g, 0, 0)
    BY <1>2, <2>1, RoundIs, Zenon
  <2> QED
    BY <1>1, <1>4, <1>5, <2>2
<1>6. CASE excluded # <<>>
  <2>1. MatchRound(host, excluded, g, 0, 0) <=> 0 \in f[0]
    BY <1>1, <1>3, <1>6, LoopsAre, RoundFirst
  <2> QED
    BY <1>1, <1>3, <1>4, <1>6, <2>1
<1> QED
  BY <1>5, <1>6

(***************************************************************************)
(* Who goes round the proxy.                                               *)
(***************************************************************************)

(* A character of a host or a pattern. *)
Letter == STRING \cup {Star, "l", "7", ".", ":", "1"}
AllNames == Seq(Letter) \X Seq(Seq(Letter))
AllConfs == Configuration(Type, AllNames, Seq({4, 6}))

LEMMA ConfsTyped == Confs \subseteq AllConfs
<1>1. STRING \subseteq Letter
  BY DEF Letter
<1>2. Seq(STRING) \subseteq Seq(Letter)
  BY <1>1, SeqMonotonic
<1>3. ASSUME NEW s \in Seq(Seq(STRING))
      PROVE  s \in Seq(Seq(Letter))
  BY <1>2, SeqMonotonic
<1>4. Names \subseteq AllNames
  BY <1>2, <1>3 DEF Names, AllNames
<1> QED
  BY <1>4, ProxyAssumption DEF AllConfs, Configuration

LEMMA LocalHostsTyped == LocalHosts \subseteq Seq(Letter) \ {<<>>}
<1>1. /\ <<"l">> \in Seq(Letter) /\ <<":", "1">> \in Seq(Letter)
      /\ <<"7", ".", Star, ".", Star>> \in Seq(Letter)
  BY DEF Letter
<1>2. /\ <<"l">> # <<>> /\ <<":", "1">> # <<>>
      /\ <<"7", ".", Star, ".", Star>> # <<>>
  OBVIOUS
<1> QED
  BY <1>1, <1>2 DEF LocalHosts

LEMMA BypassOf ==
  ASSUME NEW c \in AllConfs
  PROVE  isProxyNeeded(c) <=> c.type # "none" /\ ~Excluded(c)
<1> DEFINE host == c.names[1]
           list == c.names[2]
<1>1. host \in Seq(Letter) /\ list \in Seq(Seq(Letter)) /\ c.includeLocal \in BOOLEAN
  BY DEF AllConfs, Configuration, AllNames
<1> HIDE DEF host, list
<1>2. \A p \in LocalHosts : isMatch(host, p) <=> Matches(host, p)
  <2>1. \A p \in LocalHosts : p \in Seq(Letter) /\ p # <<>>
    BY LocalHostsTyped
  <2> QED
    BY <1>1, <2>1, isMatchIsExact
<1>3. \A i \in DOMAIN list : isMatch(host, list[i]) <=> list[i] = <<>> \/ Matches(host, list[i])
  <2>1. \A i \in DOMAIN list : list[i] \in Seq(Letter)
    BY <1>1
  <2> QED
    BY <1>1, <2>1, isMatchIsExact
<1>4. isProxyNeeded(c) <=> /\ c.type # "none"
                           /\ c.includeLocal \/ \A p \in LocalHosts : ~isMatch(host, p)
                           /\ \A i \in DOMAIN list : ~isMatch(host, list[i])
  BY Zenon DEF isProxyNeeded, host, list
<1>5. Excluded(c) <=> \/ ~c.includeLocal /\ \E p \in LocalHosts : Matches(host, p)
                      \/ \E i \in DOMAIN list : list[i] = <<>> \/ Matches(host, list[i])
  BY Zenon DEF Excluded, host, list
<1> QED
  BY <1>2, <1>3, <1>4, <1>5, Zenon

LEMMA UsedTyped ==
  ASSUME NEW c \in AllConfs
  PROVE  Used(c) \in AllConfs
<1>1. <<<<Star>>, <<>>>> \in AllNames
  <2>1. <<Star>> \in Seq(Letter) /\ <<>> \in Seq(Seq(Letter))
    BY DEF Letter
  <2> QED
    BY <2>1, Zenon DEF AllNames
<1>2. c.type \in Type /\ "none" \in Type
  BY DEF AllConfs, Configuration, Type
<1> DEFINE type == IF isProxyNeeded(c) THEN c.type ELSE "none"
<1>3. type \in Type
  BY <1>2
<1>4. Used(c) = [c EXCEPT !.names = <<<<Star>>, <<>>>>, !.includeLocal = TRUE, !.type = type]
  BY DEF Used
<1> HIDE DEF type
<1> QED
  BY <1>1, <1>3, <1>4 DEF AllConfs, Configuration

(* A host goes round the proxy exactly when it is a local one or one of the
   patterns matches it, an empty component matching all: for every host, every
   list of patterns and every configuration (isMatch and isProxyNeeded). *)
THEOREM BypassAlways == Spec => []BypassIsExact
<1> DEFINE Inv == conf \in AllConfs
<1>1. Init => Inv
  BY ConfsTyped DEF Init
<1>2. Inv /\ [Next]_vars => Inv'
  <2> SUFFICES ASSUME conf \in AllConfs, [Next]_vars PROVE conf' \in AllConfs
    OBVIOUS
  <2>1. CASE Start
    BY <2>1, UsedTyped DEF Start
  <2>2. CASE UNCHANGED conf
    BY <2>2
  <2>3. CASE Next /\ ~Start
    BY <2>2, <2>3 DEF Next, Connect, Socks4Reply, MethodChosen, Authenticated,
       Socks5Reply, Socks5Rest, HttpStatus, HttpEnd, ProxyAnswers, Arrives,
       ProxyCloses, ReceiveFails
  <2> QED
    BY <2>1, <2>2, <2>3 DEF vars
<1>3. Inv => BypassIsExact
  BY BypassOf DEF BypassIsExact
<1> QED
  BY <1>1, <1>2, <1>3, PTL DEF Spec
=============================================================================
