-------------------------- MODULE TcpServer_proofs --------------------------
(***************************************************************************)
(* What TcpServer.tla promises, for every number of connections, backlog,  *)
(* requests and queue length.                                              *)
(***************************************************************************)
EXTENDS TcpServer, TLAPS, SequenceTheorems

------------------------------------------------------------------------------
(* The mailbox of a connection *)

\* Requests b + 1 to a, then marks of the end.
InOrder(s, c, b, a) ==
  /\ Len(s) >= a - b
  /\ \A i \in 1..Len(s) : s[i] = IF i <= a - b THEN Req(c, b + i) ELSE EndOfData

LEMMA ReqParts ==
  ASSUME NEW c \in Conns, NEW n
  PROVE  /\ Req(c, n).conn = c /\ Req(c, n).n = n /\ Req(c, n) # EndOfData
         /\ EndOfData.conn = Nobody
  BY ServerAssumption DEF Req, EndOfData

LEMMA MailParts ==
  /\ EndOfData \in Mail
  /\ \A c \in Conns, n \in 0..MaxAsk : Req(c, n) \in Mail
  BY ServerAssumption DEF Mail, Req, EndOfData

LEMMA AskKeepsOrder ==
  ASSUME NEW s \in Seq(Mail), NEW c \in Conns, NEW a \in Nat, NEW b \in Nat, b <= a,
         InOrder(s, c, b, a), Len(s) = a - b, NEW r, r = Req(c, a + 1), r \in Mail
  PROVE  InOrder(Append(s, r), c, b, a + 1) /\ Len(Append(s, r)) = (a + 1) - b
  <1>1. /\ Len(Append(s, r)) = Len(s) + 1
        /\ \A i \in 1..Len(s) : Append(s, r)[i] = s[i]
        /\ Append(s, r)[Len(s) + 1] = r
    BY AppendProperties
  <1>2. Len(s) \in Nat
    BY LenProperties
  <1>3. ASSUME NEW i \in 1..Len(s) + 1 PROVE Append(s, r)[i] = Req(c, b + i)
    <2>1. CASE i <= Len(s)
      BY <1>1, <1>2, <1>3, <2>1 DEF InOrder
    <2>2. CASE i = Len(s) + 1
      <3>1. b + i = a + 1
        BY <2>2
      <3>2. QED BY <1>1, <2>2, <3>1
    <2>3. QED BY <1>2, <1>3, <2>1, <2>2
  <1>4. QED BY <1>1, <1>2, <1>3 DEF InOrder

LEMMA EndKeepsOrder ==
  ASSUME NEW s \in Seq(Mail), NEW c \in Conns, NEW a \in Nat, NEW b \in Nat, b <= a,
         InOrder(s, c, b, a)
  PROVE  InOrder(Append(s, EndOfData), c, b, a)
  <1> DEFINE e == EndOfData
  <1>1. e \in Mail
    BY MailParts
  <1> HIDE DEF e
  <1>2. /\ Len(Append(s, e)) = Len(s) + 1 /\ Len(s) \in Nat
        /\ \A i \in 1..Len(s) : Append(s, e)[i] = s[i]
        /\ Append(s, e)[Len(s) + 1] = e
    BY <1>1, AppendProperties, LenProperties
  <1>3. \A i \in 1..Len(s) + 1 :
          Append(s, e)[i] = IF i <= a - b THEN Req(c, b + i) ELSE e
    BY <1>2 DEF InOrder, e
  <1>4. InOrder(Append(s, e), c, b, a)
    BY <1>2, <1>3 DEF InOrder, e
  <1>5. QED BY <1>4 DEF e

LEMMA TakeKeepsOrder ==
  ASSUME NEW s \in Seq(Mail), NEW c \in Conns, NEW a \in Nat, NEW b \in Nat, b <= a,
         InOrder(s, c, b, a), s # <<>>, Head(s) # EndOfData
  PROVE  /\ b < a /\ Head(s) = Req(c, b + 1)
         /\ InOrder(Tail(s), c, b + 1, a) /\ Len(Tail(s)) = Len(s) - 1
  <1>1. /\ Len(s) \in Nat /\ Len(s) >= 1
        /\ Head(s) = s[1]
        /\ Len(Tail(s)) = Len(s) - 1
        /\ \A i \in 1..Len(s) - 1 : Tail(s)[i] = s[i + 1]
    BY EmptySeq, LenProperties, HeadTailProperties
  <1>2. s[1] = IF 1 <= a - b THEN Req(c, b + 1) ELSE EndOfData
    BY <1>1 DEF InOrder
  <1>3. 1 <= a - b
    BY <1>1, <1>2
  <1>4. ASSUME NEW i \in 1..Len(s) - 1
        PROVE  Tail(s)[i] = IF i <= a - (b + 1) THEN Req(c, (b + 1) + i) ELSE EndOfData
    <2>1. Tail(s)[i] = s[i + 1] /\ i + 1 \in 1..Len(s)
      BY <1>1, <1>4
    <2>2. s[i + 1] = IF i + 1 <= a - b THEN Req(c, b + (i + 1)) ELSE EndOfData
      BY <2>1 DEF InOrder
    <2>3. b + (i + 1) = (b + 1) + i /\ (i + 1 <= a - b <=> i <= a - (b + 1))
      BY <1>1
    <2>4. QED BY <2>1, <2>2, <2>3
  <1>5. QED BY <1>1, <1>2, <1>3, <1>4 DEF InOrder

------------------------------------------------------------------------------
(* The inductive invariant *)

Pending == netq # <<>>

\* What is in the mailbox of a connection are its requests from some number on, and
\* that number is the one after the request in the buffer, or, if none waits to be
\* sent there and the connection has not failed, after the last answer.
Ordered(c) ==
  \E b \in 0..asked[c] :
    /\ got[c] <= b /\ InOrder(mbox[c], c, b, asked[c])
    /\ peer[c] = "up" => Len(mbox[c]) = asked[c] - b
    /\ (c = cur /\ Pending) => b = buf.n
    /\ (c \notin failed /\ ~(c = cur /\ Pending)) => b = got[c]

\* The answer that waits is the one after the last that was sent, unless the
\* connection has failed.
Waits == Pending => /\ Len(netq) = 1 /\ pc = "send" /\ buf.conn = cur
                    /\ got[cur] < buf.n
                    /\ cur \notin failed => buf.n = got[cur] + 1

\* A connection is new, held, or over.
Lives(c) ==
  /\ peer[c] = "none" => (c \notin held /\ asked[c] = 0 /\ got[c] = 0)
  /\ peer[c] = "up" => c \in held
  /\ c \notin held => mbox[c] = <<>>
  /\ got[c] <= asked[c]

\* Those that wait are held, each of them once, and none is served yet.
Queueing ==
  /\ pc = "accept" <=> cur = Nobody
  /\ \A i \in 1..Len(waiting) : waiting[i] \in held /\ waiting[i] # cur
  /\ \A i, j \in 1..Len(waiting) : waiting[i] = waiting[j] => i = j

TInv == /\ TypeOK /\ Waits /\ Queueing
        /\ \A c \in Conns : Lives(c)
        /\ \A c \in held : Ordered(c)

LEMMA InitInv == Init => TInv
  <1> SUFFICES ASSUME Init PROVE TInv
    OBVIOUS
  <1>0. MaxAsk \in Nat /\ Nobody \notin Conns /\ Backlog \in Nat
    BY ServerAssumption
  <1>1. /\ peer = [c \in Conns |-> "none"] /\ asked = [c \in Conns |-> 0]
        /\ held = {} /\ waiting = <<>> /\ mbox = [c \in Conns |-> <<>>] /\ failed = {}
        /\ pc = "accept" /\ cur = Nobody /\ buf = EndOfData /\ netq = <<>>
        /\ got = [c \in Conns |-> 0]
    BY DEF Init, Empty
  <1>2. TypeOK
    <2>1. mbox \in [Conns -> Seq(Mail)]
      BY <1>1
    <2>2. waiting \in Seq(Conns) /\ Len(waiting) = 0 /\ netq \in Seq({"answer"})
      BY <1>1
    <2>3. buf \in Mail
      BY <1>1, MailParts
    <2>4. QED BY <1>0, <1>1, <2>1, <2>2, <2>3 DEF TypeOK
  <1>3. Waits
    BY <1>1 DEF Waits, Pending
  <1>4. Queueing
    BY <1>1 DEF Queueing
  <1>5. ASSUME NEW c \in Conns PROVE Lives(c)
    BY <1>1 DEF Lives
  <1>6. QED BY <1>1, <1>2, <1>3, <1>4, <1>5 DEF TInv

\* What a step leaves alone of a connection.
LEMMA OrderedStays ==
  ASSUME NEW c, Ordered(c),
         asked'[c] = asked[c], got'[c] = got[c], mbox'[c] = mbox[c],
         peer'[c] = "up" => peer[c] = "up",
         c \in failed => c \in failed',
         (c = cur /\ Pending)' <=> (c = cur /\ Pending), buf' = buf
  PROVE  Ordered(c)'
  BY DEF Ordered

LEMMA Types ==
  ASSUME TypeOK
  PROVE  /\ peer \in [Conns -> {"none", "up", "fin", "reset"}]
         /\ asked \in [Conns -> 0..MaxAsk] /\ got \in [Conns -> 0..MaxAsk]
         /\ held \subseteq Conns /\ failed \subseteq held
         /\ waiting \in Seq(Conns) /\ Len(waiting) <= Backlog /\ Len(waiting) \in Nat
         /\ mbox \in [Conns -> Seq(Mail)] /\ buf \in Mail /\ netq \in Seq({"answer"})
         /\ cur \in held \cup {Nobody} /\ Nobody \notin held
         /\ MaxAsk \in Nat /\ Backlog \in Nat
  BY ServerAssumption, LenProperties DEF TypeOK

\* What a peer puts into a mailbox, and what the boxes hold then.
LEMMA PutFacts ==
  ASSUME TypeOK, NEW c \in Conns, NEW item \in Mail, Put(c, item)
  PROVE  /\ mbox' \in [Conns -> Seq(Mail)]
         /\ \A d \in Conns : (d # c \/ d \notin held) => mbox'[d] = mbox[d]
         /\ c \in held => mbox'[c] = Append(mbox[c], item)
  <1>1. mbox \in [Conns -> Seq(Mail)]
    BY Types
  <1>2. Append(mbox[c], item) \in Seq(Mail)
    BY <1>1, AppendProperties
  <1>3. CASE c \in held
    BY <1>1, <1>2, <1>3 DEF Put
  <1>4. CASE c \notin held
    BY <1>1, <1>4 DEF Put
  <1>5. QED BY <1>3, <1>4

\* The parts that an action of a peer on its connection leaves alone.
LEMMA PeerKeeps ==
  ASSUME TInv, NEW c \in Conns, UNCHANGED taskVars, TypeOK', Queueing',
         \A d \in Conns \ {c} : /\ peer'[d] = peer[d] /\ asked'[d] = asked[d]
                               /\ mbox'[d] = mbox[d]
                               /\ (d \in held' <=> d \in held) /\ (d \in failed' <=> d \in failed),
         c \in failed => c \in failed', Lives(c)', c \in held' => Ordered(c)'
  PROVE  TInv'
  <1>1. held' \subseteq Conns /\ held \subseteq Conns
    BY DEF TInv, TypeOK
  <1>2. ASSUME NEW d \in Conns PROVE Lives(d)'
    <2>1. CASE d = c
      BY <2>1
    <2>2. CASE d # c
      BY <2>2 DEF TInv, Lives, taskVars
    <2>3. QED BY <2>1, <2>2
  <1>3. ASSUME NEW d \in held' PROVE Ordered(d)'
    <2>1. CASE d = c
      BY <1>3, <2>1
    <2>2. CASE d # c
      <3>1. d \in Conns \ {c} /\ d \in held
        BY <1>1, <1>3, <2>2
      <3>2. Ordered(d)
        BY <3>1 DEF TInv
      <3>3. QED BY <3>1, <3>2, OrderedStays DEF taskVars, Pending
    <2>3. QED BY <2>1, <2>2
  <1>4. Waits'
    <2>1. cur \in failed => cur \in failed'
      <3>1. failed \subseteq Conns
        BY Types DEF TInv
      <3>2. QED BY <3>1
    <2>2. QED BY <2>1 DEF TInv, Waits, Pending, taskVars
  <1>5. QED BY <1>2, <1>3, <1>4 DEF TInv

LEMMA ConnectKeeps ==
  ASSUME TInv, NEW c \in Conns, Connect(c)
  PROVE  TInv'
  <1>t. /\ peer \in [Conns -> {"none", "up", "fin", "reset"}]
        /\ held \subseteq Conns /\ failed \subseteq held
        /\ waiting \in Seq(Conns) /\ Len(waiting) \in Nat
        /\ cur \in held \cup {Nobody} /\ Nobody \notin Conns /\ Backlog \in Nat
    BY Types, ServerAssumption DEF TInv
  <1>1. /\ peer[c] = "none" /\ peer' = [peer EXCEPT ![c] = "up"] /\ Len(waiting) < Backlog
        /\ held' = held \cup {c} /\ waiting' = Append(waiting, c)
        /\ UNCHANGED <<asked, mbox, failed, taskVars>>
    BY DEF Connect
  <1>2. c \notin held /\ asked[c] = 0 /\ got[c] = 0 /\ mbox[c] = <<>> /\ c # cur
    BY <1>t, <1>1 DEF TInv, Lives
  <1>3. /\ waiting' \in Seq(Conns) /\ Len(waiting') = Len(waiting) + 1
        /\ \A i \in 1..Len(waiting) : waiting'[i] = waiting[i]
        /\ waiting'[Len(waiting) + 1] = c
    BY <1>t, <1>1, AppendProperties
  <1>4. TypeOK'
    BY <1>t, <1>1, <1>3 DEF TInv, TypeOK, taskVars
  <1>5. Queueing'
    <2>1. pc' = pc /\ cur' = cur /\ (pc = "accept" <=> cur = Nobody)
      BY <1>1 DEF TInv, Queueing, taskVars
    <2>2. \A i \in 1..Len(waiting') : waiting'[i] \in held' /\ waiting'[i] # cur'
      BY <1>t, <1>1, <1>2, <1>3, <2>1 DEF TInv, Queueing
    <2>3. ASSUME NEW i \in 1..Len(waiting'), NEW j \in 1..Len(waiting'),
                 waiting'[i] = waiting'[j]
          PROVE  i = j
      <3>1. \A k \in 1..Len(waiting) : waiting[k] # c
        BY <1>2 DEF TInv, Queueing
      <3>2. \A k \in 1..Len(waiting') : k \in 1..Len(waiting) \/ k = Len(waiting) + 1
        BY <1>t, <1>3
      <3>3. QED BY <1>3, <2>3, <3>1, <3>2 DEF TInv, Queueing
    <2>4. QED BY <2>1, <2>2, <2>3 DEF Queueing
  <1>6. Lives(c)'
    BY <1>t, <1>1, <1>2 DEF Lives, taskVars
  <1>7. Ordered(c)'
    <2>1. InOrder(mbox[c], c, 0, 0) /\ Len(mbox[c]) = 0
      BY <1>2 DEF InOrder
    <2>2. asked'[c] = 0 /\ got'[c] = 0 /\ mbox'[c] = mbox[c] /\ c # cur'
      BY <1>1, <1>2 DEF taskVars
    <2>3. 0 \in 0..asked'[c] /\ got'[c] <= 0 /\ InOrder(mbox'[c], c, 0, asked'[c])
          /\ Len(mbox'[c]) = asked'[c] - 0
      BY <2>1, <2>2
    <2>4. QED BY <2>2, <2>3 DEF Ordered
  <1>8. \A d \in Conns \ {c} : /\ peer'[d] = peer[d] /\ asked'[d] = asked[d]
                              /\ mbox'[d] = mbox[d]
                              /\ (d \in held' <=> d \in held) /\ (d \in failed' <=> d \in failed)
    BY <1>t, <1>1
  <1>9. QED BY <1>1, <1>4, <1>5, <1>6, <1>7, <1>8, PeerKeeps

LEMMA QueueingStays ==
  ASSUME Queueing, UNCHANGED <<held, waiting, taskVars>>
  PROVE  Queueing'
  BY DEF Queueing, taskVars

LEMMA AskKeeps ==
  ASSUME TInv, NEW c \in Conns, Ask(c)
  PROVE  TInv'
  <1> DEFINE r == Req(c, asked[c] + 1)
  <1>t. /\ peer \in [Conns -> {"none", "up", "fin", "reset"}]
        /\ asked \in [Conns -> 0..MaxAsk] /\ got \in [Conns -> 0..MaxAsk]
        /\ mbox \in [Conns -> Seq(Mail)] /\ MaxAsk \in Nat /\ held \subseteq Conns
    BY Types DEF TInv
  <1>1. /\ peer[c] = "up" /\ asked[c] < MaxAsk
        /\ asked' = [asked EXCEPT ![c] = @ + 1] /\ Put(c, r)
        /\ UNCHANGED <<peer, held, waiting, failed, taskVars>>
    BY DEF Ask
  <1>2. r \in Mail
    BY <1>t, <1>1, MailParts
  <1> HIDE DEF r
  <1>3. /\ mbox' \in [Conns -> Seq(Mail)]
        /\ \A d \in Conns : (d # c \/ d \notin held) => mbox'[d] = mbox[d]
        /\ c \in held => mbox'[c] = Append(mbox[c], r)
    BY <1>1, <1>2, PutFacts DEF TInv
  <1>4. c \in held /\ mbox'[c] = Append(mbox[c], r)
    BY <1>1, <1>3 DEF TInv, Lives
  <1>5. asked'[c] = asked[c] + 1 /\ asked' \in [Conns -> 0..MaxAsk]
        /\ \A d \in Conns : d # c => asked'[d] = asked[d]
    BY <1>t, <1>1
  <1>6. TypeOK'
    BY <1>1, <1>3, <1>5 DEF TInv, TypeOK, taskVars
  <1>7. Queueing'
    BY <1>1, QueueingStays DEF TInv
  <1>8. Lives(c)'
    <2>1. got[c] <= asked[c] /\ got'[c] = got[c] /\ peer'[c] = "up" /\ c \in held'
      BY <1>1, <1>4 DEF TInv, Lives, taskVars
    <2>2. got'[c] <= asked'[c]
      BY <1>t, <1>5, <2>1
    <2>3. QED BY <2>1, <2>2 DEF Lives
  <1>9. Ordered(c)'
    <2>1. PICK b \in 0..asked[c] :
            /\ got[c] <= b /\ InOrder(mbox[c], c, b, asked[c])
            /\ peer[c] = "up" => Len(mbox[c]) = asked[c] - b
            /\ (c = cur /\ Pending) => b = buf.n
            /\ (c \notin failed /\ ~(c = cur /\ Pending)) => b = got[c]
      BY <1>4 DEF TInv, Ordered
    <2>2. mbox[c] \in Seq(Mail) /\ asked[c] \in Nat /\ b \in Nat /\ b <= asked[c]
      BY <1>t
    <2>3. r = Req(c, asked[c] + 1) /\ Len(mbox[c]) = asked[c] - b
      BY <1>1, <2>1 DEF r
    <2>4. /\ InOrder(mbox'[c], c, b, asked[c] + 1)
          /\ Len(mbox'[c]) = (asked[c] + 1) - b
      BY <1>2, <1>4, <2>1, <2>2, <2>3, AskKeepsOrder
    <2>5. b \in 0..asked'[c]
      BY <1>5, <2>2
    <2>6. got'[c] = got[c] /\ cur' = cur /\ buf' = buf /\ failed' = failed /\ (Pending' <=> Pending)
      BY <1>1 DEF taskVars, Pending
    <2>7. QED BY <1>5, <2>1, <2>4, <2>5, <2>6 DEF Ordered
  <1>10. \A d \in Conns \ {c} : /\ peer'[d] = peer[d] /\ asked'[d] = asked[d]
                               /\ mbox'[d] = mbox[d]
                               /\ (d \in held' <=> d \in held) /\ (d \in failed' <=> d \in failed)
    BY <1>1, <1>3, <1>5
  <1>11. QED BY <1>1, <1>6, <1>7, <1>8, <1>9, <1>10, PeerKeeps

\* A peer closes or resets its connection.
LEMMA EndKeeps ==
  ASSUME TInv, NEW c \in Conns, Close(c) \/ Reset(c)
  PROVE  TInv'
  <1>t. /\ peer \in [Conns -> {"none", "up", "fin", "reset"}]
        /\ asked \in [Conns -> 0..MaxAsk] /\ got \in [Conns -> 0..MaxAsk]
        /\ mbox \in [Conns -> Seq(Mail)] /\ MaxAsk \in Nat /\ held \subseteq Conns
        /\ failed \subseteq held
    BY Types DEF TInv
  <1>1. /\ peer[c] # "none" /\ Put(c, EndOfData)
        /\ UNCHANGED <<asked, held, waiting, taskVars>>
    BY DEF Close, Reset
  <1>2. PICK end \in {"fin", "reset"} : peer' = [peer EXCEPT ![c] = end]
    BY DEF Close, Reset
  <1>3. failed' = failed \/ (failed' = failed \cup {c} /\ c \in held)
    BY DEF Close, Reset
  <1>4. /\ mbox' \in [Conns -> Seq(Mail)]
        /\ \A d \in Conns : (d # c \/ d \notin held) => mbox'[d] = mbox[d]
        /\ c \in held => mbox'[c] = Append(mbox[c], EndOfData)
    BY <1>1, PutFacts, MailParts DEF TInv
  <1>5. /\ peer' \in [Conns -> {"none", "up", "fin", "reset"}] /\ peer'[c] = end
        /\ \A d \in Conns : d # c => peer'[d] = peer[d]
    BY <1>t, <1>2
  <1>6. TypeOK'
    BY <1>t, <1>1, <1>3, <1>4, <1>5 DEF TInv, TypeOK, taskVars
  <1>7. Queueing'
    BY <1>1, QueueingStays DEF TInv
  <1>8. Lives(c)'
    BY <1>1, <1>4, <1>5 DEF TInv, Lives, taskVars
  <1>9. ASSUME c \in held' PROVE Ordered(c)'
    <2>0. c \in held
      BY <1>1, <1>9
    <2>1. PICK b \in 0..asked[c] :
            /\ got[c] <= b /\ InOrder(mbox[c], c, b, asked[c])
            /\ peer[c] = "up" => Len(mbox[c]) = asked[c] - b
            /\ (c = cur /\ Pending) => b = buf.n
            /\ (c \notin failed /\ ~(c = cur /\ Pending)) => b = got[c]
      BY <2>0 DEF TInv, Ordered
    <2>2. mbox[c] \in Seq(Mail) /\ asked[c] \in Nat /\ b \in Nat /\ b <= asked[c]
      BY <1>t
    <2>3. InOrder(mbox'[c], c, b, asked[c])
      BY <1>4, <2>0, <2>1, <2>2, EndKeepsOrder
    <2>4. got' = got /\ cur' = cur /\ buf' = buf /\ asked' = asked /\ (Pending' <=> Pending)
      BY <1>1 DEF taskVars, Pending
    <2>5. c \notin failed' => c \notin failed
      BY <1>3
    <2>6. peer'[c] # "up"
      BY <1>5
    <2>7. QED BY <2>1, <2>3, <2>4, <2>5, <2>6 DEF Ordered
  <1>10. \A d \in Conns \ {c} : /\ peer'[d] = peer[d] /\ asked'[d] = asked[d]
                               /\ mbox'[d] = mbox[d]
                               /\ (d \in held' <=> d \in held) /\ (d \in failed' <=> d \in failed)
    BY <1>1, <1>3, <1>4, <1>5
  <1>11. c \in failed => c \in failed'
    BY <1>3
  <1>12. QED BY <1>1, <1>6, <1>7, <1>8, <1>9, <1>10, <1>11, PeerKeeps

\* The steps of the network task that only take it to another place.
LEMMA MoveKeeps ==
  ASSUME TInv, NothingToSend \/ Recv \/ TimeOut
  PROVE  TInv'
  <1>1. /\ pc \in {"send", "recv", "wait"} /\ pc' \in {"send", "recv", "wait"}
        /\ UNCHANGED <<peerVars, connVars, cur, buf, netq, got>>
    BY DEF NothingToSend, Recv, TimeOut
  <1>2. ~Pending
    BY DEF NothingToSend, Recv, TimeOut, TInv, Waits, Pending
  <1>3. TypeOK'
    BY <1>1 DEF TInv, TypeOK, peerVars, connVars
  <1>4. Waits'
    BY <1>1, <1>2 DEF Waits, Pending
  <1>5. Queueing'
    BY <1>1 DEF TInv, Queueing, connVars
  <1>6. \A c \in Conns : Lives(c)'
    BY <1>1 DEF TInv, Lives, peerVars, connVars
  <1>7. ASSUME NEW c \in held' PROVE Ordered(c)'
    <2>1. c \in held /\ Ordered(c)
      BY <1>1, <1>7 DEF TInv, connVars
    <2>2. QED BY <1>1, <2>1, OrderedStays DEF peerVars, connVars, Pending
  <1>8. QED BY <1>3, <1>4, <1>5, <1>6, <1>7 DEF TInv

LEMMA AcceptKeeps ==
  ASSUME TInv, Accept
  PROVE  TInv'
  <1>t. waiting \in Seq(Conns) /\ Len(waiting) \in Nat /\ Len(waiting) <= Backlog
        /\ cur \in held \cup {Nobody} /\ Nobody \notin held /\ Backlog \in Nat
    BY Types DEF TInv
  <1>1. /\ pc = "accept" /\ waiting # <<>> /\ cur' = Head(waiting) /\ waiting' = Tail(waiting)
        /\ pc' = "send" /\ UNCHANGED <<peerVars, held, mbox, failed, buf, netq, got>>
    BY DEF Accept
  <1>2. ~Pending /\ cur = Nobody
    BY <1>1 DEF TInv, Waits, Queueing
  <1>3. /\ Len(waiting) >= 1 /\ Head(waiting) = waiting[1]
        /\ waiting' \in Seq(Conns) /\ Len(waiting') = Len(waiting) - 1
        /\ \A i \in 1..Len(waiting') : waiting'[i] = waiting[i + 1]
    BY <1>t, <1>1, EmptySeq, HeadTailProperties
  <1>4. cur' \in held /\ cur' # Nobody
    <2>1. 1 \in 1..Len(waiting)
      BY <1>t, <1>3
    <2>2. QED BY <1>t, <1>1, <1>3, <2>1 DEF TInv, Queueing
  <1>5. TypeOK'
    BY <1>t, <1>1, <1>3, <1>4 DEF TInv, TypeOK, peerVars
  <1>6. Waits'
    BY <1>1, <1>2 DEF Waits, Pending
  <1>7. Queueing'
    <2>1. \A i \in 1..Len(waiting') : i + 1 \in 1..Len(waiting) /\ i + 1 # 1
      BY <1>t, <1>3
    <2>2. 1 \in 1..Len(waiting)
      BY <1>t, <1>3
    <2>3. ASSUME NEW i \in 1..Len(waiting') PROVE waiting'[i] \in held' /\ waiting'[i] # cur'
      <3>1. waiting'[i] = waiting[i + 1] /\ i + 1 \in 1..Len(waiting) /\ i + 1 # 1
        BY <1>3, <2>1
      <3>2. waiting[i + 1] \in held /\ waiting[i + 1] # waiting[1]
        BY <2>2, <3>1 DEF TInv, Queueing
      <3>3. QED BY <1>1, <1>3, <3>1, <3>2
    <2>4. ASSUME NEW i \in 1..Len(waiting'), NEW j \in 1..Len(waiting'),
                 waiting'[i] = waiting'[j]
          PROVE  i = j
      <3>1. /\ waiting[i + 1] = waiting[j + 1]
            /\ i + 1 \in 1..Len(waiting) /\ j + 1 \in 1..Len(waiting)
        BY <1>3, <2>1, <2>4
      <3>2. i + 1 = j + 1
        BY <3>1 DEF TInv, Queueing
      <3>3. QED BY <3>2
    <2>5. QED BY <1>1, <1>4, <2>3, <2>4 DEF Queueing
  <1>8. \A c \in Conns : Lives(c)'
    BY <1>1 DEF TInv, Lives, peerVars
  <1>9. ASSUME NEW c \in held' PROVE Ordered(c)'
    <2>1. c \in held /\ Ordered(c)
      BY <1>1, <1>9 DEF TInv
    <2>2. ~Pending'
      BY <1>1, <1>2 DEF Pending
    <2>3. QED BY <1>1, <1>2, <2>1, <2>2, OrderedStays DEF peerVars
  <1>10. QED BY <1>5, <1>6, <1>7, <1>8, <1>9 DEF TInv

LEMMA SendKeeps ==
  ASSUME TInv, Send
  PROVE  TInv'
  <1>t. /\ asked \in [Conns -> 0..MaxAsk] /\ got \in [Conns -> 0..MaxAsk]
        /\ held \subseteq Conns /\ netq \in Seq({"answer"}) /\ MaxAsk \in Nat
        /\ cur \in held \cup {Nobody} /\ buf \in Mail
    BY Types DEF TInv
  <1>1. /\ pc = "send" /\ netq # <<>> /\ netq' = Tail(netq) /\ pc' = "recv"
        /\ got' = IF cur \in failed THEN got ELSE [got EXCEPT ![cur] = buf.n]
        /\ UNCHANGED <<peerVars, connVars, cur, buf>>
    BY DEF Send
  <1>2. Pending /\ cur \in held /\ cur # Nobody
    BY <1>t, <1>1 DEF TInv, Pending, Queueing
  <1>3. netq' \in Seq({"answer"}) /\ netq' = <<>>
    <2>1. Len(netq) = 1
      BY <1>2 DEF TInv, Waits
    <2>2. netq' \in Seq({"answer"}) /\ Len(netq') = 0
      BY <1>t, <1>1, <2>1, HeadTailProperties
    <2>3. QED BY <2>2, EmptySeq
  <1>4. PICK b \in 0..asked[cur] :
            /\ got[cur] <= b /\ InOrder(mbox[cur], cur, b, asked[cur])
            /\ peer[cur] = "up" => Len(mbox[cur]) = asked[cur] - b
            /\ b = buf.n
    BY <1>2 DEF TInv, Ordered
  <1>5. /\ got' \in [Conns -> 0..MaxAsk]
        /\ \A c \in Conns : c # cur => got'[c] = got[c]
        /\ got'[cur] <= b /\ (cur \notin failed => got'[cur] = b)
    <2>1. b \in 0..MaxAsk /\ cur \in Conns
      BY <1>t, <1>2
    <2>2. CASE cur \in failed
      BY <1>t, <1>1, <1>4, <2>2
    <2>3. CASE cur \notin failed
      BY <1>t, <1>1, <1>4, <2>1, <2>3
    <2>4. QED BY <2>2, <2>3
  <1>6. TypeOK'
    BY <1>1, <1>3, <1>5 DEF TInv, TypeOK, peerVars, connVars
  <1>7. Waits'
    BY <1>3 DEF Waits, Pending
  <1>8. Queueing'
    BY <1>1, <1>2 DEF TInv, Queueing, connVars
  <1>9. ASSUME NEW c \in Conns PROVE Lives(c)'
    <2>1. CASE c # cur
      BY <1>1, <1>5, <2>1 DEF TInv, Lives, peerVars, connVars
    <2>2. CASE c = cur
      <3>1. got'[c] <= asked[c]
        BY <1>t, <1>4, <1>5, <2>2
      <3>2. QED BY <1>1, <1>2, <2>2, <3>1 DEF TInv, Lives, peerVars, connVars
    <2>3. QED BY <2>1, <2>2
  <1>10. ASSUME NEW c \in held' PROVE Ordered(c)'
    <2>1. c \in held /\ c \in Conns /\ Ordered(c) /\ ~Pending'
      BY <1>t, <1>1, <1>3, <1>10 DEF TInv, connVars, Pending
    <2>2. CASE c # cur
      BY <1>1, <1>5, <2>1, <2>2, OrderedStays DEF peerVars, connVars
    <2>3. CASE c = cur
      BY <1>1, <1>4, <1>5, <2>1, <2>3 DEF Ordered, peerVars, connVars
    <2>4. QED BY <2>2, <2>3
  <1>11. QED BY <1>6, <1>7, <1>8, <1>9, <1>10 DEF TInv

LEMMA RequestKeeps ==
  ASSUME TInv, Request
  PROVE  TInv'
  <1>t. /\ asked \in [Conns -> 0..MaxAsk] /\ got \in [Conns -> 0..MaxAsk]
        /\ held \subseteq Conns /\ MaxAsk \in Nat /\ mbox \in [Conns -> Seq(Mail)]
        /\ cur \in held \cup {Nobody} /\ netq \in Seq({"answer"})
    BY Types DEF TInv
  <1>1. /\ pc = "wait" /\ mbox[cur] # <<>> /\ Head(mbox[cur]) # EndOfData
        /\ mbox' = [mbox EXCEPT ![cur] = Tail(@)] /\ buf' = Head(mbox[cur])
        /\ netq' = IF Len(netq) < NetLen THEN Append(netq, "answer") ELSE netq
        /\ pc' = "send" /\ UNCHANGED <<peerVars, held, waiting, failed, cur, got>>
    BY DEF Request
  <1>2. ~Pending /\ cur \in held /\ cur # Nobody /\ cur \in Conns
    BY <1>t, <1>1 DEF TInv, Waits, Queueing
  <1>3. PICK b \in 0..asked[cur] :
            /\ got[cur] <= b /\ InOrder(mbox[cur], cur, b, asked[cur])
            /\ peer[cur] = "up" => Len(mbox[cur]) = asked[cur] - b
            /\ cur \notin failed => b = got[cur]
    BY <1>2 DEF TInv, Ordered
  <1>4. mbox[cur] \in Seq(Mail) /\ asked[cur] \in 0..MaxAsk /\ asked[cur] \in Nat /\ b \in Nat /\ b <= asked[cur]
    BY <1>t, <1>2
  <1>5. /\ b < asked[cur] /\ buf' = Req(cur, b + 1)
        /\ InOrder(Tail(mbox[cur]), cur, b + 1, asked[cur])
        /\ Len(Tail(mbox[cur])) = Len(mbox[cur]) - 1
    BY <1>1, <1>2, <1>3, <1>4, TakeKeepsOrder
  <1>6. buf'.conn = cur /\ buf'.n = b + 1 /\ buf' \in Mail
    <2>1. b + 1 \in 0..MaxAsk
      BY <1>t, <1>4, <1>5
    <2>2. QED BY <1>2, <1>5, <2>1, ReqParts, MailParts
  <1>7. netq' \in Seq({"answer"}) /\ Len(netq') = 1
    <2>1. netq = <<>> /\ Len(netq) = 0 /\ 0 < NetLen
      BY <1>2, ServerAssumption DEF Pending
    <2>2. netq' = Append(netq, "answer")
      BY <1>1, <2>1
    <2>3. QED BY <1>t, <2>1, <2>2, AppendProperties
  <1>8. /\ mbox' \in [Conns -> Seq(Mail)] /\ mbox'[cur] = Tail(mbox[cur])
        /\ \A c \in Conns : c # cur => mbox'[c] = mbox[c]
    <2>1. Tail(mbox[cur]) \in Seq(Mail)
      BY <1>1, <1>4, HeadTailProperties
    <2>2. QED BY <1>t, <1>1, <1>2, <2>1
  <1>9. TypeOK'
    BY <1>1, <1>6, <1>7, <1>8 DEF TInv, TypeOK, peerVars
  <1>10. Waits'
    <2>1. got'[cur] < buf'.n /\ (cur \notin failed => buf'.n = got'[cur] + 1)
      BY <1>t, <1>1, <1>2, <1>3, <1>4, <1>6
    <2>2. QED BY <1>1, <1>6, <1>7, <2>1 DEF Waits
  <1>11. Queueing'
    BY <1>1, <1>2 DEF TInv, Queueing
  <1>12. ASSUME NEW c \in Conns PROVE Lives(c)'
    BY <1>1, <1>2, <1>8 DEF TInv, Lives, peerVars
  <1>13. ASSUME NEW c \in held' PROVE Ordered(c)'
    <2>1. c \in held /\ c \in Conns /\ Ordered(c)
      BY <1>t, <1>1, <1>13 DEF TInv
    <2>2. CASE c # cur
      BY <1>1, <1>2, <1>8, <2>1, <2>2 DEF Ordered, peerVars
    <2>3. CASE c = cur
      <3>1. b + 1 \in 0..asked'[cur] /\ got'[cur] <= b + 1
        BY <1>t, <1>1, <1>2, <1>3, <1>4, <1>5 DEF peerVars
      <3>2. peer[cur] = "up" => Len(mbox'[cur]) = asked[cur] - (b + 1)
        <4> SUFFICES ASSUME peer[cur] = "up" PROVE Len(mbox'[cur]) = asked[cur] - (b + 1)
          OBVIOUS
        <4>1. Len(mbox[cur]) = asked[cur] - b
          BY <1>3
        <4>2. Len(mbox'[cur]) = (asked[cur] - b) - 1
          BY <1>5, <1>8, <4>1
        <4>3. QED BY <1>4, <4>2
      <3>3. Pending'
        BY <1>7 DEF Pending
      <3>4. QED BY <1>1, <1>5, <1>6, <1>8, <2>3, <3>1, <3>2, <3>3 DEF Ordered, peerVars
    <2>4. QED BY <2>2, <2>3
  <1>14. QED BY <1>9, <1>10, <1>11, <1>12, <1>13 DEF TInv

LEMMA DisconnectKeeps ==
  ASSUME TInv, Disconnect
  PROVE  TInv'
  <1>t. /\ held \subseteq Conns /\ failed \subseteq held /\ mbox \in [Conns -> Seq(Mail)]
        /\ cur \in held \cup {Nobody} /\ Nobody \notin held
    BY Types DEF TInv
  <1>1. /\ pc = "wait" /\ mbox[cur] # <<>> /\ Head(mbox[cur]) = EndOfData
        /\ held' = held \ {cur} /\ failed' = failed \ {cur}
        /\ mbox' = [mbox EXCEPT ![cur] = <<>>] /\ cur' = Nobody /\ pc' = "accept"
        /\ UNCHANGED <<peerVars, waiting, buf, netq, got>>
    BY DEF Disconnect
  <1>2. ~Pending /\ cur \in held /\ cur \in Conns
    BY <1>t, <1>1 DEF TInv, Waits, Queueing
  <1>3. /\ mbox' \in [Conns -> Seq(Mail)] /\ mbox'[cur] = <<>>
        /\ \A c \in Conns : c # cur => mbox'[c] = mbox[c]
    BY <1>t, <1>1, <1>2
  <1>4. peer[cur] # "up"
    <2> SUFFICES ASSUME peer[cur] = "up" PROVE FALSE
      OBVIOUS
    <2>1. PICK b \in 0..asked[cur] : InOrder(mbox[cur], cur, b, asked[cur])
                                   /\ Len(mbox[cur]) = asked[cur] - b
      BY <1>2 DEF TInv, Ordered
    <2>2. Len(mbox[cur]) \in Nat /\ Len(mbox[cur]) >= 1 /\ Head(mbox[cur]) = mbox[cur][1]
      BY <1>t, <1>1, <1>2, EmptySeq, LenProperties
    <2>3. mbox[cur][1] = Req(cur, b + 1)
      BY <2>1, <2>2 DEF InOrder
    <2>4. QED BY <1>1, <1>2, <2>2, <2>3, ReqParts
  <1>5. TypeOK'
    BY <1>t, <1>1, <1>3 DEF TInv, TypeOK, peerVars
  <1>6. Waits'
    BY <1>1, <1>2 DEF Waits, Pending
  <1>7. Queueing'
    <2>1. \A i \in 1..Len(waiting) : waiting[i] \in held /\ waiting[i] # cur
      BY DEF TInv, Queueing
    <2>2. \A i \in 1..Len(waiting) : waiting[i] \in held' /\ waiting[i] # Nobody
      BY <1>t, <1>1, <2>1
    <2>3. QED BY <1>1, <2>2 DEF TInv, Queueing
  <1>8. ASSUME NEW c \in Conns PROVE Lives(c)'
    BY <1>1, <1>2, <1>3, <1>4 DEF TInv, Lives, peerVars
  <1>9. ASSUME NEW c \in held' PROVE Ordered(c)'
    <2>1. c \in held /\ c # cur /\ c \in Conns /\ Ordered(c)
      BY <1>t, <1>1, <1>9 DEF TInv
    <2>2. ~Pending' /\ (c \in failed => c \in failed')
      BY <1>1, <1>2, <2>1 DEF Pending
    <2>3. QED BY <1>1, <1>2, <1>3, <2>1, <2>2, OrderedStays DEF peerVars
  <1>10. QED BY <1>5, <1>6, <1>7, <1>8, <1>9 DEF TInv

LEMMA InvKept == TInv /\ [Next]_serverVars => TInv'
  <1> SUFFICES ASSUME TInv, [Next]_serverVars PROVE TInv'
    OBVIOUS
  <1>1. ASSUME NEW c \in Conns, Connect(c) \/ Ask(c) \/ Close(c) \/ Reset(c) PROVE TInv'
    BY <1>1, ConnectKeeps, AskKeeps, EndKeeps
  <1>2. CASE Task
    BY <1>2, AcceptKeeps, MoveKeeps, SendKeeps, RequestKeeps, DisconnectKeeps DEF Task
  <1>3. CASE UNCHANGED serverVars
    <2>1. UNCHANGED <<peerVars, connVars, taskVars>>
      BY <1>3 DEF serverVars
    <2>2. TypeOK' /\ Waits' /\ Queueing'
      BY <2>1 DEF TInv, TypeOK, Waits, Pending, Queueing, peerVars, connVars, taskVars
    <2>3. ASSUME NEW c \in Conns PROVE Lives(c)'
      BY <2>1 DEF TInv, Lives, peerVars, connVars, taskVars
    <2>4. ASSUME NEW c \in held' PROVE Ordered(c)'
      BY <2>1, <2>4 DEF TInv, Ordered, Pending, peerVars, connVars, taskVars
    <2>5. QED BY <2>2, <2>3, <2>4 DEF TInv
  <1>4. QED BY <1>1, <1>2, <1>3 DEF Next, Peer

LEMMA InvAlways == Spec => []TInv
  BY InitInv, InvKept, PTL DEF Spec

------------------------------------------------------------------------------
(* Theorems *)

\* Every variable of the network task, of its connections and of their peers holds a
\* value of its type; only connections that lwIP holds are marked as failed.
THEOREM TypeCorrect == Spec => []TypeOK
  <1>1. TInv => TypeOK
    BY DEF TInv
  <1>2. QED BY <1>1, InvAlways, PTL

\* An answer that waits in g_netQ is alone there, still in the buffer, and meant for
\* the connection that is served, however requests, closings and resets of any number
\* of clients fall together (lwip_client_app.c:66-98).
THEOREM AnswersAreIntact == Spec => []AnswerIntact
  <1>1. TInv => AnswerIntact
    BY DEF TInv, Waits, Pending, AnswerIntact
  <1>2. QED BY <1>1, InvAlways, PTL

\* The network task implements ModbusService: one client at a time, each of its
\* requests answered at most once and in order (lwip_client_app.c:57-106).
THEOREM ServiceImplemented == Spec => ServesAsPromised
  <1>1. Init => Service!Init
    BY DEF Init, Service!Init
  <1>2. TInv /\ [Next]_serverVars => [Service!Next]_(Service!serviceVars)
    <2> SUFFICES ASSUME TInv, [Next]_serverVars
                 PROVE  [Service!Next]_(Service!serviceVars)
      OBVIOUS
    <2> USE DEF Service!Next, Service!serviceVars
    <2>t. /\ asked \in [Conns -> 0..MaxAsk] /\ got \in [Conns -> 0..MaxAsk]
          /\ held \subseteq Conns /\ waiting \in Seq(Conns)
          /\ cur \in held \cup {Nobody} /\ Nobody \notin held
      BY Types DEF TInv
    <2>1. ASSUME NEW c \in Conns, Ask(c) PROVE Service!Ask(c)
      BY <2>1 DEF Ask, taskVars, Service!Ask
    <2>2. CASE Accept
      <3>1. Head(waiting) \in Conns
        BY <2>t, <2>2, HeadTailProperties DEF Accept
      <3>2. Service!Serve(Head(waiting))
        BY <2>2 DEF Accept, TInv, Queueing, peerVars, Service!Serve
      <3>3. QED BY <3>1, <3>2
    <2>3. CASE Send
      <3>1. /\ cur \in Conns /\ got[cur] < buf.n
            /\ cur \notin failed => buf.n = got[cur] + 1
        BY <2>t, <2>3 DEF Send, TInv, Queueing, Waits, Pending
      <3>2. CASE cur \in failed
        BY <2>3, <3>2 DEF Send, peerVars
      <3>3. CASE cur \notin failed
        <4>1. cur \in held
          BY <2>t, <2>3 DEF Send, TInv, Queueing
        <4>2. buf.n \in 0..asked[cur]
          BY <2>3, <4>1 DEF Send, TInv, Ordered, Pending
        <4>3. got[cur] < asked[cur]
          BY <2>t, <3>1, <4>2
        <4>4. got' = [got EXCEPT ![cur] = @ + 1] /\ UNCHANGED <<cur, asked>>
          BY <2>3, <3>1, <3>3 DEF Send, peerVars
        <4>5. QED BY <3>1, <4>3, <4>4 DEF Service!Answer
      <3>4. QED BY <3>2, <3>3
    <2>4. CASE Disconnect
      <3>1. cur # Nobody
        BY <2>4 DEF Disconnect, TInv, Queueing
      <3>2. QED BY <2>4, <3>1 DEF Disconnect, peerVars, Service!Leave
    <2>5. CASE UNCHANGED <<cur, asked, got>>
      BY <2>5
    <2>6. QED
      BY <2>1, <2>2, <2>3, <2>4, <2>5
         DEF Next, Peer, Task, Connect, Close, Reset, NothingToSend, Recv, TimeOut, Request,
             taskVars, peerVars, serverVars
  <1>3. QED BY <1>1, <1>2, InvAlways, PTL DEF Spec, ServesAsPromised, Service!Spec
==============================================================================
