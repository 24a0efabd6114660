----------------------------- MODULE TcpServer -----------------------------
(***************************************************************************)
(* lwip_client_app.c: the network task accepts one TCP connection at a     *)
(* time and serves it until it is closed.  A request is copied into one    *)
(* buffer, answered there, and the answer goes through g_netQ as a POINTER *)
(* to that buffer.  Beneath it the netconn layer of lwIP (api_lib.c,       *)
(* api_msg.c): mailboxes, and an error mark that a reset leaves for good.  *)
(***************************************************************************)
EXTENDS Naturals, Sequences

CONSTANTS
  Conns,      \* connections that PLCs open, each of them once
  Nobody,
  Backlog,    \* connections that may wait to be accepted (netconn pool)
  MaxAsk,     \* requests on each connection
  NetLen      \* length of g_netQ (10 in the code)

ASSUME ServerAssumption ==
  /\ Nobody \notin Conns /\ Backlog \in Nat \ {0} /\ MaxAsk \in Nat
  /\ NetLen \in Nat \ {0}

VARIABLES
  peer,      \* what the peer has done: "none", "up", "fin" (closed), "reset"
  held,      \* connections for which lwIP holds a netconn
  waiting,   \* acceptmbox
  mbox,      \* recvmbox of each netconn: requests, or EndOfData
  failed,    \* netconns whose last_err is fatal
  pc,        \* where the network task is
  cur,       \* the connection it serves
  buf,       \* tcp_server_recvbuf: what the last request, now its answer, is of
  netq,      \* g_netQ; every message points at buf
  asked,     \* requests sent on each connection
  got        \* number of the last answer that came back (history)

peerVars == <<peer, asked>>
connVars == <<held, waiting, mbox, failed>>
taskVars == <<pc, cur, buf, netq, got>>
serverVars == <<peerVars, connVars, taskVars>>

Req(c, n) == [conn |-> c, n |-> n]
EndOfData == Req(Nobody, 0)
Empty     == EndOfData

------------------------------------------------------------------------------
(* The peers and the tcpip thread, which runs above the network task. *)

\* accept_function: a connection beyond the backlog is refused.
Connect(c) == /\ peer[c] = "none" /\ Len(waiting) < Backlog
              /\ peer' = [peer EXCEPT ![c] = "up"]
              /\ held' = held \cup {c} /\ waiting' = Append(waiting, c)
              /\ UNCHANGED <<asked, mbox, failed, taskVars>>

Put(c, item) == IF c \in held THEN mbox' = [mbox EXCEPT ![c] = Append(@, item)]
                              ELSE UNCHANGED mbox

\* A PLC sends a request, which arrives in a segment of its own.
Ask(c) == /\ peer[c] = "up" /\ asked[c] < MaxAsk
          /\ asked' = [asked EXCEPT ![c] = @ + 1]
          /\ Put(c, Req(c, asked[c] + 1))
          /\ UNCHANGED <<peer, held, waiting, failed, taskVars>>

\* The peer closes: recv_tcp passes on the end of the data.
Close(c) == /\ peer[c] = "up" /\ peer' = [peer EXCEPT ![c] = "fin"]
            /\ Put(c, EndOfData)
            /\ UNCHANGED <<asked, held, waiting, failed, taskVars>>

\* A reset, or retransmissions without an answer: err_tcp marks the netconn and
\* passes on the end of the data.
Reset(c) == /\ peer[c] \in {"up", "fin"} /\ peer' = [peer EXCEPT ![c] = "reset"]
            /\ failed' = IF c \in held THEN failed \cup {c} ELSE failed
            /\ Put(c, EndOfData)
            /\ UNCHANGED <<asked, held, waiting, taskVars>>

Peer == \E c \in Conns : Connect(c) \/ Ask(c) \/ Close(c) \/ Reset(c)

------------------------------------------------------------------------------
(* The network task. *)

\* netconn_accept.
Accept == /\ pc = "accept" /\ waiting # <<>>
          /\ cur' = Head(waiting) /\ waiting' = Tail(waiting) /\ pc' = "send"
          /\ UNCHANGED <<peerVars, held, mbox, failed, buf, netq, got>>

\* Mutant: the queue is not looked at in every round.
SendSkipped == /\ pc = "send" /\ pc' = "recv"
               /\ UNCHANGED <<peerVars, connVars, cur, buf, netq, got>>

\* g_netQ is empty.
NothingToSend == /\ pc = "send" /\ netq = <<>> /\ pc' = "recv"
                 /\ UNCHANGED <<peerVars, connVars, cur, buf, netq, got>>

\* xQueueReceive(g_netQ) and netconn_write: what the buffer holds goes to the
\* connection, or nowhere if that has failed.
Send == /\ pc = "send" /\ netq # <<>>
        /\ netq' = Tail(netq) /\ pc' = "recv"
        /\ got' = IF cur \in failed THEN got ELSE [got EXCEPT ![cur] = buf.n]
        /\ UNCHANGED <<peerVars, connVars, cur, buf>>

\* netconn_recv: a fatal error is returned at once; otherwise the task waits.
Recv == /\ pc = "recv"
        /\ pc' = IF cur \in failed THEN "send" ELSE "wait"
        /\ UNCHANGED <<peerVars, connVars, cur, buf, netq, got>>

\* recv_timeout, 10 ms.
TimeOut == /\ pc = "wait" /\ mbox[cur] = <<>> /\ pc' = "send"
           /\ UNCHANGED <<peerVars, connVars, cur, buf, netq, got>>

\* Mutant: one more request is taken before the answer is sent.
TakesTwo ==
  /\ pc = "wait" /\ mbox[cur] # <<>> /\ Head(mbox[cur]) # EndOfData
  /\ mbox' = [mbox EXCEPT ![cur] = Tail(@)] /\ buf' = Head(mbox[cur])
  /\ netq' = IF Len(netq) < NetLen THEN Append(netq, "answer") ELSE netq
  /\ pc' = "recv"
  /\ UNCHANGED <<peerVars, held, waiting, failed, cur, got>>

\* A request is copied to the buffer and eMBTcpPoll answers it in place.  (Frames
\* of another protocol, which get no answer, are left out.)  A g_netQ that stays
\* full for 10 ticks loses the answer.
Request ==
  /\ pc = "wait" /\ mbox[cur] # <<>> /\ Head(mbox[cur]) # EndOfData
  /\ mbox' = [mbox EXCEPT ![cur] = Tail(@)] /\ buf' = Head(mbox[cur])
  /\ netq' = IF Len(netq) < NetLen THEN Append(netq, "answer") ELSE netq
  /\ pc' = "send"
  /\ UNCHANGED <<peerVars, held, waiting, failed, cur, got>>

\* Mutant: the end of the data is taken for a timeout.
EndIgnored ==
  /\ pc = "wait" /\ mbox[cur] # <<>> /\ Head(mbox[cur]) = EndOfData
  /\ mbox' = [mbox EXCEPT ![cur] = Tail(@)] /\ pc' = "send"
  /\ UNCHANGED <<peerVars, held, waiting, failed, cur, buf, netq, got>>

\* Mutant: the error mark outlives the netconn.
MarkStays ==
  /\ pc = "wait" /\ mbox[cur] # <<>> /\ Head(mbox[cur]) = EndOfData
  /\ held' = held \ {cur} /\ mbox' = [mbox EXCEPT ![cur] = <<>>]
  /\ cur' = Nobody /\ pc' = "accept"
  /\ UNCHANGED <<peerVars, waiting, failed, buf, netq, got>>

\* ERR_CLSD: the netconn is closed and deleted.
Disconnect ==
  /\ pc = "wait" /\ mbox[cur] # <<>> /\ Head(mbox[cur]) = EndOfData
  /\ held' = held \ {cur} /\ failed' = failed \ {cur}
  /\ mbox' = [mbox EXCEPT ![cur] = <<>>]
  /\ cur' = Nobody /\ pc' = "accept"
  /\ UNCHANGED <<peerVars, waiting, buf, netq, got>>

Task == \/ Accept \/ NothingToSend \/ Send \/ Recv \/ TimeOut \/ Request
        \/ Disconnect

------------------------------------------------------------------------------
Init == /\ peer = [c \in Conns |-> "none"] /\ asked = [c \in Conns |-> 0]
        /\ held = {} /\ waiting = <<>> /\ mbox = [c \in Conns |-> <<>>] /\ failed = {}
        /\ pc = "accept" /\ cur = Nobody /\ buf = Empty /\ netq = <<>>
        /\ got = [c \in Conns |-> 0]

Next == Peer \/ Task

Spec == Init /\ [][Next]_serverVars

\* The network task has the lowest priority but one; the tasks above it wait most
\* of the time.
FairSpec == Spec /\ WF_serverVars(Task)
------------------------------------------------------------------------------
(* Properties *)

Mail == [conn : Conns \cup {Nobody}, n : 0..MaxAsk]

\* Every variable holds a value of its type.
TypeOK ==
  /\ peer \in [Conns -> {"none", "up", "fin", "reset"}]
  /\ asked \in [Conns -> 0..MaxAsk] /\ got \in [Conns -> 0..MaxAsk]
  /\ held \subseteq Conns /\ failed \subseteq held
  /\ waiting \in Seq(Conns) /\ Len(waiting) <= Backlog
  /\ mbox \in [Conns -> Seq(Mail)]
  /\ pc \in {"accept", "send", "recv", "wait"} /\ cur \in held \cup {Nobody}
  /\ buf \in Mail /\ netq \in Seq({"answer"})

\* An answer that waits in g_netQ is the only one, its buffer still holds it, and
\* it is meant for the connection that is served: none is overwritten by a later
\* request or left over for the next client (lwip_client_app.c:66-98).
AnswerIntact ==
  netq # <<>> => /\ Len(netq) = 1 /\ pc = "send"
                 /\ buf.conn = cur /\ got[cur] < buf.n

Service == INSTANCE ModbusService
             WITH served <- cur, asked <- asked, answered <- got

\* The network task keeps the promise of ModbusService.
ServesAsPromised == Service!Spec

\* A client that closes its connection makes room for the next one, unless a
\* reset reaches the connection before the task has read its end.
Released == \A c \in Conns : (cur = c /\ peer[c] = "fin") ~> (cur # c \/ c \in failed)

\* A connection that is gone is closed (lwip_client_app.c:99).
GoneIsClosed == \A c \in Conns : (cur = c /\ peer[c] \in {"fin", "reset"}) ~> (cur # c)

\* A request of the client that is served is answered while its connection lasts.
Answered == \A c \in Conns :
  (cur = c /\ asked[c] > got[c]) ~> (got[c] = asked[c] \/ peer[c] # "up")
============================================================================
