--------------------------- MODULE ModbusService ---------------------------
(***************************************************************************)
(* What the network task promises its clients: one of them is served at a  *)
(* time, each of its requests is answered at most once and in order, and   *)
(* nobody is told the answer to another's request.                         *)
(***************************************************************************)
EXTENDS Naturals

CONSTANTS Conns,   \* TCP connections
          Nobody   \* no connection

VARIABLES served,    \* the connection that is served
          asked,     \* requests each connection has sent
          answered   \* number of the last answer each has been given

serviceVars == <<served, asked, answered>>

Ask(c) == /\ asked' = [asked EXCEPT ![c] = @ + 1]
          /\ UNCHANGED <<served, answered>>

Serve(c) == /\ served = Nobody /\ served' = c
            /\ UNCHANGED <<asked, answered>>

Answer(c) == /\ served = c /\ answered[c] < asked[c]
             /\ answered' = [answered EXCEPT ![c] = @ + 1]
             /\ UNCHANGED <<served, asked>>

Leave == /\ served # Nobody /\ served' = Nobody
         /\ UNCHANGED <<asked, answered>>

Init == /\ served = Nobody
        /\ asked = [c \in Conns |-> 0] /\ answered = [c \in Conns |-> 0]

Next == (\E c \in Conns : Ask(c) \/ Serve(c) \/ Answer(c)) \/ Leave

Spec == Init /\ [][Next]_serviceVars
=============================================================================
