------------------------------- MODULE Requests -------------------------------
(***************************************************************************)
(* What the gateway promises about asynchronous requests, with no threads, *)
(* locks or polling: a client with an open connection is owed an answer    *)
(* for each request accepted from it, the debt ends with the answer or     *)
(* with the connection, and nobody else is answered.                       *)
(***************************************************************************)
CONSTANTS Conn, Id

VARIABLES
    open,     \* the connections a client can talk through
    owed,     \* the requests each of them has to be answered
    answered  \* its answered requests that are still remembered

vars == <<open, owed, answered>>

Init ==
    /\ open = {}
    /\ owed = [c \in Conn |-> {}]
    /\ answered = [c \in Conn |-> {}]

Connect(c) ==
    /\ c \notin open
    /\ open' = open \cup {c}
    /\ UNCHANGED <<owed, answered>>

\* A request has a fresh id: nobody is owed or remembers it.
Accept(c, ids) ==
    /\ c \in open
    /\ \A d \in Conn : (owed[d] \cup answered[d]) \cap ids = {}
    /\ owed' = [owed EXCEPT ![c] = @ \cup ids]
    /\ UNCHANGED <<open, answered>>

Answer(c, i) ==
    /\ c \in open
    /\ i \in owed[c]
    /\ owed' = [owed EXCEPT ![c] = @ \ {i}]
    /\ answered' = [answered EXCEPT ![c] = @ \cup {i}]
    /\ UNCHANGED open

\* Only answered requests are ever forgotten.
Retire(c, ids) ==
    /\ ids \subseteq answered[c]
    /\ answered' = [answered EXCEPT ![c] = @ \ ids]
    /\ UNCHANGED <<open, owed>>

\* Connections may go down together: one broadcast can find several slow clients.
Close(S) ==
    /\ S \subseteq open
    /\ open' = open \ S
    /\ owed' = [c \in Conn |-> IF c \in S THEN {} ELSE owed[c]]
    /\ answered' = [c \in Conn |-> IF c \in S THEN {} ELSE answered[c]]

Next ==
    \/ \E c \in Conn :
        \/ Connect(c)
        \/ \E ids \in SUBSET Id : Accept(c, ids) \/ Retire(c, ids)
        \/ \E i \in Id : Answer(c, i)
    \/ \E S \in SUBSET Conn : Close(S)

Spec == Init /\ [][Next]_vars

===============================================================================
