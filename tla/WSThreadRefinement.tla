-------------------------- MODULE WSThreadRefinement --------------------------
(* WSThread implements Requests. *)
EXTENDS WSThread

\* The requests the gateway knows of connection c: those in idCommandInfo and those
\* its on_message carries to addActive. A closed socket is owed nothing.
Held(c) ==
    IF sock[c] = "open"
    THEN tasks[c] \cup (IF asioConn = c THEN asioIds ELSE {})
    ELSE {}

OpenConns == {c \in Conn : sock[c] = "open"}
Owed == [c \in Conn |-> {i \in Held(c) : delivered[i] = 0}]
Answered == [c \in Conn |-> {i \in Held(c) : delivered[i] # 0}]

Abstract == INSTANCE Requests WITH
    open <- OpenConns, owed <- Owed, answered <- Answered

\* Threads, locks, scans and failed sends are invisible to the clients: every step is
\* a step of Requests or changes nothing there, so no answer is lost or misdirected.
ImplementsRequests == Abstract!Spec

\* Every asynchronous request on_message has accepted is owed until it is answered or its
\* connection closed (ImplementsRequests), and is not owed for ever unless the server is
\* stopped: no wakeup of actTh is lost between addActive and the wait, and no scan forgets it.
RequestsAnswered ==
    \A i \in Id :
        (\E c \in Conn : i \in Owed[c]) ~> (\A c \in Conn : i \notin Owed[c]) \/ stopPc # "none"

===============================================================================
