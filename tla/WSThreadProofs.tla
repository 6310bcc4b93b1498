---------------------------- MODULE WSThreadProofs ----------------------------
(***************************************************************************)
(* Proofs about WSThread, for any number of connections, requests and      *)
(* group errors and for both builds: its invariants, that it implements    *)
(* Requests, and that the proxies of the client-mode gateway live as long  *)
(* as somebody may ask them.                                               *)
(***************************************************************************)
EXTENDS WSThreadRefinement, WSTangoConnCli, FiniteSetTheorems, TLAPS

\* A handle is in m_connections exactly from on_open to on_close.
SockInTable ==
    \A c \in Conn : c \in connections <=> sock[c] \in {"open", "closing"}

\* The locals of on_message make sense at each of its points.
AsioLocals ==
    /\ asioPc # "add" => asioIds = {}
    /\ asioPc = "errors" => asioErrs > 0
    /\ asioPc = "drop" => sock[asioConn] # "open"

\* The locals of a scan live only while the scan holds the lock, and _checkRequests
\* goes through the requests of the connection it visits once.
ScanLocals ==
    /\ actPc # "scan" => scanConns = {} /\ scanConn = NoConn /\ delActive = {}
    /\ scanConn = NoConn => scanIds = {} /\ sentIds = {}
    /\ scanConn # NoConn => scanIds \subseteq tasks[scanConn] /\ sentIds \subseteq tasks[scanConn]
    /\ scanIds \cap sentIds = {}

\* sendMessage holds on to handles of dead connections only.
EventLocals == \A c \in evFailed : sock[c] \notin {"validated", "open"}

\* A request id belongs to one connection, or to the on_message that has just got it.
OneOwner ==
    /\ \A c \in Conn : c \notin connections => tasks[c] = {}
    /\ \A c, d \in Conn : c # d => tasks[c] \cap tasks[d] = {}
    /\ \A c \in Conn : tasks[c] \cap asioIds = {}
    /\ \A c \in Conn : \A i \in tasks[c] : reply[i] # "none"
    /\ \A i \in asioIds : reply[i] # "none" /\ delivered[i] = 0
    /\ \A i \in Id : reply[i] = "none" => delivered[i] = 0

\* An answered request of an open connection is still on its way out of idCommandInfo:
\* only a connection that is closing keeps answered requests after the scan.
AnsweredLeaves ==
    \A c \in Conn : \A i \in tasks[c] :
        sock[c] = "open" /\ delivered[i] # 0 => c = scanConn /\ i \in sentIds

\* _del holds answered requests only.
SentDelivered == \A i \in sentIds : delivered[i] # 0

\* The inductive invariant.
IInv ==
    /\ TypeOK
    /\ SockInTable
    /\ Registered
    /\ AsioLocals
    /\ ScanLocals
    /\ EventLocals
    /\ OneOwner
    /\ AnsweredLeaves
    /\ SentDelivered
    /\ AnsweredOnce
    /\ PendingWatched
    /\ NumConnUsable

\* A new WSThread satisfies the invariant.
LEMMA InitInv == Init => IInv
<1> SUFFICES ASSUME Init PROVE IInv
  OBVIOUS
<1> USE DEF Init
<1>1. TypeOK
  <2>1. asioErrs \in 0..MaxErr
    BY ConstantsAssumption
  <2>2. delivered \in [Id -> 0..2] /\ tasks \in [Conn -> SUBSET Id]
    OBVIOUS
  <2> QED
    BY <2>1, <2>2 DEF TypeOK
<1>2. SockInTable /\ Registered /\ AsioLocals /\ ScanLocals /\ EventLocals
  BY DEF SockInTable, Registered, AsioLocals, ScanLocals, EventLocals
<1>3. OneOwner /\ AnsweredLeaves /\ SentDelivered /\ AnsweredOnce
  BY DEF OneOwner, AnsweredLeaves, SentDelivered, AnsweredOnce
<1>4. PendingWatched /\ NumConnUsable
  BY DEF PendingWatched, NumConnUsable
<1> QED
  BY <1>1, <1>2, <1>3, <1>4 DEF IInv

\* setNumOfConnections stores a number that is 0 exactly for an empty table.
LEMMA NumConnSet ==
    ASSUME connections' \subseteq Conn, SetNumOfConnections
    PROVE  numConn' \in Nat /\ (numConn' = 0 <=> connections' = {})
<1>1. IsFiniteSet(connections')
  BY FS_Subset, ConstantsAssumption
<1> QED
  BY <1>1, FS_CardinalityType, FS_EmptySet DEF SetNumOfConnections

\* Every step preserves it, one action at a time.
LEMMA NextInv == IInv /\ [Next]_vars => IInv'
<1> SUFFICES ASSUME IInv, [Next]_vars PROVE IInv'
  OBVIOUS
<1> USE ConstantsAssumption
    DEF IInv, TypeOK, SockInTable, Registered, AsioLocals, ScanLocals, EventLocals, OneOwner,
        AnsweredLeaves, SentDelivered, AnsweredOnce, PendingWatched, NumConnUsable,
        netVars, tblVars, repVars, asioVars, scanVars, stopVars,
        AsioReady, LockFree, Forget, SendOk, SendRaises
<1>1. ASSUME Listen PROVE IInv'
  BY <1>1 DEF Listen
<1>2. ASSUME PortBusy PROVE IInv'
  BY <1>2 DEF PortBusy
<1>3. ASSUME NEW c \in Conn, OnValidate(c) PROVE IInv'
  BY <1>3 DEF OnValidate
<1>4. ASSUME NEW c \in Conn, OnFail(c) PROVE IInv'
  BY <1>4 DEF OnFail
<1>5. ASSUME NEW c \in Conn, OnOpen(c) PROVE IInv'
  <2>1. connections' \subseteq Conn
    BY <1>5 DEF OnOpen
  <2>2. CASE SetNumOfConnections
    BY <1>5, <2>1, <2>2, NumConnSet DEF OnOpen
  <2>3. CASE ~SetNumOfConnections
    BY <1>5, <2>3 DEF OnOpen
  <2> QED
    BY <1>5, <2>2, <2>3 DEF OnOpen
<1>6. ASSUME NEW c \in Conn, PeerCloses(c) PROVE IInv'
  BY <1>6 DEF PeerCloses
<1>7. ASSUME NEW c \in Conn, OnClose(c) PROVE IInv'
  <2>1. connections' \subseteq Conn
    BY <1>7 DEF OnClose
  <2>2. numConn' \in Nat /\ (numConn' = 0 <=> connections' = {})
    BY <1>7, <2>1, NumConnSet DEF OnClose
  <2> QED
    BY <1>7, <2>2 DEF OnClose
<1>8. ASSUME NEW c \in Conn, OnMessageSync(c) PROVE IInv'
  BY <1>8 DEF OnMessageSync
<1>9. ASSUME NEW c \in Conn, OnMessageRaises(c) PROVE IInv'
  BY <1>9 DEF OnMessageRaises
<1>10. ASSUME NEW c \in Conn, NEW ids \in SUBSET Id, NEW errs \in 0..MaxErr,
             OnMessageAsync(c, ids, errs)
      PROVE  IInv'
  BY <1>10 DEF OnMessageAsync
<1>11. ASSUME AddActive PROVE IInv'
  \* asioConn is registered and no scan runs, so delActive is empty.
  BY <1>11 DEF AddActive
<1>12. ASSUME Notify PROVE IInv'
  BY <1>12 DEF Notify
<1>13. ASSUME SendGroupError PROVE IInv'
  BY <1>13 DEF SendGroupError
<1>14. ASSUME DropActive PROVE IInv'
  BY <1>14 DEF DropActive
<1>15. ASSUME EvalWait PROVE IInv'
  BY <1>15 DEF EvalWait
<1>16. ASSUME Block PROVE IInv'
  BY <1>16 DEF Block
<1>17. ASSUME PollLoop PROVE IInv'
  BY <1>17 DEF PollLoop
<1>18. ASSUME LeaveConn PROVE IInv'
  BY <1>18 DEF LeaveConn
<1>19. ASSUME EndScan PROVE IInv'
  BY <1>19 DEF EndScan
<1>20. ASSUME NEW c \in Conn, VisitConn(c) PROVE IInv'
  BY <1>20 DEF VisitConn
<1>21. ASSUME NEW i \in Id, CheckRequest(i) PROVE IInv'
  \* On an open socket i was not answered before; a failed send closes the socket.
  BY <1>21 DEF CheckRequest
<1>22. ASSUME SpuriousWakeup PROVE IInv'
  BY <1>22 DEF SpuriousWakeup
<1>23. ASSUME NEW i \in Id, ReplyArrives(i) PROVE IInv'
  BY <1>23 DEF ReplyArrives
<1>24. ASSUME NEW F \in SUBSET Conn, SendAll(F) PROVE IInv'
  BY <1>24 DEF SendAll
<1>25. ASSUME NEW F \in SUBSET Conn, EventSend(F) PROVE IInv'
  BY <1>25 DEF EventSend
<1>26. ASSUME EventClose PROVE IInv'
  BY <1>26 DEF EventClose
<1>27. ASSUME StopSetExit PROVE IInv'
  BY <1>27 DEF StopSetExit
<1>28. ASSUME StopNotify PROVE IInv'
  BY <1>28 DEF StopNotify
<1>29. ASSUME StopServer PROVE IInv'
  BY <1>29 DEF StopServer
<1>30. ASSUME StopJoin PROVE IInv'
  BY <1>30 DEF StopJoin
<1>31. ASSUME UNCHANGED vars PROVE IInv'
  BY <1>31 DEF vars
<1> QED
  BY <1>1, <1>2, <1>3, <1>4, <1>5, <1>6, <1>7, <1>8, <1>9, <1>10, <1>11, <1>12,
     <1>13, <1>14, <1>15, <1>16, <1>17, <1>18, <1>19, <1>20, <1>21, <1>22, <1>23,
     <1>24, <1>25, <1>26, <1>27, <1>28, <1>29, <1>30, <1>31
  DEF Next, AsioStep, ActStep, StopStep

\* The invariant holds in every reachable state of WSThread.
THEOREM InvariantHolds == Spec => []IInv
BY InitInv, NextInv, PTL DEF Spec

\* All variables of WSThread and the locals of its threads keep their types.
THEOREM TypeCorrect == Spec => []TypeOK
<1>1. IInv => TypeOK
  BY DEF IInv
<1> QED
  BY <1>1, InvariantHolds, PTL

\* m_connections[hdl] never inserts a null ConnectionData: on_message, addActive and
\* _checkRequests only look up registered handles.
THEOREM LookupsAreSafe == Spec => []Registered
<1>1. IInv => Registered
  BY DEF IInv
<1> QED
  BY <1>1, InvariantHolds, PTL

\* Requests of an open connection are always watched by actTh.
THEOREM NoRequestForgotten == Spec => []PendingWatched
<1>1. IInv => PendingWatched
  BY DEF IInv
<1> QED
  BY <1>1, InvariantHolds, PTL

\* _checkRequests never answers a request twice, although it can forget its _del list.
THEOREM NoSecondAnswer == Spec => []AnsweredOnce
<1>1. IInv => AnsweredOnce
  BY DEF IInv
<1> QED
  BY <1>1, InvariantHolds, PTL

\* _numOfConnections is 0 when nobody is connected and positive while a socket is open.
THEOREM ConnectionCountUsable == Spec => []NumConnUsable
<1>1. IInv => NumConnUsable
  BY DEF IInv
<1> QED
  BY <1>1, InvariantHolds, PTL

\* The server-mode build never has events to send outside the lock: what is checked of
\* ServerSpec holds of every behaviour of WSThread in that build.
THEOREM ServerBuild == ~ClientMode /\ FairSpec => ServerSpec
<1> DEFINE NoEvents == ~ClientMode /\ evFailed = {}
<1>1. ~ClientMode /\ Init => NoEvents
  BY DEF Init
<1>2. NoEvents /\ [Next]_vars => [ServerNext]_vars
  BY DEF Next, ServerNext, EventSend, EventClose
<1>3. NoEvents /\ [ServerNext]_vars => NoEvents'
  <2> SUFFICES ASSUME NoEvents, [ServerNext]_vars PROVE evFailed' = evFailed
    OBVIOUS
  <2>1. CASE Listen \/ PortBusy \/ SpuriousWakeup
    BY <2>1 DEF Listen, PortBusy, SpuriousWakeup
  <2>2. CASE AsioStep
    BY <2>2 DEF AsioStep, OnValidate, OnFail, OnOpen, PeerCloses, OnClose, OnMessageSync,
                OnMessageRaises, OnMessageAsync, AddActive, Notify, SendGroupError, DropActive
  <2>3. CASE ActStep
    BY <2>3 DEF ActStep, EvalWait, Block, PollLoop, LeaveConn, EndScan, VisitConn, CheckRequest
  <2>4. CASE \E i \in Id : ReplyArrives(i)
    BY <2>4 DEF ReplyArrives
  <2>5. CASE \E F \in SUBSET Conn : SendAll(F)
    BY <2>5 DEF SendAll
  <2>6. CASE StopStep
    BY <2>6 DEF StopStep, StopSetExit, StopNotify, StopServer, StopJoin
  <2>7. CASE UNCHANGED vars
    BY <2>7 DEF vars
  <2> QED
    BY <2>1, <2>2, <2>3, <2>4, <2>5, <2>6, <2>7 DEF ServerNext
<1> HIDE DEF NoEvents
<1> QED
  BY <1>1, <1>2, <1>3, PTL DEF FairSpec, ServerSpec, Spec

-------------------------------------------------------------------------------
(* WSThread implements Requests *)

\* What the clients can tell apart.
viewVars == <<sock, tasks, delivered, asioConn, asioIds>>

\* The rest of the state is invisible.
LEMMA Stutter == UNCHANGED viewVars => UNCHANGED Abstract!vars
BY DEF viewVars, Abstract!vars, OpenConns, Owed, Answered, Held

LEMMA InitMap == Init => Abstract!Init
BY DEF Init, Abstract!Init, OpenConns, Owed, Answered, Held

\* Closing sockets, and nothing else, closes the connections of the clients.
LEMMA CloseMap ==
    ASSUME TypeOK, NEW S \in SUBSET Conn,
           sock' = [c \in Conn |-> IF c \in S THEN "closing" ELSE sock[c]],
           UNCHANGED <<tasks, delivered, asioIds>>,
           asioIds = {} \/ UNCHANGED asioConn
    PROVE  Abstract!Close(S \cap OpenConns)
<1> USE DEF TypeOK, OpenConns, Held
<1>1. OpenConns' = OpenConns \ (S \cap OpenConns)
  OBVIOUS
<1>2. Owed' = [c \in Conn |-> IF c \in S \cap OpenConns THEN {} ELSE Owed[c]]
  BY DEF Owed
<1>3. Answered' = [c \in Conn |-> IF c \in S \cap OpenConns THEN {} ELSE Answered[c]]
  BY DEF Answered
<1> QED
  BY <1>1, <1>2, <1>3 DEF Abstract!Close

\* A send that raises closes at most the connection it is for.
LEMMA RaiseMap ==
    ASSUME TypeOK, NEW c \in Conn, SendRaises(c),
           UNCHANGED <<tasks, delivered, asioIds>>,
           asioIds = {} \/ UNCHANGED asioConn
    PROVE  Abstract!Next
<1>1. sock' = [d \in Conn |-> IF d \in {c} THEN "closing" ELSE sock[d]]
  BY DEF SendRaises, TypeOK
<1>2. Abstract!Close({c} \cap OpenConns)
  BY <1>1, CloseMap
<1>3. {c} \cap OpenConns \in SUBSET Conn
  OBVIOUS
<1> QED
  BY <1>2, <1>3 DEF Abstract!Next, Abstract!Close

\* on_open: the abstract connection is opened, or the failed check changes nothing.
LEMMA OnOpenMap ==
    ASSUME IInv, NEW c \in Conn, OnOpen(c)
    PROVE  Abstract!Next \/ UNCHANGED Abstract!vars
<1> USE DEF IInv, TypeOK, SockInTable, OneOwner, OnOpen, repVars, asioVars
<1>1. CASE sock' = [sock EXCEPT ![c] = "open"]
  <2>1. asioIds = {}
    BY DEF AsioReady, AsioLocals
  <2>2. tasks' = tasks
    OBVIOUS
  <2>3. c \notin OpenConns /\ OpenConns' = OpenConns \cup {c}
    BY <1>1 DEF OpenConns
  <2>4. Owed' = Owed /\ Answered' = Answered
    BY <1>1, <2>1, <2>2 DEF Owed, Answered, Held
  <2> QED
    BY <2>3, <2>4 DEF Abstract!Next, Abstract!Connect
<1>2. CASE sock' = [sock EXCEPT ![c] = "closing"]
  <2>1. asioIds = {}
    BY DEF AsioReady, AsioLocals
  <2>2. OpenConns' = OpenConns /\ Owed' = Owed /\ Answered' = Answered
    BY <1>2, <2>1 DEF OpenConns, Owed, Answered, Held
  <2> QED
    BY <2>2 DEF Abstract!vars
<1> QED
  BY <1>1, <1>2

\* on_close: the socket was not open any more.
LEMMA OnCloseMap ==
    ASSUME IInv, NEW c \in Conn, OnClose(c)
    PROVE  UNCHANGED Abstract!vars
<1>1. asioIds = {} /\ UNCHANGED <<asioConn, asioIds>>
  BY DEF OnClose, IInv, AsioReady, AsioLocals, asioVars
<1>2. OpenConns' = OpenConns
  BY DEF OnClose, IInv, TypeOK, OpenConns
<1>3. \A d \in Conn : Held(d)' = Held(d)
  BY <1>1 DEF OnClose, IInv, TypeOK, Held
<1>4. \A d \in Conn : \A i \in Held(d) : i \in Id /\ i \notin tasks[c]
  BY <1>1 DEF OnClose, IInv, TypeOK, OneOwner, Held
<1>5. \A d \in Conn : \A i \in Held(d) : delivered'[i] = delivered[i]
  BY <1>4 DEF OnClose, Forget
<1>6. Owed' = Owed /\ Answered' = Answered
  BY <1>3, <1>5 DEF Owed, Answered
<1> QED
  BY <1>2, <1>6 DEF Abstract!vars

\* sendRequestAsync: the new ids are fresh for every connection.
LEMMA AcceptMap ==
    ASSUME IInv, NEW c \in Conn, NEW ids \in SUBSET Id, NEW errs \in 0..MaxErr,
           OnMessageAsync(c, ids, errs)
    PROVE  Abstract!Accept(c, ids)
<1> USE DEF IInv, TypeOK, OneOwner, OnMessageAsync, netVars, tblVars
<1>1. asioIds = {}
  BY DEF AsioReady, AsioLocals
<1>2. \A i \in ids : delivered[i] = 0
  OBVIOUS
<1>3. \A d \in Conn : Held(d) \cap ids = {}
  BY <1>1 DEF Held
<1>4. \A d \in Conn : Held(d)' = IF d = c THEN Held(d) \cup ids ELSE Held(d)
  BY <1>1 DEF Held
<1>5. \A d \in Conn : (Owed[d] \cup Answered[d]) \cap ids = {}
  BY <1>3 DEF Owed, Answered
<1>6. Owed' = [Owed EXCEPT ![c] = @ \cup ids]
  <2>1. \A d \in Conn : Owed'[d] = IF d = c THEN Owed[d] \cup ids ELSE Owed[d]
    BY <1>2, <1>4 DEF Owed
  <2> QED
    BY <2>1 DEF Owed
<1>7. Answered' = Answered
  BY <1>2, <1>4 DEF Answered
<1> QED
  BY <1>5, <1>6, <1>7 DEF Abstract!Accept, OpenConns

\* addActive moves the requests from forIdInfo to idCommandInfo.
LEMMA AddActiveMap ==
    ASSUME IInv, AddActive
    PROVE  UNCHANGED Abstract!vars
<1>1. \A d \in Conn : Held(d)' = Held(d)
  BY DEF IInv, TypeOK, Registered, AddActive, Held, netVars, repVars
<1> QED
  BY <1>1 DEF Abstract!vars, OpenConns, Owed, Answered, AddActive, IInv, Registered,
     netVars, repVars

\* _checkRequests: an answer on an open socket pays a debt.
LEMMA AnswerMap ==
    ASSUME IInv, NEW i \in Id, CheckRequest(i)
    PROVE  Abstract!Next \/ UNCHANGED Abstract!vars
<1> USE DEF IInv, TypeOK, asioVars, tblVars
<1>1. /\ scanConn \in Conn
      /\ i \in tasks[scanConn]
      /\ i \notin sentIds
      /\ UNCHANGED <<tasks, asioConn, asioIds>>
  BY DEF CheckRequest, ScanLocals
<1>2. CASE reply[i] = "pending" /\ UNCHANGED <<sock, delivered>>
  BY <1>1, <1>2, Stutter DEF viewVars
<1>3. CASE SendOk(scanConn) /\ delivered' = [delivered EXCEPT ![i] = IF @ = 0 THEN 1 ELSE 2]
  <2>1. delivered[i] = 0 /\ delivered' = [delivered EXCEPT ![i] = 1]
    BY <1>1, <1>3 DEF AnsweredLeaves, SendOk
  <2>2. \A d \in Conn : Held(d)' = Held(d)
    BY <1>1, <1>3 DEF Held, SendOk
  <2>3. i \in Held(scanConn)
    BY <1>1, <1>3 DEF Held, SendOk
  <2>4. \A d \in Conn : d # scanConn => i \notin Held(d)
    BY <1>1 DEF Held, OneOwner
  <2>5. \A d \in Conn : \A j \in Held(d) : delivered'[j] = IF j = i THEN 1 ELSE delivered[j]
    BY <2>1 DEF Held
  <2>6. \A d \in Conn : /\ Owed'[d] = IF d = scanConn THEN Owed[d] \ {i} ELSE Owed[d]
                       /\ Answered'[d] = IF d = scanConn THEN Answered[d] \cup {i} ELSE Answered[d]
    <3> SUFFICES ASSUME NEW d \in Conn
                 PROVE  /\ Owed'[d] = IF d = scanConn THEN Owed[d] \ {i} ELSE Owed[d]
                        /\ Answered'[d] = IF d = scanConn THEN Answered[d] \cup {i} ELSE Answered[d]
      OBVIOUS
    <3>1. Owed'[d] = {j \in Held(d) : j # i /\ delivered[j] = 0}
      BY <2>2, <2>5 DEF Owed
    <3>2. Answered'[d] = {j \in Held(d) : j = i \/ delivered[j] # 0}
      BY <2>2, <2>5 DEF Answered
    <3> QED
      BY <2>3, <2>4, <3>1, <3>2 DEF Owed, Answered
  <2>7. Owed' = [Owed EXCEPT ![scanConn] = @ \ {i}]
    BY <2>6 DEF Owed
  <2>8. Answered' = [Answered EXCEPT ![scanConn] = @ \cup {i}]
    BY <2>6 DEF Answered
  <2>9. i \in Owed[scanConn]
    BY <1>1, <2>1, <2>3 DEF Owed
  <2>10. scanConn \in OpenConns /\ OpenConns' = OpenConns
    BY <1>1, <1>3 DEF OpenConns, SendOk
  <2>11. Abstract!Answer(scanConn, i)
    BY <2>7, <2>8, <2>9, <2>10 DEF Abstract!Answer
  <2> QED
    BY <1>1, <2>11 DEF Abstract!Next
<1>4. CASE SendRaises(scanConn) /\ UNCHANGED delivered
  BY <1>1, <1>4, RaiseMap
<1> QED
  BY <1>2, <1>3, <1>4 DEF CheckRequest, repVars

\* _checkRequests erases only requests it has answered.
LEMMA RetireMap ==
    ASSUME IInv, LeaveConn
    PROVE  Abstract!Next \/ UNCHANGED Abstract!vars
<1> USE DEF IInv, TypeOK
<1>1. /\ scanConn \in Conn
      /\ sentIds \in SUBSET Id
      /\ sentIds \subseteq tasks[scanConn]
      /\ tasks' = [tasks EXCEPT ![scanConn] = @ \ sentIds]
      /\ UNCHANGED <<sock, asioConn, asioIds>>
      /\ \A i \in Id \ sentIds : delivered'[i] = delivered[i]
  BY DEF LeaveConn, ScanLocals, Forget, asioVars, netVars
<1>2. \A i \in sentIds : delivered[i] # 0
  BY DEF LeaveConn, SentDelivered
<1>3. sentIds \cap asioIds = {}
  BY <1>1 DEF OneOwner
<1>4. \A d \in Conn : d # scanConn => Held(d) \cap sentIds = {}
  BY <1>1, <1>3 DEF Held, OneOwner
<1>5. \A d \in Conn : Held(d)' = IF d = scanConn THEN Held(d) \ sentIds ELSE Held(d)
  BY <1>1, <1>3 DEF Held
<1>6. \A d \in Conn : Held(d) \subseteq Id
  BY DEF Held
<1>7. \A d \in Conn : Owed'[d] = Owed[d]
  BY <1>1, <1>2, <1>4, <1>5, <1>6 DEF Owed
<1>8. \A d \in Conn : Answered'[d] = IF d = scanConn THEN Answered[d] \ sentIds ELSE Answered[d]
  BY <1>1, <1>4, <1>5, <1>6 DEF Answered
<1>9. Owed' = Owed /\ Answered' = [Answered EXCEPT ![scanConn] = @ \ sentIds]
  BY <1>7, <1>8 DEF Owed, Answered
<1>10. OpenConns' = OpenConns
  BY <1>1 DEF OpenConns
<1>11. CASE sock[scanConn] = "open"
  <2>1. sentIds \subseteq Answered[scanConn]
    BY <1>1, <1>2, <1>11 DEF Answered, Held
  <2>2. Abstract!Retire(scanConn, sentIds)
    BY <1>9, <1>10, <2>1 DEF Abstract!Retire
  <2> QED
    BY <1>1, <2>2 DEF Abstract!Next
<1>12. CASE sock[scanConn] # "open"
  <2>1. Answered[scanConn] = {}
    BY <1>1, <1>12 DEF Answered, Held
  <2>2. Answered' = Answered
    BY <1>1, <1>9, <2>1 DEF Answered
  <2> QED
    BY <1>9, <1>10, <2>2 DEF Abstract!vars
<1> QED
  BY <1>11, <1>12

\* Every step of WSThread is a step of Requests or invisible.
LEMMA StepMap == IInv /\ [Next]_vars => [Abstract!Next]_Abstract!vars
<1> SUFFICES ASSUME IInv, [Next]_vars PROVE Abstract!Next \/ UNCHANGED Abstract!vars
  OBVIOUS
<1> USE DEF netVars, tblVars, repVars, asioVars, viewVars
<1>1. ASSUME Listen \/ PortBusy \/ UNCHANGED vars PROVE UNCHANGED viewVars
  BY <1>1 DEF Listen, PortBusy, vars
<1>2. ASSUME NEW c \in Conn, OnValidate(c) \/ OnFail(c)
      PROVE  UNCHANGED Abstract!vars
  BY <1>2 DEF OnValidate, OnFail, IInv, TypeOK, Abstract!vars, OpenConns, Owed, Answered, Held
<1>3. ASSUME NEW c \in Conn, PeerCloses(c) PROVE Abstract!Next
  <2>1. SendRaises(c)
    BY <1>3 DEF PeerCloses, SendRaises
  <2> QED
    BY <1>3, <2>1, RaiseMap DEF PeerCloses, IInv
<1>4. ASSUME NEW c \in Conn, OnMessageSync(c)
      PROVE  Abstract!Next \/ UNCHANGED Abstract!vars
  <2>1. asioIds = {} /\ UNCHANGED <<tasks, delivered, asioIds>>
    BY <1>4 DEF OnMessageSync, IInv, AsioReady, AsioLocals
  <2>2. CASE SendOk(c) /\ UNCHANGED asioVars
    BY <2>1, <2>2, Stutter DEF SendOk
  <2>3. CASE SendRaises(c)
    BY <2>1, <2>3, RaiseMap DEF IInv
  <2> QED
    BY <1>4, <2>2, <2>3 DEF OnMessageSync
<1>5. ASSUME NEW c \in Conn, OnMessageRaises(c) PROVE UNCHANGED viewVars
  BY <1>5 DEF OnMessageRaises
<1>6. ASSUME NEW c \in Conn, NEW ids \in SUBSET Id, NEW errs \in 0..MaxErr,
             OnMessageAsync(c, ids, errs)
      PROVE  Abstract!Next
  BY <1>6, AcceptMap DEF Abstract!Next
<1>7. ASSUME SendGroupError PROVE Abstract!Next \/ UNCHANGED Abstract!vars
  <2>1. asioConn \in Conn /\ UNCHANGED <<tasks, delivered, asioConn, asioIds>>
    BY <1>7 DEF SendGroupError, IInv, TypeOK, Registered
  <2>2. CASE SendOk(asioConn)
    BY <2>1, <2>2, Stutter DEF SendOk
  <2>3. CASE SendRaises(asioConn)
    BY <2>1, <2>3, RaiseMap DEF IInv
  <2> QED
    BY <1>7, <2>2, <2>3 DEF SendGroupError
<1>8. ASSUME Notify \/ DropActive PROVE UNCHANGED viewVars
  BY <1>8 DEF Notify, DropActive
<1>9. ASSUME EvalWait \/ Block \/ SpuriousWakeup \/ PollLoop \/ EndScan
      PROVE  UNCHANGED viewVars
  BY <1>9 DEF EvalWait, Block, SpuriousWakeup, PollLoop, EndScan
<1>10. ASSUME NEW c \in Conn, VisitConn(c) PROVE UNCHANGED viewVars
  BY <1>10 DEF VisitConn
<1>11. ASSUME NEW i \in Id, ReplyArrives(i) PROVE UNCHANGED viewVars
  BY <1>11 DEF ReplyArrives
<1>12. ASSUME NEW F \in SUBSET Conn, SendAll(F) PROVE Abstract!Next
  <2>1. Abstract!Close(F \cap OpenConns)
    BY <1>12, CloseMap DEF SendAll, IInv
  <2> QED
    BY <2>1, F \cap OpenConns \in SUBSET Conn DEF Abstract!Next, Abstract!Close
<1>13. ASSUME NEW F \in SUBSET Conn, EventSend(F) PROVE Abstract!Next
  <2>1. Abstract!Close(F \cap OpenConns)
    BY <1>13, CloseMap DEF EventSend, IInv
  <2> QED
    BY <2>1, F \cap OpenConns \in SUBSET Conn DEF Abstract!Next, Abstract!Close
<1>14. ASSUME EventClose PROVE UNCHANGED viewVars
  BY <1>14 DEF EventClose
<1>15. ASSUME StopStep PROVE UNCHANGED viewVars
  BY <1>15 DEF StopStep, StopSetExit, StopNotify, StopServer, StopJoin
<1> QED
  BY <1>1, <1>2, <1>3, <1>4, <1>5, <1>6, <1>7, <1>8, <1>9, <1>10, <1>11, <1>12, <1>13, <1>14,
     <1>15,      Stutter, OnOpenMap, OnCloseMap, AddActiveMap, AnswerMap, RetireMap
  DEF Next, AsioStep, ActStep

\* WSThread implements Requests: threads, locks, failed sends and broadcasts never lose
\* or misdirect an answer.
THEOREM Implements == Spec => ImplementsRequests
BY InvariantHolds, InitMap, StepMap, PTL DEF Spec, ImplementsRequests, Abstract!Spec

-------------------------------------------------------------------------------
(* WSTangoConnCli *)

\* The proxies of the requests an open connection waits for are alive, except for those
\* of the answers the scan has just sent, whose TaskInfos it is about to erase.
ProxyInv ==
    /\ proxy \in [Id -> {"none", "live", "deleted"}]
    /\ \A i \in asioIds : proxy[i] # "deleted"
    /\ OpenTasksLive

\* Every step of the client-mode gateway is one of WSThread.
LEMMA CliRefines == [CliNext]_cliVars => [Next]_vars
BY DEF CliNext, cliVars, Other, SendRequestAsync, CloseTasks, AddTasks, CheckResponse,
       EraseTasks, Next, AsioStep, ActStep

\* A gateway without requests has no proxies.
LEMMA CliInit == Init /\ ProxyInit => ProxyInv
BY DEF Init, ProxyInit, ProxyInv, OpenTasksLive

\* The steps that leave the proxies alone open no connection that waits for one, and
\* forget no answer of one that stays open.
LEMMA OtherProxies == IInv /\ ProxyInv /\ Other /\ UNCHANGED proxy => ProxyInv'
<1> SUFFICES ASSUME IInv, ProxyInv, Other, UNCHANGED proxy PROVE ProxyInv'
  OBVIOUS
<1> USE DEF IInv, TypeOK, AsioLocals, ScanLocals, OneOwner, SockInTable, ProxyInv, OpenTasksLive,
            netVars, tblVars, repVars, asioVars, scanVars, stopVars, SendOk, SendRaises
<1>1. CASE Listen \/ PortBusy
  BY <1>1 DEF Listen, PortBusy
<1>2. ASSUME NEW c \in Conn, OnValidate(c) \/ OnFail(c) \/ OnOpen(c) PROVE ProxyInv'
  BY <1>2 DEF OnValidate, OnFail, OnOpen
<1>3. ASSUME NEW c \in Conn, PeerCloses(c) \/ VisitConn(c) PROVE ProxyInv'
  BY <1>3 DEF PeerCloses, VisitConn
<1>4. ASSUME NEW c \in Conn, OnMessageSync(c) \/ OnMessageRaises(c) PROVE ProxyInv'
  BY <1>4 DEF OnMessageSync, OnMessageRaises
<1>5. CASE Notify \/ SendGroupError \/ DropActive
  BY <1>5 DEF Notify, SendGroupError, DropActive
<1>6. CASE EvalWait \/ Block \/ PollLoop \/ EndScan \/ SpuriousWakeup
  BY <1>6 DEF EvalWait, Block, PollLoop, EndScan, SpuriousWakeup
<1>7. ASSUME NEW i \in Id, ReplyArrives(i) PROVE ProxyInv'
  BY <1>7 DEF ReplyArrives
<1>8. ASSUME NEW F \in SUBSET Conn, EventSend(F) PROVE ProxyInv'
  BY <1>8 DEF EventSend
<1>9. CASE EventClose
  BY <1>9 DEF EventClose
<1> QED
  BY <1>1, <1>2, <1>3, <1>4, <1>5, <1>6, <1>7, <1>8, <1>9 DEF Other

\* Neither do the steps that make, delete and drop proxies.
LEMMA CliStep == IInv /\ ProxyInv /\ [CliNext]_cliVars => ProxyInv'
<1> SUFFICES ASSUME IInv, ProxyInv, [CliNext]_cliVars PROVE ProxyInv'
  OBVIOUS
<1> USE DEF IInv, TypeOK, AsioLocals, ScanLocals, OneOwner, ProxyInv, OpenTasksLive, Drop,
            netVars, tblVars, repVars, asioVars, scanVars, stopVars, SendOk, SendRaises
<1>1. ASSUME NEW c \in Conn, NEW ids \in SUBSET Id, NEW errs \in 0..MaxErr,
             SendRequestAsync(c, ids, errs)
      PROVE  ProxyInv'
  \* The new ids are in nobody's tasks: their last reply was forgotten.
  BY <1>1 DEF SendRequestAsync, OnMessageAsync, AsioReady
<1>2. ASSUME NEW c \in Conn, CloseTasks(c) PROVE ProxyInv'
  BY <1>2 DEF CloseTasks, OnClose, AsioReady
<1>3. CASE AddTasks
  BY <1>3 DEF AddTasks, AddActive
<1>4. ASSUME NEW i \in Id, CheckResponse(i) PROVE ProxyInv'
  <2>1. scanConn \in Conn /\ i \in tasks[scanConn] /\ tasks' = tasks /\ asioIds' = asioIds
    BY <1>4 DEF CheckResponse, CheckRequest
  <2>2. i \notin asioIds /\ \A c \in Conn : i \in tasks[c] => c = scanConn
    BY <2>1
  <2> QED
    BY <1>4, <2>1, <2>2 DEF CheckResponse, CheckRequest
<1>5. CASE EraseTasks
  BY <1>5 DEF EraseTasks, LeaveConn
<1>6. CASE UNCHANGED cliVars
  BY <1>6 DEF cliVars, vars
<1> QED
  BY <1>1, <1>2, <1>3, <1>4, <1>5, <1>6, OtherProxies DEF CliNext

\* The invariants of WSThread hold in client mode with its proxies, and a request that
\* actTh will ask about for an open connection has a proxy that can be asked.
THEOREM ProxiesUsable == CliSpec => []OpenTasksLive
<1>1. Init /\ ProxyInit => IInv /\ ProxyInv
  BY InitInv, CliInit
<1>2. (IInv /\ ProxyInv) /\ [CliNext]_cliVars => (IInv /\ ProxyInv)'
  BY NextInv, CliRefines, CliStep
<1>3. IInv /\ ProxyInv => OpenTasksLive
  BY DEF ProxyInv
<1> QED
  BY <1>1, <1>2, <1>3, PTL DEF CliSpec

===============================================================================
