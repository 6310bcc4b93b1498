------------------------- MODULE WSTangoConnSerProofs -------------------------
(***************************************************************************)
(* Proofs about WSTangoConnSer, for any number of clients, plain and TLS,  *)
(* whatever the device is configured with: one event subscription, exactly *)
(* while clients are counted, and an exception flag that says what they    *)
(* were told.                                                              *)
(***************************************************************************)
EXTENDS WSTangoConnSer, FiniteSetTheorems, TLAPS

DevSteps == InitSteps \cup DelSteps \cup {"idle", "notifyUpd"}
AsioSteps == {"idle", "test", "subscribe", "selfWait", "assign", "delete", "reset"}

TypeOK ==
    /\ state \in {"unknown", "on", "fault"}
    /\ devPc \in DevSteps
    /\ gateway \in BOOLEAN /\ reinit \in BOOLEAN /\ tls \in BOOLEAN /\ connStatus \in BOOLEAN
    /\ initDs \in BOOLEAN /\ hasEvents \in BOOLEAN /\ hadEvents \in BOOLEAN
    /\ server \in {"none", "starting", "running", "stopping", "failing", "ended"}
    /\ clients \subseteq Client
    /\ numConn \in Nat
    /\ asioPc \in AsioSteps
    /\ eventSubscr \in {"null", "live", "freed"}
    /\ subs \in Nat
    /\ updPc \in {"none", "eval", "window", "blocked", "test", "send", "clear", "done"}
    /\ doUpdate \in BOOLEAN /\ exit \in BOOLEAN /\ lostWakeup \in BOOLEAN
    /\ evPc \in {"idle", "send"}
    /\ evErr \in BOOLEAN /\ wasException \in BOOLEAN /\ crashed \in BOOLEAN
    /\ shown \in {"unsure", "value", "error"}

\* No destructor runs.
Settled == devPc \notin DelSteps

\* Nothing is left of a gateway.
Nobody ==
    /\ server = "none" /\ clients = {} /\ asioPc = "idle"
    /\ eventSubscr = "null" /\ subs = 0 /\ evPc = "idle"

\* A gateway is built on nothing, and its server is started before anything else.
Gateways ==
    /\ ~gateway => devPc \in {"construct", "idle"} /\ Nobody
    /\ devPc = "construct" => ~gateway
    /\ devPc = "start" => Nobody
    /\ devPc = "deleteDevice" => server = "none" /\ clients = {} /\ asioPc = "idle"

\* Handlers, subscriptions and events have a server, but for what DeleteDevice ends.
HaveServer ==
    asioPc # "idle" \/ subs > 0 \/ evPc = "send" => server # "none" \/ devPc = "deleteDevice"

\* An on_open that returns early can make _numOfConnections too small, not positive.
Counted == gateway /\ devPc # "deleteDevice" /\ numConn > 0 => clients # {}

\* The configuration is read once, and nobody subscribes before.
Configured ==
    /\ devPc \in {"start", "startUpd", "readList"} => ~hasEvents
    /\ hadEvents => hasEvents
    /\ ~hadEvents => eventSubscr = "null" /\ asioPc \in {"idle", "test"}

\* Between its test and its effect, what setNumOfConnections saw stays true, unless the
\* destructor runs; only the asio thread makes a subscription.
Effects ==
    /\ asioPc \in {"subscribe", "selfWait", "assign"} => eventSubscr = "null"
    /\ eventSubscr = "live" \/ asioPc = "assign" => subs > 0
    /\ Settled =>
        /\ asioPc \in {"subscribe", "selfWait", "assign"} => numConn > 0 /\ clients # {}
        /\ asioPc = "delete" => eventSubscr = "live" /\ numConn = 0
        /\ asioPc = "reset" <=> eventSubscr = "freed"
        /\ asioPc = "reset" => numConn = 0
        /\ subs = IF eventSubscr = "live" \/ asioPc = "assign" THEN 1 ELSE 0

\* What can crash the gateway.
Crashes == crashed => ~Settled \/ (~initDs /\ asioPc = "subscribe")

\* The flag of the callback, also while it has the next event.
Told == shown # "unsure" => (wasException <=> shown = "error")

\* Only TLS waits for itself.
TlsWaits == asioPc = "selfWait" => tls

\* The inductive invariant.
IInv ==
    /\ TypeOK
    /\ Gateways
    /\ HaveServer
    /\ Counted
    /\ Configured
    /\ Effects
    /\ Crashes
    /\ Told
    /\ TlsWaits
    /\ SubscribedWhileConnected

-------------------------------------------------------------------------------

LEMMA InitInv == Init => IInv
<1> SUFFICES ASSUME Init PROVE IInv
  OBVIOUS
<1> USE DEF Init
<1>1. TypeOK
  BY DEF TypeOK, DevSteps, InitSteps, DelSteps, AsioSteps
<1>2. Gateways /\ HaveServer /\ Counted /\ Configured
  BY DEF Gateways, Nobody, HaveServer, Counted, Configured
<1>3. Effects /\ Crashes /\ Told /\ TlsWaits /\ SubscribedWhileConnected
  BY DEF Effects, Settled, Crashes, Told, TlsWaits, SubscribedWhileConnected, DelSteps
<1> QED
  BY <1>1, <1>2, <1>3 DEF IInv

\* _numOfConnections after a change of the table.
LEMMA CountClients ==
    ASSUME NEW S \in SUBSET Client
    PROVE  Cardinality(S) \in Nat /\ (Cardinality(S) > 0 => S # {})
<1>1. IsFiniteSet(S)
  BY FS_Subset, ConstantsAssumption
<1> QED
  BY <1>1, FS_CardinalityType, FS_EmptySet

LEMMA NextInv == IInv /\ [Next]_vars => IInv'
<1> SUFFICES ASSUME IInv, [Next]_vars PROVE IInv'
  OBVIOUS
<1> USE ConstantsAssumption
    DEF IInv, TypeOK, DevSteps, InitSteps, DelSteps, AsioSteps, Gateways, Nobody, HaveServer,
        Counted, Configured, Effects, Settled, Crashes, Told, TlsWaits, SubscribedWhileConnected,
        devVars, netVars, subVars, updVars, evVars, serVars
<1>1. CASE Construct
  <2>1. /\ tls' \in BOOLEAN /\ initDs' \in BOOLEAN /\ connStatus' \in BOOLEAN
        /\ hasEvents' \in BOOLEAN /\ hadEvents' \in BOOLEAN
        /\ doUpdate' \in BOOLEAN /\ exit' \in BOOLEAN /\ lostWakeup' \in BOOLEAN
        /\ gateway' \in BOOLEAN /\ gateway' /\ ~hasEvents' /\ ~hadEvents'
    <3>1. initDs' \in IF InitMayFail THEN BOOLEAN ELSE {TRUE}
      BY <1>1 DEF Construct
    <3>2. initDs' \in BOOLEAN
      BY <3>1, Zenon
    <3> QED
      BY <1>1, <3>2, Zenon DEF Construct
  <2> QED
    BY <1>1, <2>1 DEF Construct
<1>2. CASE StartServer
  BY <1>2 DEF StartServer
<1>3. CASE StartUpd
  BY <1>3 DEF StartUpd
<1>4. CASE ReadList
  BY <1>4 DEF ReadList
<1>5. CASE SetOn
  BY <1>5 DEF SetOn
<1>6. CASE InitCommand
  BY <1>6 DEF InitCommand
<1>7. CASE UpdateData
  <2>1. doUpdate' \in BOOLEAN /\ reinit' \in BOOLEAN
    BY <1>7, Zenon DEF UpdateData
  <2> QED
    BY <1>7, <2>1 DEF UpdateData
<1>8. CASE NotifyUpd
  BY <1>8 DEF NotifyUpd, WakeUpd
<1>9. CASE TestSubscr
  BY <1>9 DEF TestSubscr
<1>10. CASE DestroySubscr
  BY <1>10 DEF DestroySubscr, Unsubscribe
<1>11. CASE ResetSubscr
  BY <1>11 DEF ResetSubscr
<1>12. CASE SetExit
  <2>1. doUpdate' \in BOOLEAN /\ exit' \in BOOLEAN
    BY <1>12, Zenon DEF SetExit
  <2> QED
    BY <1>12, <2>1 DEF SetExit
<1>13. CASE NotifyExit
  BY <1>13 DEF NotifyExit, WakeUpd
<1>14. CASE JoinUpd
  BY <1>14 DEF JoinUpd
<1>15. CASE StopServer
  BY <1>15 DEF StopServer
<1>16. CASE JoinServer
  BY <1>16 DEF JoinServer
<1>17. CASE DeleteDevice
  <2>1. gateway' \in BOOLEAN /\ ~gateway'
    BY <1>17, Zenon DEF DeleteDevice
  <2> QED
    BY <1>17, <2>1 DEF DeleteDevice
<1>18. CASE Listen
  BY <1>18 DEF Listen
<1>19. CASE ServerFails
  BY <1>19 DEF ServerFails
<1>20. CASE ServerFailed
  <2>1. connStatus' \in BOOLEAN
    BY <1>20, Zenon DEF ServerFailed
  <2> QED
    BY <1>20, <2>1 DEF ServerFailed
<1>21. CASE ServerEnds
  BY <1>21 DEF ServerEnds
<1>22. CASE TestSubscribed
  BY <1>22 DEF TestSubscribed, ToSubscribe, ToUnsubscribe
<1>23. CASE Subscribe
  <2>1. CASE ~initDs /\ crashed' = TRUE /\ UNCHANGED <<asioPc, subs, evVars>>
    <3>1. crashed' \in BOOLEAN
      BY <2>1, Zenon
    <3>2. /\ asioPc = "subscribe"
          /\ UNCHANGED <<devVars, devPc, netVars, hadEvents, eventSubscr, updPc, updVars>>
      BY <1>23 DEF Subscribe
    <3> QED
      BY <2>1, <3>1, <3>2
  <2>2. CASE initDs /\ tls /\ asioPc' = "selfWait" /\ UNCHANGED <<subs, evVars, crashed>>
    BY <1>23, <2>2 DEF Subscribe
  <2>3. CASE initDs /\ ~tls
    BY <1>23, <2>3 DEF Subscribe
  <2> QED
    BY <1>23, <2>1, <2>2, <2>3 DEF Subscribe
<1>24. CASE AssignSubscr
  BY <1>24 DEF AssignSubscr
<1>25. CASE DeleteSubscr
  BY <1>25 DEF DeleteSubscr, Unsubscribe
<1>26. CASE ClearSubscr
  BY <1>26 DEF ClearSubscr
<1>27. CASE EvalWait
  BY <1>27 DEF EvalWait
<1>28. CASE Block
  BY <1>28 DEF Block
<1>29. CASE SpuriousWakeup
  BY <1>29 DEF SpuriousWakeup
<1>30. CASE TestClients
  BY <1>30 DEF TestClients
<1>31. CASE Broadcast
  BY <1>31 DEF Broadcast
<1>32. CASE ClearUpdate
  <2>1. doUpdate' \in BOOLEAN
    BY <1>32, Zenon DEF ClearUpdate
  <2> QED
    BY <1>32, <2>1 DEF ClearUpdate
<1>33. CASE SendEvent
  <2>1. /\ evPc = "send" /\ evPc' = "idle" /\ ~crashed
        /\ UNCHANGED <<devVars, devPc, netVars, asioPc, subVars, updPc, updVars, evErr>>
    BY <1>33 DEF SendEvent
  <2>2. CASE server = "none" /\ crashed' = TRUE /\ UNCHANGED <<wasException, shown>>
    <3>1. crashed' \in BOOLEAN
      BY <2>2, Zenon
    <3> QED
      BY <2>1, <2>2, <3>1
  <2>3. CASE server # "none" /\ wasException' = evErr /\ UNCHANGED crashed
    <3>1. /\ shown' \in {"unsure", "value", "error"}
          /\ shown' # "unsure" => (evErr <=> shown' = "error")
      BY <1>33, <2>3 DEF SendEvent
    <3>2. wasException' \in BOOLEAN /\ (wasException' <=> evErr)
      BY <2>3, Zenon
    <3> QED
      BY <2>1, <2>3, <3>1, <3>2
  <2> QED
    BY <1>33, <2>2, <2>3 DEF SendEvent
<1>34. ASSUME NEW err \in BOOLEAN, PushEvent(err) PROVE IInv'
  BY <1>34 DEF PushEvent
<1>35. ASSUME NEW c \in Client, OnOpen(c) PROVE IInv'
  <2>1. clients' \in SUBSET Client
    BY <1>35 DEF OnOpen
  <2>2. Cardinality(clients') \in Nat /\ (Cardinality(clients') > 0 => clients' # {})
    BY <2>1, CountClients
  <2> QED
    BY <1>35, <2>1, <2>2 DEF OnOpen
<1>36. ASSUME NEW c \in Client, OnClose(c) PROVE IInv'
  <2>1. clients' \in SUBSET Client
    BY <1>36 DEF OnClose
  <2>2. Cardinality(clients') \in Nat /\ (Cardinality(clients') > 0 => clients' # {})
    BY <2>1, CountClients
  <2> QED
    BY <1>36, <2>1, <2>2 DEF OnClose
<1>37. CASE UNCHANGED vars
  BY <1>37 DEF vars
<1> QED
  BY <1>1, <1>2, <1>3, <1>4, <1>5, <1>6, <1>7, <1>8, <1>9, <1>10, <1>11, <1>12, <1>13,
     <1>14, <1>15, <1>16, <1>17, <1>18, <1>19, <1>20, <1>21, <1>22, <1>23, <1>24,
     <1>25, <1>26, <1>27, <1>28, <1>29, <1>30, <1>31, <1>32, <1>33, <1>34, <1>35,
     <1>36, <1>37
  DEF Next, InitStep, DestructorStep, ServerStep, SubscrStep, UpdStep, EventStep

\* The invariant holds in every reachable state of the server-mode gateway.
THEOREM InvariantHolds == Spec => []IInv
BY InitInv, NextInv, PTL DEF Spec

\* setNumOfConnections keeps the event subscription exactly while clients are counted, even
\* where an on_open that fails leaves _numOfConnections behind.
THEOREM SubscriptionFollowsClients == Spec => []SubscribedWhileConnected
<1>1. IInv => SubscribedWhileConnected
  BY DEF IInv
<1> QED
  BY <1>1, InvariantHolds, PTL

\* eventSubscr owns the only EventProcSer, and only the destructor's race with the asio
\* thread, or a device that was not initialised, makes the gateway use a dead pointer.
THEOREM OwnedOnce == Spec => []OneOwner
<1>1. IInv => OneOwner
  BY DEF IInv, Effects, Crashes, Settled, OneOwner
<1> QED
  BY <1>1, InvariantHolds, PTL

\* _wasException is what the clients were told last, unless a message was dropped.
THEOREM FlagAsTold == Spec => []ExceptionAsTold
<1>1. IInv => ExceptionAsTold
  BY DEF IInv, Told, ExceptionAsTold
<1> QED
  BY <1>1, InvariantHolds, PTL

\* The deadlock of WSThread_plain.cpp:86 is one of WSThread_tls only: without the property
\* Secure, no message ever waits for the lock its own thread holds.
THEOREM PlainNeverSelfWaits == TRUE \notin Secure /\ Spec => []NoSelfWait
<1> DEFINE Plain == TRUE \notin Secure /\ IInv /\ ~tls
<1>1. TRUE \notin Secure /\ Init => Plain
  BY InitInv DEF Init
<1>2. Plain /\ [Next]_vars => Plain'
  <2> SUFFICES ASSUME Plain, [Next]_vars PROVE ~tls'
    BY NextInv
  <2>1. CASE Construct
    BY <2>1, ConstantsAssumption DEF Construct
  <2>2. CASE ~Construct
    <3>1. tls' = tls
      BY <2>2 DEF Next, vars, serVars, devVars, InitStep, DestructorStep, ServerStep, SubscrStep,
        UpdStep, EventStep, StartServer, StartUpd, ReadList, SetOn, InitCommand, UpdateData,
        NotifyUpd, TestSubscr, DestroySubscr, ResetSubscr, SetExit, NotifyExit, JoinUpd,
        StopServer, JoinServer, DeleteDevice, Listen, ServerFails, ServerFailed, ServerEnds,
        TestSubscribed, Subscribe, AssignSubscr, DeleteSubscr, ClearSubscr, EvalWait, Block,
        SpuriousWakeup, TestClients, Broadcast, ClearUpdate, SendEvent, PushEvent, OnOpen, OnClose
    <3> QED
      BY <3>1
  <2> QED
    BY <2>1, <2>2
<1>3. Plain => NoSelfWait
  BY DEF IInv, TlsWaits, NoSelfWait
<1> HIDE DEF Plain
<1> QED
  BY <1>1, <1>2, <1>3, PTL DEF Spec

===============================================================================
