---------------------------- MODULE WSTangoConnSer ----------------------------
(***************************************************************************)
(* The server-mode gateway: the device WebSocketDS, its WSTangoConnSer     *)
(* with the event subscription (EventProcSer) and the thread that          *)
(* broadcasts attribute values.                                            *)
(*                                                                         *)
(* These threads act on the state:                                         *)
(*   - the device thread: init_device, UpdateData, Init (delete_device);   *)
(*   - the asio thread: the port, and on_open and on_close, which hold     *)
(*     m_connection_lock and call setNumOfConnections;                     *)
(*   - updTh (updateData), which broadcasts when UpdateData asks for it;   *)
(*   - Tango's event thread, which calls push_event of the subscriptions.  *)
(* What the asio thread and actTh do besides is in module WSThread; here   *)
(* they only make the lock busy.                                           *)
(***************************************************************************)
EXTENDS Naturals, FiniteSets

CONSTANTS
    Client,       \* connection handles
    Secure,       \* values of the property Secure: TRUE chooses WSThread_tls
    HasAttrs,     \* attributes or pipes to broadcast are configured
    HasEvents,    \* event subscriptions are configured
    InitMayFail   \* whether the listened device may fail to initialise here

ASSUME ConstantsAssumption ==
    /\ IsFiniteSet(Client)
    /\ Secure \subseteq BOOLEAN
    /\ {HasAttrs, HasEvents, InitMayFail} \subseteq BOOLEAN

VARIABLES
    state,       \* Tango state of the device
    devPc,       \* where the device thread is
    gateway,     \* wsTangoConn # nullptr
    reinit,      \* the running destructor was called by Init
    tls,         \* the gateway has a WSThread_tls
    connStatus,  \* _connectionStatus
    initDs,      \* _isInitDs: deviceForWs (or groupForWs) was made
    hasEvents,   \* _hasEventSubscr
    hadEvents,   \* its value at the last setNumOfConnections (history)
    server,      \* the WSThread: "none" when there is no object
    clients,     \* keys of m_connections
    numConn,     \* _numOfConnections
    asioPc,      \* where the asio thread is in setNumOfConnections
    eventSubscr, \* the pointer: "null", "live", "freed" (deleted, not yet reset)
    subs,        \* EventProcSer objects with their Tango subscriptions
    updPc,       \* where updTh is in updateData
    doUpdate,    \* do_update
    exit,        \* local_th_exit
    evPc,        \* "send" while Tango's event thread is in push_event
    evErr,       \* dt->err of the event it has
    wasException, \* _wasException of the callback
    shown,       \* what it broadcast last, "unsure" since a message was dropped (history)
    lostWakeup,  \* the destructor has notified updTh before it waited (history)
    crashed      \* a deleted or null pointer was used

devVars  == <<state, gateway, reinit, tls, connStatus, initDs, hasEvents>>
netVars  == <<server, clients, numConn>>
subVars  == <<hadEvents, eventSubscr, subs>>
updVars  == <<doUpdate, exit, lostWakeup>>
evVars   == <<evPc, evErr, wasException, shown>>
serVars  == <<devVars, devPc, netVars, asioPc, subVars, updPc, updVars, crashed>>
vars == <<serVars, evVars>>

InitSteps == {"construct", "start", "startUpd", "readList", "setOn"}
DelSteps == {"testSubscr", "deleteSubscr", "resetSubscr", "setExit", "notifyExit",
             "joinUpd", "stopServer", "joinServer", "deleteDevice"}

Init ==
    /\ state = "unknown"
    /\ devPc = "construct"
    /\ gateway = FALSE /\ reinit = FALSE /\ tls = FALSE /\ connStatus = TRUE /\ initDs = FALSE
    /\ hasEvents = FALSE /\ hadEvents = FALSE
    /\ server = "none" /\ clients = {} /\ numConn = 0
    /\ asioPc = "idle"
    /\ eventSubscr = "null" /\ subs = 0
    /\ updPc = "none"
    /\ doUpdate = TRUE /\ exit = FALSE /\ lostWakeup = FALSE
    /\ evPc = "idle" /\ evErr = FALSE /\ wasException = FALSE /\ shown = "unsure"
    /\ crashed = FALSE

-------------------------------------------------------------------------------
(* init_device: the constructor of WSTangoConnSer, then the state ON *)

\* The members of a new object; initDeviceServer connects the listened device.
Construct ==
    /\ ~crashed /\ devPc = "construct"
    /\ gateway' = TRUE
    /\ tls' \in Secure
    /\ initDs' \in (IF InitMayFail THEN BOOLEAN ELSE {TRUE})
    /\ connStatus' = TRUE
    /\ hasEvents' = FALSE /\ hadEvents' = FALSE
    /\ numConn' = 0 /\ clients' = {}
    /\ eventSubscr' = "null"
    /\ doUpdate' = TRUE /\ exit' = FALSE /\ lostWakeup' = FALSE
    /\ devPc' = "start"
    /\ UNCHANGED <<state, reinit, server, asioPc, subs, updPc, crashed, evVars>>

\* new WSThread_plain or WSThread_tls: its thread runs from here on.
StartServer ==
    /\ ~crashed /\ devPc = "start"
    /\ server' = "starting"
    /\ devPc' = "startUpd"
    /\ UNCHANGED <<devVars, clients, numConn, asioPc, subVars, updPc, updVars, crashed, evVars>>

\* updTh exists only if there is something to broadcast (_hasAttrsForUpdate).
StartUpd ==
    /\ ~crashed /\ devPc = "startUpd"
    /\ updPc' = IF HasAttrs /\ initDs THEN "eval" ELSE "none"
    /\ devPc' = "readList"
    /\ UNCHANGED <<devVars, netVars, asioPc, subVars, updVars, crashed, evVars>>

\* _hasEventSubscr is set when clients may be there already.
ReadList ==
    /\ ~crashed /\ devPc = "readList"
    /\ hasEvents' = HasEvents
    /\ devPc' = "setOn"
    /\ UNCHANGED <<state, gateway, reinit, tls, connStatus, initDs, netVars, asioPc, subVars,
                   updPc, updVars, crashed, evVars>>

SetOn ==
    /\ ~crashed /\ devPc = "setOn"
    /\ state' = "on"
    /\ devPc' = "idle"
    /\ UNCHANGED <<gateway, reinit, tls, connStatus, initDs, hasEvents, netVars, asioPc,
                   subVars, updPc, updVars, crashed, evVars>>

-------------------------------------------------------------------------------
(* Commands of the device *)

\* Init: delete_device, then init_device.
InitCommand ==
    /\ ~crashed /\ devPc = "idle"
    /\ devPc' = IF gateway THEN "testSubscr" ELSE "construct"
    /\ reinit' = TRUE
    /\ UNCHANGED <<state, gateway, tls, connStatus, initDs, hasEvents, netVars, asioPc, subVars,
                   updPc, updVars, crashed, evVars>>

\* UpdateData, which is_UpdateData_allowed refuses when there is no gateway. It deletes a
\* gateway whose port failed; otherwise update() asks updTh, if there is one, to broadcast.
UpdateData ==
    /\ ~crashed /\ devPc = "idle"
    /\ gateway
    /\ \/ /\ ~connStatus
          /\ devPc' = "testSubscr"
          /\ reinit' = FALSE
          /\ UNCHANGED doUpdate
       \/ /\ connStatus
          /\ HasAttrs /\ initDs
          /\ doUpdate' = TRUE
          /\ devPc' = "notifyUpd"
          /\ UNCHANGED reinit
    /\ UNCHANGED <<state, gateway, tls, connStatus, initDs, hasEvents, netVars, asioPc, subVars,
                   updPc, exit, lostWakeup, crashed, evVars>>

\* _upd_cond.notify_one(), here and in the destructor.
WakeUpd == updPc' = IF updPc = "blocked" THEN "eval" ELSE updPc

NotifyUpd ==
    /\ ~crashed /\ devPc = "notifyUpd"
    /\ WakeUpd
    /\ devPc' = "idle"
    /\ UNCHANGED <<devVars, netVars, asioPc, subVars, updVars, crashed, evVars>>

-------------------------------------------------------------------------------
(* ~WSTangoConnSer, on the device thread *)

\* The pointer is tested here and used in the next step, without a lock.
TestSubscr ==
    /\ ~crashed /\ devPc = "testSubscr"
    /\ devPc' = IF hasEvents /\ eventSubscr # "null" THEN "deleteSubscr" ELSE "setExit"
    /\ UNCHANGED <<devVars, netVars, asioPc, subVars, updPc, updVars, crashed, evVars>>

\* delete eventSubscr, by the destructor or by the asio thread: all its subscriptions go.
\* Deleting it twice is a use of freed memory; deleting nullptr does nothing. Tango's
\* unsubscribe_event waits for a push_event that is under way.
Unsubscribe ==
    /\ eventSubscr = "live" => evPc = "idle"
    /\ crashed' = (eventSubscr = "freed")
    /\ eventSubscr' = IF eventSubscr = "live" THEN "freed" ELSE eventSubscr
    /\ subs' = IF eventSubscr = "live" THEN subs - 1 ELSE subs

DestroySubscr ==
    /\ ~crashed /\ devPc = "deleteSubscr"
    /\ Unsubscribe
    /\ devPc' = "resetSubscr"
    /\ UNCHANGED <<devVars, netVars, asioPc, hadEvents, updPc, updVars, evVars>>

ResetSubscr ==
    /\ ~crashed /\ devPc = "resetSubscr"
    /\ eventSubscr' = "null"
    /\ devPc' = "setExit"
    /\ UNCHANGED <<devVars, netVars, asioPc, hadEvents, subs, updPc, updVars, crashed, evVars>>

\* updTh is told to end: the flags are set without _upd_lock ...
SetExit ==
    /\ ~crashed /\ devPc = "setExit"
    /\ doUpdate' = FALSE
    /\ exit' = TRUE
    /\ devPc' = "notifyExit"
    /\ UNCHANGED <<devVars, netVars, asioPc, subVars, updPc, lostWakeup, crashed, evVars>>

\* ... and so is the notification.
NotifyExit ==
    /\ ~crashed /\ devPc = "notifyExit"
    /\ WakeUpd
    /\ lostWakeup' = (updPc = "window")
    /\ devPc' = "joinUpd"
    /\ UNCHANGED <<devVars, netVars, asioPc, subVars, doUpdate, exit, crashed, evVars>>

JoinUpd ==
    /\ ~crashed /\ devPc = "joinUpd"
    /\ updPc \in {"none", "done"}
    /\ devPc' = "stopServer"
    /\ UNCHANGED <<devVars, netVars, asioPc, subVars, updPc, updVars, crashed, evVars>>

\* wsThread->stop(). (That it can miss its own thread actTh is in module WSThread, and
\* that the endpoint may not be initialised yet is not modelled.)
StopServer ==
    /\ ~crashed /\ devPc = "stopServer"
    /\ server' = CASE server = "starting" -> "stopping"
                   [] server = "running" -> "ended"
                   [] OTHER -> server
    /\ devPc' = "joinServer"
    /\ UNCHANGED <<devVars, clients, numConn, asioPc, subVars, updPc, updVars, crashed, evVars>>

\* The asio thread is joined, which ends the WSThread; on_close is not called for the
\* clients that were there.
JoinServer ==
    /\ ~crashed /\ devPc = "joinServer"
    /\ server = "ended"
    /\ asioPc = "idle"
    /\ server' = "none"
    /\ clients' = {}
    /\ devPc' = "deleteDevice"
    /\ UNCHANGED <<devVars, numConn, asioPc, subVars, updPc, updVars, crashed, evVars>>

\* The DeviceProxy goes, with whatever is still subscribed through it, and with it the
\* WSTangoConnSer. UpdateData then clears the pointer, delete_device leaves it to init_device.
DeleteDevice ==
    /\ ~crashed /\ devPc = "deleteDevice"
    /\ evPc = "idle"
    /\ subs' = 0
    /\ eventSubscr' = "null"
    /\ gateway' = FALSE
    /\ devPc' = IF reinit THEN "construct" ELSE "idle"
    /\ UNCHANGED <<state, reinit, tls, connStatus, initDs, hasEvents, netVars, asioPc,
                   hadEvents, updPc, updVars, crashed, evVars>>

-------------------------------------------------------------------------------
(* The asio thread *)

Listen ==
    /\ ~crashed /\ server = "starting"
    /\ server' = "running"
    /\ UNCHANGED <<devVars, devPc, clients, numConn, asioPc, subVars, updPc, updVars, crashed, evVars>>

\* run_undetached ends with an exception: the port is in use, or one has left a handler of the
\* running server, which nothing catches before (OnMessage). setFalsedConnectionStatus is called
\* for either. First the Tango state is set ...
ServerFails ==
    /\ ~crashed
    /\ server \in {"starting", "stopping"} \/ (server = "running" /\ asioPc = "idle")
    /\ server' = "failing"
    /\ state' = "fault"
    /\ UNCHANGED <<gateway, reinit, tls, connStatus, initDs, hasEvents, devPc, clients,
                   numConn, asioPc, subVars, updPc, updVars, crashed, evVars>>

\* ... and then _connectionStatus, which UpdateData reads.
ServerFailed ==
    /\ ~crashed /\ server = "failing"
    /\ server' = "ended"
    /\ connStatus' = FALSE
    /\ UNCHANGED <<state, gateway, reinit, tls, initDs, hasEvents, devPc, clients, numConn,
                   asioPc, subVars, updPc, updVars, crashed, evVars>>

\* The thread of a server that was stopped before it listened.
ServerEnds ==
    /\ ~crashed /\ server = "stopping"
    /\ server' = "ended"
    /\ UNCHANGED <<devVars, devPc, clients, numConn, asioPc, subVars, updPc, updVars, crashed, evVars>>

\* on_open, up to setNumOfConnections; it returns before if the answer of checkUser
\* cannot be sent.
OnOpen(c) ==
    /\ ~crashed /\ server = "running" /\ asioPc = "idle"
    /\ c \notin clients
    /\ clients' = clients \cup {c}
    /\ \/ /\ numConn' = Cardinality(clients')
          /\ asioPc' = "test"
       \/ UNCHANGED <<numConn, asioPc>>
    /\ UNCHANGED <<devVars, devPc, server, subVars, updPc, updVars, crashed, evVars>>

\* An on_close that leaves setNumOfConnections out.
OnCloseUncounted(c) ==
    /\ ~crashed /\ server = "running" /\ asioPc = "idle"
    /\ c \in clients
    /\ clients' = clients \ {c}
    /\ UNCHANGED <<devVars, devPc, server, numConn, asioPc, subVars, updPc, updVars, crashed, evVars>>

\* on_close, up to setNumOfConnections.
OnClose(c) ==
    /\ ~crashed /\ server = "running" /\ asioPc = "idle"
    /\ c \in clients
    /\ clients' = clients \ {c}
    /\ numConn' = Cardinality(clients')
    /\ asioPc' = "test"
    /\ UNCHANGED <<devVars, devPc, server, subVars, updPc, updVars, crashed, evVars>>

\* A test that forgets that there may be a subscription.
AlwaysSubscribe == numConn > 0 /\ hasEvents

\* The conditions of setNumOfConnections, tested here and used in the next steps.
ToSubscribe == numConn > 0 /\ hasEvents /\ eventSubscr = "null"
ToUnsubscribe == numConn = 0 /\ hasEvents /\ eventSubscr # "null"

TestSubscribed ==
    /\ ~crashed /\ asioPc = "test"
    /\ hadEvents' = hasEvents
    /\ asioPc' = CASE ToSubscribe -> "subscribe"
                   [] ToUnsubscribe -> "delete"
                   [] OTHER -> "idle"
    /\ UNCHANGED <<devVars, devPc, netVars, eventSubscr, subs, updPc, updVars, crashed, evVars>>

\* new EventProcSer: it subscribes through deviceForWs, which is nullptr when the listened
\* device was not initialised. Tango calls push_event from inside subscribe_event, with a value
\* or an error, and a subscription that fails is reported: both call send_all while on_open
\* holds m_connection_lock. WSThread_plain drops the message, WSThread_tls waits for itself.
Subscribe ==
    /\ ~crashed /\ asioPc = "subscribe"
    /\ \/ /\ ~initDs
          /\ crashed' = TRUE
          /\ UNCHANGED <<asioPc, subs, evVars>>
       \/ /\ initDs /\ tls
          /\ asioPc' = "selfWait"
          /\ UNCHANGED <<subs, evVars, crashed>>
       \/ /\ initDs /\ ~tls
          /\ subs' = subs + 1
          /\ asioPc' = "assign"
          /\ wasException' \in BOOLEAN /\ shown' = "unsure"
          /\ UNCHANGED <<evPc, evErr, crashed>>
    /\ UNCHANGED <<devVars, devPc, netVars, hadEvents, eventSubscr, updPc, updVars>>

AssignSubscr ==
    /\ ~crashed /\ asioPc = "assign"
    /\ eventSubscr' = "live"
    /\ asioPc' = "idle"
    /\ UNCHANGED <<devVars, devPc, netVars, hadEvents, subs, updPc, updVars, crashed, evVars>>

\* deleteEventSubscr.
DeleteSubscr ==
    /\ ~crashed /\ asioPc = "delete"
    /\ Unsubscribe
    /\ asioPc' = "reset"
    /\ UNCHANGED <<devVars, devPc, netVars, hadEvents, updPc, updVars, evVars>>

ClearSubscr ==
    /\ ~crashed /\ asioPc = "reset"
    /\ eventSubscr' = "null"
    /\ asioPc' = "idle"
    /\ UNCHANGED <<devVars, devPc, netVars, hadEvents, subs, updPc, updVars, crashed, evVars>>

-------------------------------------------------------------------------------
(* updTh: updateData *)

\* An updTh that does not look at local_th_exit.
EvalNoExit ==
    /\ ~crashed /\ updPc = "eval"
    /\ updPc' = IF doUpdate THEN "test" ELSE "window"
    /\ UNCHANGED <<devVars, devPc, netVars, asioPc, subVars, updVars, crashed, evVars>>

\* The wait predicate, tested with _upd_lock held, and the test of local_th_exit.
EvalWait ==
    /\ ~crashed /\ updPc = "eval"
    /\ updPc' = CASE exit -> "done"
                  [] doUpdate /\ ~exit -> "test"
                  [] OTHER -> "window"
    /\ UNCHANGED <<devVars, devPc, netVars, asioPc, subVars, updVars, crashed, evVars>>

\* Only from here on does notify_one find the thread.
Block ==
    /\ ~crashed /\ updPc = "window"
    /\ updPc' = "blocked"
    /\ UNCHANGED <<devVars, devPc, netVars, asioPc, subVars, updVars, crashed, evVars>>

SpuriousWakeup ==
    /\ ~crashed /\ updPc = "blocked"
    /\ updPc' = "eval"
    /\ UNCHANGED <<devVars, devPc, netVars, asioPc, subVars, updVars, crashed, evVars>>

\* Without clients the listened device is not read.
TestClients ==
    /\ ~crashed /\ updPc = "test"
    /\ updPc' = IF numConn > 0 THEN "send" ELSE "clear"
    /\ UNCHANGED <<devVars, devPc, netVars, asioPc, subVars, updVars, crashed, evVars>>

\* send_all: WSThread_tls waits for m_connection_lock, WSThread_plain goes on without
\* sending when it is taken. What else it does, to each client, is in module WSThread.
LockFree == asioPc = "idle"
tls_send_all(sent) == LockFree /\ sent = TRUE
plain_send_all(sent) == sent = LockFree
send_all(sent) == IF tls THEN tls_send_all(sent) ELSE plain_send_all(sent)

\* for_update_data
Broadcast ==
    /\ ~crashed /\ updPc = "send"
    /\ \E sent \in BOOLEAN : send_all(sent)
    /\ updPc' = "clear"
    /\ UNCHANGED <<devVars, devPc, netVars, asioPc, subVars, updVars, crashed, evVars>>

\* do_update = false, also if UpdateData has set it since the data was read.
ClearUpdate ==
    /\ ~crashed /\ updPc = "clear"
    /\ doUpdate' = FALSE
    /\ updPc' = "eval"
    /\ UNCHANGED <<devVars, devPc, netVars, asioPc, subVars, exit, lostWakeup, crashed, evVars>>

-------------------------------------------------------------------------------
(* Tango's event thread: WsEvCallBackSer::push_event *)

\* An error behind an error is not told again.
PushEvent(err) ==
    /\ ~crashed /\ evPc = "idle"
    /\ subs > 0
    /\ ~(wasException /\ err)
    /\ evPc' = "send" /\ evErr' = err
    /\ UNCHANGED <<serVars, wasException, shown>>

\* Mutant of SendEvent: the flag is never cleared.
SendEventSticky ==
    /\ ~crashed /\ evPc = "send"
    /\ evPc' = "idle"
    /\ \/ server = "none" /\ crashed' = TRUE /\ UNCHANGED <<wasException, shown>>
       \/ /\ server # "none"
          /\ \E sent \in BOOLEAN :
                /\ send_all(sent)
                /\ shown' = CASE ~sent -> "unsure" [] sent /\ evErr -> "error" [] OTHER -> "value"
          /\ wasException' = (wasException \/ evErr)
          /\ UNCHANGED crashed
    /\ UNCHANGED <<devVars, devPc, netVars, asioPc, subVars, updPc, updVars, evErr>>

\* The rest of push_event, which sets or clears _wasException whether or not the message was
\* sent. A WSThread that the destructor deleted is used all the same.
SendEvent ==
    /\ ~crashed /\ evPc = "send"
    /\ evPc' = "idle"
    /\ \/ server = "none" /\ crashed' = TRUE /\ UNCHANGED <<wasException, shown>>
       \/ /\ server # "none"
          /\ \E sent \in BOOLEAN :
                /\ send_all(sent)
                /\ shown' = CASE ~sent -> "unsure" [] sent /\ evErr -> "error" [] OTHER -> "value"
          /\ wasException' = evErr
          /\ UNCHANGED crashed
    /\ UNCHANGED <<devVars, devPc, netVars, asioPc, subVars, updPc, updVars, evErr>>

-------------------------------------------------------------------------------

InitStep == Construct \/ StartServer \/ StartUpd \/ ReadList \/ SetOn

DestructorStep ==
    \/ TestSubscr \/ DestroySubscr \/ ResetSubscr \/ SetExit \/ NotifyExit \/ JoinUpd
    \/ StopServer \/ JoinServer \/ DeleteDevice

ServerStep == Listen \/ ServerFails \/ ServerFailed \/ ServerEnds

SubscrStep == TestSubscribed \/ Subscribe \/ AssignSubscr \/ DeleteSubscr \/ ClearSubscr

EventStep == SendEvent \/ \E err \in BOOLEAN : PushEvent(err)

UpdStep == EvalWait \/ Block \/ TestClients \/ Broadcast \/ ClearUpdate

Next ==
    \/ InitStep \/ InitCommand \/ UpdateData \/ NotifyUpd \/ DestructorStep
    \/ ServerStep \/ SubscrStep
    \/ \E c \in Client : OnOpen(c) \/ OnClose(c)
    \/ UpdStep \/ SpuriousWakeup
    \/ EventStep

Spec == Init /\ [][Next]_vars

\* Every thread keeps running, and UpdateData is polled (WebSocketDSClass.cpp:704 sets a
\* polling period). updTh gets m_connection_lock in the end, as the asio thread releases it
\* after every handler, and Tango's events leave gaps in which an unsubscription has its
\* turn. Nothing is assumed of clients, of Init, of events or of spurious wakeups.
Fairness ==
    /\ WF_vars(InitStep \/ NotifyUpd \/ DestructorStep)
    /\ WF_vars(UpdateData)
    /\ WF_vars(ServerStep)
    /\ WF_vars(SubscrStep)
    /\ WF_vars(UpdStep)
    /\ SF_vars(Broadcast)
    /\ WF_vars(SendEvent)
    /\ SF_vars(DestroySubscr)
    /\ SF_vars(DeleteSubscr)
    /\ SF_vars(DeleteDevice)

FairSpec == Spec /\ Fairness

-------------------------------------------------------------------------------
(* Safety *)

\* setNumOfConnections: the event subscription exists exactly while clients are counted,
\* whatever the order of openings and closings. Outside the destructor, and once
\* setNumOfConnections has seen that subscriptions are configured.
SubscribedWhileConnected ==
    devPc \notin DelSteps /\ asioPc = "idle" /\ hadEvents
        => (eventSubscr = "live" <=> clients # {} /\ numConn > 0)

\* The pointer eventSubscr owns the only EventProcSer: none is leaked by a second client or
\* by a new gateway, and it is deleted twice in the destructor at most. (README: only the
\* destructor's race with the asio thread and a device that was not initialised crash.)
OneOwner ==
    /\ devPc \notin DelSteps /\ ~crashed
           => subs = IF eventSubscr = "live" \/ asioPc = "assign" THEN 1 ELSE 0
    /\ crashed => devPc \in DelSteps \/ ~initDs

\* As long as no message was dropped, _wasException says what the clients were told last,
\* however subscriptions come and go: an error is told once, and so is its end.
ExceptionAsTold ==
    subs > 0 /\ evPc = "idle" /\ shown # "unsure" => (wasException <=> shown = "error")

\* WSThread_plain.cpp:86 names the deadlock: a message sent while EventProcSer is being
\* made must not wait for the lock of on_open.
NoSelfWait == asioPc # "selfWait"

-------------------------------------------------------------------------------
(* Liveness *)

\* The destructor ends, so Init and UpdateData return, unless the notification of updTh was
\* lost, the asio thread waits for itself, or the process has crashed.
DestructorCompletes ==
    devPc = "testSubscr"
        ~> devPc \in {"construct", "idle"} \/ lostWakeup \/ asioPc = "selfWait" \/ crashed

===============================================================================
