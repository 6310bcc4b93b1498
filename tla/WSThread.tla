------------------------------- MODULE WSThread -------------------------------
(***************************************************************************)
(* The gateway's connection table and its request polling: class WSThread  *)
(* with WSThread_plain (the TLS class runs the same handlers).             *)
(*                                                                         *)
(* These threads act on the state:                                         *)
(*   - the asio thread (run_undetached) runs the WebSocket handlers        *)
(*     on_validate, on_open, on_message and on_close one after another;    *)
(*   - actTh (checkActions) polls Tango for the replies of asynchronous    *)
(*     requests and sends them to the clients;                             *)
(*   - the Tango device thread calls stop();                               *)
(* and one more sends unasked: in server mode the thread that runs         *)
(* send_all, in client mode the Tango event thread (sendMessage of         *)
(* EventProcCli).                                                          *)
(* m_connection_lock is held by actTh while it evaluates its wait          *)
(* predicate and while it scans; the other critical sections are short     *)
(* and are single actions enabled when the lock is free.                   *)
(*                                                                         *)
(* A handle or a request id that is no longer referenced anywhere returns  *)
(* to the pool, so a finite pool stands for an unbounded supply of fresh   *)
(* values: |Conn| bounds the connections alive together, |Id| the          *)
(* asynchronous Tango requests alive together.                             *)
(***************************************************************************)
EXTENDS Naturals, FiniteSets

CONSTANTS
    Conn,        \* connection handles
    NoConn,      \* "no connection"
    Id,          \* ids Tango gives to asynchronous requests
    MaxConn,     \* option maxnconn; 0 means unlimited
    MaxErr,      \* bound: devices of one group request that fail at once
    ClientMode,  \* TRUE in the client-mode build, FALSE in the server-mode build
    MayStop      \* whether the device may be stopped in this instance

ASSUME ConstantsAssumption ==
    /\ IsFiniteSet(Conn)
    /\ NoConn \notin Conn
    /\ MaxConn \in Nat
    /\ MaxErr \in Nat
    /\ ClientMode \in BOOLEAN
    /\ MayStop \in BOOLEAN

VARIABLES
    server,      \* run_undetached: "starting", "running", "failed", "stopped"
    sock,        \* state of each WebSocket
    connections, \* keys of m_connections
    numConn,     \* _numOfConnections of the WSTangoConn object
    active,      \* m_active_connections
    tasks,       \* keys of idCommandInfo, per connection
    reply,       \* Tango: state of each asynchronous request
    delivered,   \* how often each request was answered (history, 2 = "more than once")
    asioPc,      \* where the asio thread is inside on_message
    asioConn,    \* the hdl of that on_message
    asioIds,     \* forIdInfo
    asioErrs,    \* errorsFromGroupReq still to be sent
    actPc,       \* where actTh is in checkActions
    scanConns,   \* connections the current scan has still to visit
    scanConn,    \* connection being visited
    scanIds,     \* its requests still to be checked
    sentIds,     \* the local _del of _checkRequests
    delActive,   \* the locals _del_active_conn and _del_conn of _forCheckActions
    evFailed,    \* the local _del_conn of EventProcCli::sendMessage
    exit,        \* local_th_exit
    stopPc,      \* where the device thread is in stop()
    lostWakeup   \* stop() has notified a thread that was not waiting yet (history)

netVars  == <<server, sock>>
tblVars  == <<connections, numConn, active, tasks>>
repVars  == <<reply, delivered>>
asioVars == <<asioPc, asioConn, asioIds, asioErrs>>
scanVars == <<scanConns, scanConn, scanIds, sentIds, delActive>>
stopVars == <<exit, stopPc, lostWakeup>>
vars == <<netVars, tblVars, repVars, asioVars, actPc, scanVars, evFailed, stopVars>>

TypeOK ==
    /\ server \in {"starting", "running", "failed", "stopped"}
    /\ sock \in [Conn -> {"idle", "validated", "open", "closing"}]
    /\ connections \in SUBSET Conn
    /\ numConn \in Nat
    /\ active \in SUBSET Conn
    /\ tasks \in [Conn -> SUBSET Id]
    /\ reply \in [Id -> {"none", "pending", "arrived", "taken"}]
    /\ delivered \in [Id -> 0..2]
    /\ asioPc \in {"idle", "add", "notify", "errors", "drop"}
    /\ asioConn \in Conn \cup {NoConn}
    /\ asioIds \in SUBSET Id
    /\ asioErrs \in 0..MaxErr
    /\ actPc \in {"eval", "window", "blocked", "poll", "scan", "done"}
    /\ scanConns \in SUBSET Conn
    /\ scanConn \in Conn \cup {NoConn}
    /\ scanIds \in SUBSET Id
    /\ sentIds \in SUBSET Id
    /\ delActive \in SUBSET Conn
    /\ evFailed \in SUBSET Conn
    /\ exit \in BOOLEAN
    /\ stopPc \in {"none", "set", "join", "server", "ended"}
    /\ lostWakeup \in BOOLEAN

-------------------------------------------------------------------------------

\* The critical sections forget to take m_connection_lock.
NoLock == TRUE

\* m_connection_lock is free: actTh holds it while it evaluates the wait
\* predicate ("window") and during a scan.
LockFree == actPc \notin {"window", "scan"}

\* The asio thread is between two handlers and the event loop is running.
AsioReady == server = "running" /\ asioPc = "idle"

\* ConnectionData objects are deleted with their idCommandInfo: the requests in
\* ids are forgotten and their Tango ids will not be used again.
Forget(ids) ==
    /\ reply' = [i \in Id |-> IF i \in ids THEN "none" ELSE reply[i]]
    /\ delivered' = [i \in Id |-> IF i \in ids THEN 0 ELSE delivered[i]]

\* send() hands a message to an open socket.
SendOk(c) ==
    /\ sock[c] = "open"
    /\ UNCHANGED sock

\* A send() that throws without closing the socket.
SendRaisesOnly(c) ==
    /\ sock[c] \in {"open", "closing"}
    /\ UNCHANGED sock

\* send() fails: the buffer of a slow client is over its limit, the payload is
\* refused, or the socket is closing already. close_from_server starts the
\* closing handshake and throws ConnectionClosedException.
SendRaises(c) ==
    /\ sock[c] \in {"open", "closing"}
    /\ sock' = [sock EXCEPT ![c] = "closing"]

\* setNumOfConnections with the size from before the change.
SetNumTooEarly == numConn' = Cardinality(connections)

\* _tc->setNumOfConnections(m_connections.size())
SetNumOfConnections == numConn' = Cardinality(connections')

Init ==
    /\ server = "starting"
    /\ sock = [c \in Conn |-> "idle"]
    /\ connections = {}
    /\ numConn = 0
    /\ active = {}
    /\ tasks = [c \in Conn |-> {}]
    /\ reply = [i \in Id |-> "none"]
    /\ delivered = [i \in Id |-> 0]
    /\ asioPc = "idle"
    /\ asioConn = NoConn
    /\ asioIds = {}
    /\ asioErrs = 0
    /\ actPc = "eval"
    /\ scanConns = {}
    /\ scanConn = NoConn
    /\ scanIds = {}
    /\ sentIds = {}
    /\ delActive = {}
    /\ evFailed = {}
    /\ exit = FALSE
    /\ stopPc = "none"
    /\ lostWakeup = FALSE

-------------------------------------------------------------------------------
(* run_undetached *)

\* listen() and start_accept() succeed, run() starts serving.
Listen ==
    /\ server = "starting"
    /\ server' = "running"
    /\ UNCHANGED <<sock, tblVars, repVars, asioVars, actPc, scanVars, evFailed, stopVars>>

\* listen() throws (the port is taken): setFalsedConnectionStatus.
PortBusy ==
    /\ server = "starting"
    /\ server' = "failed"
    /\ UNCHANGED <<sock, tblVars, repVars, asioVars, actPc, scanVars, evFailed, stopVars>>

-------------------------------------------------------------------------------
(* Handlers of the asio thread *)

\* on_validate accepts a handshake (a refusal leaves no trace). The connection
\* enters m_connections only in on_open, after the HTTP response was written. Its
\* handle is a new one, so not one sendMessage still holds.
OnValidate(c) ==
    /\ AsioReady
    /\ sock[c] = "idle"
    /\ c \notin evFailed
    /\ MaxConn = 0 \/ Cardinality(connections) < MaxConn
    /\ sock' = [sock EXCEPT ![c] = "validated"]
    /\ UNCHANGED <<server, tblVars, repVars, asioVars, actPc, scanVars, evFailed, stopVars>>

\* on_fail: the handshake breaks before on_open.
OnFail(c) ==
    /\ AsioReady
    /\ sock[c] = "validated"
    /\ sock' = [sock EXCEPT ![c] = "idle"]
    /\ UNCHANGED <<server, tblVars, repVars, asioVars, actPc, scanVars, evFailed, stopVars>>

\* on_open registers the connection and checks the user. If the check failed and
\* its error message cannot be sent, on_open returns before setNumOfConnections.
OnOpen(c) ==
    /\ AsioReady
    /\ LockFree
    /\ sock[c] = "validated"
    /\ connections' = connections \cup {c}
    /\ tasks' = [tasks EXCEPT ![c] = {}]
    /\ \/ /\ sock' = [sock EXCEPT ![c] = "open"]
          /\ SetNumOfConnections
          /\ UNCHANGED active
       \/ /\ sock' = [sock EXCEPT ![c] = "closing"]
          /\ active' = active \ {c}
          /\ UNCHANGED numConn
    /\ UNCHANGED <<server, repVars, asioVars, actPc, scanVars, evFailed, stopVars>>

\* The peer closes, or its TCP connection breaks.
PeerCloses(c) ==
    /\ AsioReady
    /\ sock[c] = "open"
    /\ sock' = [sock EXCEPT ![c] = "closing"]
    /\ UNCHANGED <<server, tblVars, repVars, asioVars, actPc, scanVars, evFailed, stopVars>>

\* on_close: the socket is gone, its ConnectionData is deleted.
OnClose(c) ==
    /\ AsioReady
    /\ LockFree
    /\ sock[c] = "closing"
    /\ sock' = [sock EXCEPT ![c] = "idle"]
    /\ active' = active \ {c}
    /\ connections' = connections \ {c}
    /\ SetNumOfConnections
    /\ tasks' = [tasks EXCEPT ![c] = {}]
    /\ Forget(tasks[c])
    /\ UNCHANGED <<server, asioVars, actPc, scanVars, evFailed, stopVars>>

\* on_message for everything that is answered in the handler: an invalid message,
\* user requests, event requests, pipes, and an asynchronous request refused with a
\* runtime_error. If the answer cannot be sent the connection leaves the active set.
OnMessageSync(c) ==
    /\ AsioReady
    /\ \/ SendOk(c) /\ UNCHANGED asioVars
       \/ /\ sock[c] = "open"
          /\ SendRaises(c)
          /\ asioPc' = "drop"
          /\ asioConn' = c
          /\ UNCHANGED <<asioIds, asioErrs>>
    /\ UNCHANGED <<server, tblVars, repVars, actPc, scanVars, evFailed, stopVars>>

\* An exception on_message does not expect, no std::runtime_error, leaves it and ends
\* run(): in client mode a Tango::DevFailed of read_pipe for a single device, in both modes
\* the std::invalid_argument of stoi for a dimX or dimY that is no number.
OnMessageRaises(c) ==
    /\ AsioReady
    /\ sock[c] = "open"
    /\ server' = "failed"
    /\ UNCHANGED <<sock, tblVars, repVars, asioVars, actPc, scanVars, evFailed, stopVars>>

\* on_message for a command or attribute request: sendRequestAsync has issued one
\* Tango request per device; for a group, errs devices failed at once.
OnMessageAsync(c, ids, errs) ==
    /\ AsioReady
    /\ sock[c] = "open"
    /\ \A i \in ids : reply[i] = "none"
    /\ reply' = [i \in Id |-> IF i \in ids THEN "pending" ELSE reply[i]]
    /\ asioPc' = IF ids = {} THEN "notify" ELSE "add"
    /\ asioConn' = c
    /\ asioIds' = ids
    /\ asioErrs' = errs
    /\ UNCHANGED <<netVars, tblVars, delivered, actPc, scanVars, evFailed, stopVars>>

\* An addActive that takes requests only from connections that were not active.
AddActiveOnce ==
    /\ asioPc = "add"
    /\ LockFree
    /\ active' = active \cup {asioConn}
    /\ tasks' = IF asioConn \in active THEN tasks
                ELSE [tasks EXCEPT ![asioConn] = @ \cup asioIds]
    /\ asioPc' = "notify"
    /\ asioIds' = {}
    /\ UNCHANGED <<netVars, connections, numConn, repVars, asioConn, asioErrs, actPc, scanVars,
                   evFailed, stopVars>>

\* addActive. A connection that is in neither table any more is left alone.
AddActive ==
    /\ asioPc = "add"
    /\ LockFree
    /\ IF asioConn \in active \cup connections
       THEN /\ active' = active \cup {asioConn}
            /\ tasks' = [tasks EXCEPT ![asioConn] = @ \cup asioIds]
            /\ UNCHANGED repVars
       ELSE /\ Forget(asioIds)
            /\ UNCHANGED <<active, tasks>>
    /\ asioPc' = "notify"
    /\ asioIds' = {}
    /\ UNCHANGED <<netVars, connections, numConn, asioConn, asioErrs, actPc, scanVars, evFailed, stopVars>>

\* An on_message that does not notify actTh.
NotifyNobody ==
    /\ asioPc = "notify"
    /\ asioPc' = IF asioErrs = 0 THEN "idle" ELSE "errors"
    /\ UNCHANGED <<netVars, tblVars, repVars, asioConn, asioIds, asioErrs, actPc, scanVars,
                   evFailed, stopVars>>

\* An on_message that enters the loop over errorsFromGroupReq without looking at its size.
NotifyThenErrors ==
    /\ asioPc = "notify"
    /\ actPc' = IF actPc = "blocked" THEN "eval" ELSE actPc
    /\ asioPc' = "errors"
    /\ UNCHANGED <<netVars, tblVars, repVars, asioConn, asioIds, asioErrs, scanVars, evFailed, stopVars>>

\* m_action_cond.notify_one() in on_message.
Notify ==
    /\ asioPc = "notify"
    /\ actPc' = IF actPc = "blocked" THEN "eval" ELSE actPc
    /\ asioPc' = IF asioErrs = 0 THEN "idle" ELSE "errors"
    /\ UNCHANGED <<netVars, tblVars, repVars, asioConn, asioIds, asioErrs, scanVars, evFailed, stopVars>>

\* One element of errorsFromGroupReq is sent.
SendGroupError ==
    /\ asioPc = "errors"
    /\ \/ /\ SendOk(asioConn)
          /\ asioErrs' = asioErrs - 1
          /\ asioPc' = IF asioErrs = 1 THEN "idle" ELSE "errors"
       \/ /\ SendRaises(asioConn)
          /\ asioErrs' = 0
          /\ asioPc' = "drop"
    /\ UNCHANGED <<server, tblVars, repVars, asioConn, asioIds, actPc, scanVars, evFailed, stopVars>>

\* The handler of ConnectionClosedException in on_message.
DropActive ==
    /\ asioPc = "drop"
    /\ LockFree
    /\ active' = active \ {asioConn}
    /\ asioPc' = "idle"
    /\ UNCHANGED <<netVars, connections, numConn, tasks, repVars, asioConn, asioIds, asioErrs,
                   actPc, scanVars, evFailed, stopVars>>

-------------------------------------------------------------------------------
(* actTh: checkActions *)

\* The wait predicate and the test of local_th_exit, with the lock held.
EvalWait ==
    /\ actPc = "eval"
    /\ actPc' = IF exit THEN "done" ELSE IF active # {} THEN "poll" ELSE "window"
    /\ UNCHANGED <<netVars, tblVars, repVars, asioVars, scanVars, evFailed, stopVars>>

\* The predicate was false: the thread blocks and releases the lock.
Block ==
    /\ actPc = "window"
    /\ actPc' = "blocked"
    /\ UNCHANGED <<netVars, tblVars, repVars, asioVars, scanVars, evFailed, stopVars>>

\* A condition variable may wake up without a notification.
SpuriousWakeup ==
    /\ actPc = "blocked"
    /\ actPc' = "eval"
    /\ UNCHANGED <<netVars, tblVars, repVars, asioVars, scanVars, evFailed, stopVars>>

\* The inner loop: its test reads m_active_connections without the lock, then
\* _forCheckActions starts with it.
PollLoop ==
    /\ actPc = "poll"
    /\ \/ /\ active = {}
          /\ actPc' = "eval"
          /\ UNCHANGED scanConns
       \/ /\ active # {}
          /\ actPc' = "scan"
          /\ scanConns' = active
    /\ UNCHANGED <<netVars, tblVars, repVars, asioVars, scanConn, scanIds, sentIds, delActive,
                   evFailed, stopVars>>

\* _forCheckActions enters _checkRequests for the next active connection.
VisitConn(c) ==
    /\ actPc = "scan"
    /\ scanConn = NoConn
    /\ c \in scanConns
    /\ scanConns' = scanConns \ {c}
    /\ scanConn' = c
    /\ scanIds' = tasks[c]
    /\ sentIds' = {}
    /\ UNCHANGED <<netVars, tblVars, repVars, asioVars, actPc, delActive, evFailed, stopVars>>

\* One turn of the loop of _checkRequests. checkResponse takes the reply (or the
\* DevFailed) out of Tango; if send() raises, _del is lost with the stack frame.
CheckRequest(i) ==
    /\ actPc = "scan"
    /\ scanConn # NoConn
    /\ i \in scanIds
    /\ \/ /\ reply[i] = "pending"
          /\ scanIds' = scanIds \ {i}
          /\ UNCHANGED <<sock, repVars, scanConn, sentIds, delActive>>
       \/ /\ reply[i] # "pending"
          /\ SendOk(scanConn)
          /\ reply' = [reply EXCEPT ![i] = "taken"]
          /\ delivered' = [delivered EXCEPT ![i] = IF @ = 0 THEN 1 ELSE 2]
          /\ scanIds' = scanIds \ {i}
          /\ sentIds' = sentIds \cup {i}
          /\ UNCHANGED <<scanConn, delActive>>
       \/ /\ reply[i] # "pending"
          /\ SendRaises(scanConn)
          /\ reply' = [reply EXCEPT ![i] = "taken"]
          /\ delActive' = delActive \cup {scanConn}
          /\ scanConn' = NoConn
          /\ scanIds' = {}
          /\ sentIds' = {}
          /\ UNCHANGED delivered
    /\ UNCHANGED <<server, tblVars, asioVars, actPc, scanConns, evFailed, stopVars>>

\* _checkRequests erases the answered requests; a connection without requests
\* will leave the active set.
LeaveConn ==
    /\ actPc = "scan"
    /\ scanConn # NoConn
    /\ scanIds = {}
    /\ tasks' = [tasks EXCEPT ![scanConn] = @ \ sentIds]
    /\ Forget(sentIds)
    /\ delActive' = IF tasks[scanConn] \subseteq sentIds
                    THEN delActive \cup {scanConn} ELSE delActive
    /\ scanConn' = NoConn
    /\ sentIds' = {}
    /\ UNCHANGED <<netVars, connections, numConn, active, asioVars, actPc, scanConns, scanIds,
                   evFailed, stopVars>>

\* The end of _forCheckActions: _deleteFromActiveConnections and closeConnections.
EndScan ==
    /\ actPc = "scan"
    /\ scanConn = NoConn
    /\ scanConns = {}
    /\ active' = active \ delActive
    /\ delActive' = {}
    /\ actPc' = "poll"
    /\ UNCHANGED <<netVars, connections, numConn, tasks, repVars, asioVars, scanConns, scanConn,
                   scanIds, sentIds, evFailed, stopVars>>

-------------------------------------------------------------------------------
(* Other threads and the environment *)

\* A Tango request gets its reply, or fails (a timeout is a failure too).
ReplyArrives(i) ==
    /\ reply[i] = "pending"
    /\ reply' = [reply EXCEPT ![i] = "arrived"]
    /\ UNCHANGED <<netVars, tblVars, delivered, asioVars, actPc, scanVars, evFailed, stopVars>>

\* send_all (server mode) found the lock free: the connections in F cannot take the
\* message. (When the lock is taken the message is dropped: no state changes.)
SendAll(F) ==
    /\ ~ClientMode
    /\ LockFree
    /\ F \subseteq connections
    /\ \A c \in connections : sock[c] = "closing" => c \in F
    /\ sock' = [c \in Conn |-> IF c \in F THEN "closing" ELSE sock[c]]
    /\ active' = active \ F
    /\ UNCHANGED <<server, connections, numConn, tasks, repVars, asioVars, actPc,
                   scanVars, evFailed, stopVars>>

\* EventProcCli::sendMessage (client mode): the subscribers in F cannot take the event.
EventSend(F) ==
    /\ ClientMode
    /\ evFailed = {}
    /\ F # {} /\ F \subseteq connections
    /\ sock' = [c \in Conn |-> IF c \in F THEN "closing" ELSE sock[c]]
    /\ evFailed' = F
    /\ UNCHANGED <<server, tblVars, repVars, asioVars, actPc, scanVars, stopVars>>

\* It then calls closeConnections, without m_connection_lock. An erase in the set a scan
\* iterates over is a data race: the scan may go on with any of its remaining
\* connections (that it may also crash the process is not modelled).
EventClose ==
    /\ evFailed # {}
    /\ active' = active \ evFailed
    /\ IF actPc = "scan" /\ active' # active
       THEN scanConns' \in SUBSET scanConns
       ELSE UNCHANGED scanConns
    /\ evFailed' = {}
    /\ UNCHANGED <<netVars, connections, numConn, tasks, repVars, asioVars, actPc, scanConn,
                   scanIds, sentIds, delActive, stopVars>>

\* stop(), on the device thread: the flag is set without the lock ...
StopSetExit ==
    /\ MayStop
    /\ stopPc = "none"
    /\ exit' = TRUE
    /\ stopPc' = "set"
    /\ UNCHANGED <<netVars, tblVars, repVars, asioVars, actPc, scanVars, evFailed, lostWakeup>>

\* A stop() that forgets to notify.
StopWithoutNotify ==
    /\ stopPc = "set"
    /\ stopPc' = "join"
    /\ lostWakeup' = (actPc = "window")
    /\ UNCHANGED <<netVars, tblVars, repVars, asioVars, actPc, scanVars, evFailed, exit>>

\* ... and so is the notification ...
StopNotify ==
    /\ stopPc = "set"
    /\ stopPc' = "join"
    /\ actPc' = IF actPc = "blocked" THEN "eval" ELSE actPc
    /\ lostWakeup' = (actPc = "window")
    /\ UNCHANGED <<netVars, tblVars, repVars, asioVars, scanVars, evFailed, exit>>

\* ... actTh is joined and the event loop is stopped ...
StopServer ==
    /\ stopPc = "join"
    /\ actPc = "done"
    /\ stopPc' = "server"
    /\ server' = IF server = "failed" THEN server ELSE "stopped"
    /\ UNCHANGED <<sock, tblVars, repVars, asioVars, actPc, scanVars, evFailed, exit,
                   lostWakeup>>

\* ... and the asio thread is joined by the owner of the WSThread.
StopJoin ==
    /\ stopPc = "server"
    /\ asioPc = "idle"
    /\ stopPc' = "ended"
    /\ UNCHANGED <<netVars, tblVars, repVars, asioVars, actPc, scanVars, evFailed, exit,
                   lostWakeup>>

-------------------------------------------------------------------------------

AsioStep ==
    \/ \E c \in Conn :
        \/ OnValidate(c) \/ OnFail(c) \/ OnOpen(c) \/ PeerCloses(c) \/ OnClose(c)
        \/ OnMessageSync(c) \/ OnMessageRaises(c)
        \/ \E ids \in SUBSET Id, errs \in 0..MaxErr : OnMessageAsync(c, ids, errs)
    \/ AddActive \/ Notify \/ SendGroupError \/ DropActive

ActStep ==
    \/ EvalWait \/ Block \/ PollLoop \/ LeaveConn \/ EndScan
    \/ \E c \in Conn : VisitConn(c)
    \/ \E i \in Id : CheckRequest(i)

StopStep == StopSetExit \/ StopNotify \/ StopServer \/ StopJoin

Next ==
    \/ Listen \/ PortBusy
    \/ AsioStep
    \/ ActStep
    \/ SpuriousWakeup
    \/ \E i \in Id : ReplyArrives(i)
    \/ \E F \in SUBSET Conn : SendAll(F) \/ EventSend(F)
    \/ EventClose
    \/ StopStep

Spec == Init /\ [][Next]_vars

\* Each thread keeps running and Tango answers every request in the end. A thread
\* that waits for m_connection_lock gets it, since actTh sleeps a millisecond between
\* two scans, and a closing socket reaches on_close; both may be disabled meanwhile.
Fairness ==
    /\ WF_vars(ActStep)
    /\ WF_vars(Notify \/ SendGroupError)
    /\ SF_vars(AddActive)
    /\ SF_vars(DropActive)
    /\ \A c \in Conn : SF_vars(OnClose(c))
    /\ \A i \in Id : WF_vars(ReplyArrives(i))
    /\ WF_vars(StopNotify \/ StopServer \/ StopJoin)

FairSpec == Spec /\ Fairness

\* The steps the server-mode build has: nothing there sends events outside the lock.
ServerNext ==
    \/ Listen \/ PortBusy
    \/ AsioStep
    \/ ActStep
    \/ SpuriousWakeup
    \/ \E i \in Id : ReplyArrives(i)
    \/ \E F \in SUBSET Conn : SendAll(F)
    \/ StopStep

ServerSpec == Init /\ [][ServerNext]_vars /\ Fairness

-------------------------------------------------------------------------------
(* Safety *)

\* Every hdl that actTh or on_message looks up in m_connections is there. Both use
\* operator[], which would insert and dereference a null ConnectionData otherwise.
Registered ==
    /\ active \subseteq connections
    /\ scanConns \subseteq connections
    /\ scanConn # NoConn => scanConn \in connections
    /\ asioPc # "idle" => asioConn \in connections

\* No request of a client is left behind: while its socket is open, a connection
\* with requests in idCommandInfo is in the active set and the running scan is not
\* about to take it out, whatever the order of addActive, scans and failed sends.
PendingWatched ==
    \A c \in Conn :
        sock[c] = "open" /\ tasks[c] # {} => c \in active /\ c \notin delActive

\* A request is answered at most once, although _checkRequests forgets which requests
\* it has answered when a later send of the same pass throws.
AnsweredOnce == \A i \in Id : delivered[i] <= 1

\* _numOfConnections is good enough for its readers (updateData and the event
\* subscription), although a failed on_open leaves it alone: it is 0 when nobody is
\* connected and positive while any socket is open.
NumConnUsable ==
    /\ connections = {} => numConn = 0
    /\ (\E c \in Conn : sock[c] = "open") => numConn > 0

-------------------------------------------------------------------------------
(* Liveness; that requests are answered is in WSThreadRefinement. *)

\* stop() returns, except in two cases the code does not exclude: its notification
\* fell between the test of the wait predicate and the blocking of actTh, or clients
\* go on sending asynchronous requests (the inner loop does not read local_th_exit).
StopCompletes ==
    <>[](asioPc # "add") => (stopPc = "set" ~> stopPc = "ended" \/ lostWakeup)

===============================================================================
