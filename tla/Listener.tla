------------------------------ MODULE Listener ------------------------------
(***************************************************************************)
(* The server thread's way to its io_service and the connections it makes: *)
(* WSThread_plain and WSThread_tls::run_undetached and stop, the accept    *)
(* loop (roles/server_endpoint.hpp, transport/asio/endpoint.hpp), and each *)
(* connection's transport from accept to the first read and from terminate *)
(* to the handler that tells of it (transport/asio/connection.hpp with     *)
(* security/none.hpp or security/tls.hpp). What a connection does in       *)
(* between is in module Connection.                                        *)
(*                                                                         *)
(* A handler is one step. The clock moves by itself: a timer that has run  *)
(* out has its handler queued and cannot be cancelled any more.            *)
(***************************************************************************)
EXTENDS Integers, Sequences, FiniteSets

CONSTANTS
    Secure,     \* whether TLS is on: a set of choices
    MaxCon      \* bound: connections created

ASSUME ListenerAssumption == Secure \subseteq BOOLEAN /\ Secure # {} /\ MaxCon \in Nat \ {0}

VARIABLES
    tls,        \* WSThread_tls or WSThread_plain (constant)
    files,      \* whether certificate and key can be read and fit
    thread,     \* where run_undetached is
    m_state,    \* of the endpoint
    stopped,    \* the io_service was told to stop
    crashed,    \* stop() has used an io_service that is not there
    waiting,    \* the connections async_accept waits with
    conns       \* the connections in the order of their creation

listenerVars == <<tls, files, thread, m_state, stopped, crashed, waiting, conns>>

Timer == {"none", "armed", "due", "cancelled", "done"}
Result == {"none", "pending", "ok", "failed", "aborted", "done"}

Connection ==
    [state : {"connecting", "open", "closed"},
     istate : {"USER_INIT", "TRANSPORT_INIT", "READ_HTTP_REQUEST"},
     context : BOOLEAN,        \* its TLS context has the certificate
     handshake : Result,       \* async_handshake, a result until its handler has run
     secured : BOOLEAN,        \* the peer has finished the TLS handshake (history)
     postTimer : Timer,
     shutdown : Result,        \* async_shutdown of the socket
     downTimer : Timer,
     inits : Nat,              \* calls of handle_transport_init (history)
     told : Nat]               \* calls of the fail or close handler (history)

\* on_tls_init reads the files anew each time and makes a context without them if it cannot.
on_tls_init == files

\* tls.hpp's init_asio; a plain socket has no context.
HasContext == tls /\ on_tls_init

\* create_connection. It cannot fail here: the transport's init, which it calls, asks on_tls_init,
\* and that returns a context whatever goes wrong (WSThread_tls.cpp:250), so that start_accept never
\* sees con_creation_failed (server_endpoint.hpp:130), which would end the accept loop.
create_connection ==
    [state |-> "connecting", istate |-> "USER_INIT", context |-> HasContext,
     handshake |-> "none", secured |-> FALSE, postTimer |-> "none",
     shutdown |-> "none", downTimer |-> "none", inits |-> 0, told |-> 0]

ListenerInit ==
    /\ tls \in Secure /\ files \in BOOLEAN
    /\ thread = "init" /\ m_state = "UNINITIALIZED"
    /\ stopped = FALSE /\ crashed = FALSE
    /\ waiting = {} /\ conns = <<>>

-------------------------------------------------------------------------------
(* What the handlers do to a connection. *)

set_timer == "armed"
Cancelled(timer) == IF timer = "armed" THEN "cancelled" ELSE timer
RanOut(timer) == timer \in {"due", "done"}
Cancel(result) == IF result = "pending" THEN "aborted" ELSE result

handle_terminate(c) == [c EXCEPT !.told = @ + 1]

\* A shutdown that was aborted, or whose time is over, leaves the callback to the timer.
handle_async_shutdown(c, aborted) ==
    IF aborted \/ RanOut(c.downTimer) THEN c
    ELSE handle_terminate([c EXCEPT !.downTimer = Cancelled(@)])

\* The two sockets' async_shutdown: without TLS the socket is shut down at once.
tls_async_shutdown(c) == [c EXCEPT !.shutdown = "pending"]
plain_async_shutdown(c) == handle_async_shutdown(c, FALSE)

\* Mutant of async_shutdown: a secure shutdown that may take for ever.
ShutdownUntimed(c) ==
    IF tls THEN tls_async_shutdown(c) ELSE plain_async_shutdown([c EXCEPT !.downTimer = set_timer])

async_shutdown(c) ==
    LET timed == [c EXCEPT !.downTimer = set_timer]
    IN IF tls THEN tls_async_shutdown(timed) ELSE plain_async_shutdown(timed)

terminate(c) == IF c.state = "closed" THEN c ELSE async_shutdown([c EXCEPT !.state = "closed"])

handle_transport_init(c, ok) ==
    LET called == [c EXCEPT !.inits = @ + 1]
    IN IF c.istate = "TRANSPORT_INIT" /\ ok
       THEN [called EXCEPT !.istate = "READ_HTTP_REQUEST"]
       ELSE terminate(called)

\* Mutant of handle_post_init: it does not look at the clock.
PostInitWhenever(c, ok) == handle_transport_init([c EXCEPT !.postTimer = Cancelled(@)], ok)

\* When the time is over the callback is the timer's.
handle_post_init(c, ok) ==
    IF RanOut(c.postTimer) THEN c
    ELSE handle_transport_init([c EXCEPT !.postTimer = Cancelled(@)], ok)

\* The two sockets' post_init: the handshake of TLS, or nothing.
tls_post_init(c) == [c EXCEPT !.handshake = "pending"]
plain_post_init(c) == handle_post_init(c, TRUE)

post_init(c) ==
    LET timed == [c EXCEPT !.postTimer = set_timer]
    IN IF tls THEN tls_post_init(timed) ELSE plain_post_init(timed)

\* init and handle_pre_init: pre_init has nothing to do and there is no proxy.
init(c) == post_init(c)

start(c) ==
    IF c.istate # "USER_INIT" THEN terminate(c)
    ELSE init([c EXCEPT !.istate = "TRANSPORT_INIT"])

-------------------------------------------------------------------------------
(* The server thread, until it runs the io_service. *)

init_asio ==
    /\ thread = "init"
    /\ m_state' = "READY"
    /\ thread' = "listen"
    /\ UNCHANGED <<tls, files, stopped, crashed, waiting, conns>>

\* The acceptor is closed, and the exception ends the thread with setFalsedConnectionStatus.
clean_up_listen_after_error == UNCHANGED m_state /\ thread' = "failed"

\* Any of its calls may fail.
listen ==
    /\ thread = "listen"
    /\ \/ m_state' = "LISTENING" /\ thread' = "accept"
       \/ clean_up_listen_after_error
    /\ UNCHANGED <<tls, files, stopped, crashed, waiting, conns>>

\* Connection i waits besides the others.
async_accept(i, besides) == waiting' = besides \cup {i}

\* The first start_accept.
start_accept ==
    /\ thread = "accept" /\ m_state = "LISTENING"
    /\ conns' = <<create_connection>>
    /\ async_accept(1, {})
    /\ thread' = "run"
    /\ UNCHANGED <<tls, files, m_state, stopped, crashed>>

run ==
    /\ thread = "run"
    /\ thread' = IF stopped THEN "ended" ELSE "serving"
    /\ UNCHANGED <<tls, files, m_state, stopped, crashed, waiting, conns>>

\* io_service::run returns when it was told to.
RunReturns ==
    /\ thread = "serving" /\ stopped
    /\ thread' = "ended"
    /\ UNCHANGED <<tls, files, m_state, stopped, crashed, waiting, conns>>

\* stop, called by the device's thread once the constructor has started the server thread.
stop ==
    /\ ~stopped
    /\ IF m_state = "UNINITIALIZED" THEN crashed' = TRUE /\ UNCHANGED stopped
       ELSE stopped' = TRUE /\ UNCHANGED crashed
    /\ UNCHANGED <<tls, files, thread, m_state, waiting, conns>>

-------------------------------------------------------------------------------
(* The handlers of the io_service. *)

Serving == thread = "serving" /\ ~stopped

others == <<tls, thread, m_state, stopped, crashed>>

\* Connection i becomes c.
Becomes(i, c) ==
    /\ conns' = [conns EXCEPT ![i] = c]
    /\ UNCHANGED <<others, files, waiting>>

\* Mutant of handle_accept: an error ends the loop.
AcceptGivesUp(i, error) ==
    /\ Serving
    /\ i \in waiting
    /\ Len(conns) < MaxCon
    /\ IF error
       THEN conns' = [conns EXCEPT ![i] = terminate(@)] /\ waiting' = waiting \ {i}
       ELSE /\ conns' = Append([conns EXCEPT ![i] = start(@)], create_connection)
            /\ async_accept(Len(conns) + 1, waiting \ {i})
    /\ UNCHANGED <<others, files>>

\* handle_accept of both endpoints: the connection starts or ends, and the next one waits.
handle_accept(i, error) ==
    /\ Serving
    /\ i \in waiting
    /\ Len(conns) < MaxCon
    /\ conns' = Append([conns EXCEPT ![i] = IF error THEN terminate(@) ELSE start(@)],
                       create_connection)
    /\ async_accept(Len(conns) + 1, waiting \ {i})
    /\ UNCHANGED <<others, files>>

\* handle_init of tls.hpp, and handle_post_init; an abort is a failure like any other.
handle_init(i) ==
    /\ Serving
    /\ conns[i].handshake \in {"ok", "failed", "aborted"}
    /\ Becomes(i, handle_post_init([conns[i] EXCEPT !.handshake = "done"], conns[i].handshake = "ok"))

handle_post_init_timeout(i) ==
    /\ Serving
    /\ conns[i].postTimer = "due"
    /\ Becomes(i, handle_transport_init(
          [conns[i] EXCEPT !.postTimer = "done", !.handshake = Cancel(@)], FALSE))

HandleShutdown(i) ==
    /\ Serving
    /\ conns[i].shutdown \in {"ok", "aborted"}
    /\ Becomes(i, handle_async_shutdown(
          [conns[i] EXCEPT !.shutdown = "done"], conns[i].shutdown = "aborted"))

handle_async_shutdown_timeout(i) ==
    /\ Serving
    /\ conns[i].downTimer = "due"
    /\ Becomes(i, handle_terminate([conns[i] EXCEPT !.downTimer = "done", !.shutdown = Cancel(@)]))

\* What module Connection has it do: the handshake completes, or anything ends it.
GoesOpen(i) ==
    /\ Serving
    /\ conns[i].istate = "READ_HTTP_REQUEST" /\ conns[i].state = "connecting"
    /\ Becomes(i, [conns[i] EXCEPT !.state = "open"])

Ends(i) ==
    /\ Serving
    /\ conns[i].istate = "READ_HTTP_REQUEST" /\ conns[i].state # "closed"
    /\ Becomes(i, terminate(conns[i]))

-------------------------------------------------------------------------------
(* The peers, the clock and the files. *)

\* A handshake succeeds only with a certificate.
PeerShakes(i, ok) ==
    /\ conns[i].handshake = "pending"
    /\ ok => conns[i].context
    /\ Becomes(i, [conns[i] EXCEPT !.handshake = IF ok THEN "ok" ELSE "failed", !.secured = ok])

\* close_notify is answered, or the socket fails: either way the callback has its turn.
PeerShutsDown(i) ==
    /\ conns[i].shutdown = "pending"
    /\ Becomes(i, [conns[i] EXCEPT !.shutdown = "ok"])

PostTimerRunsOut(i) ==
    /\ conns[i].postTimer = "armed"
    /\ Becomes(i, [conns[i] EXCEPT !.postTimer = "due"])

DownTimerRunsOut(i) ==
    /\ conns[i].downTimer = "armed"
    /\ Becomes(i, [conns[i] EXCEPT !.downTimer = "due"])

FilesChange ==
    /\ files' = ~files
    /\ UNCHANGED <<others, waiting, conns>>

Handlers(i) ==
    \/ handle_init(i) \/ handle_post_init_timeout(i)
    \/ HandleShutdown(i) \/ handle_async_shutdown_timeout(i)

Clock(i) == PostTimerRunsOut(i) \/ DownTimerRunsOut(i)

Thread == init_asio \/ listen \/ start_accept \/ run \/ RunReturns

ListenerNext ==
    /\ ~crashed
    /\ \/ Thread \/ stop \/ FilesChange
       \/ \E i \in DOMAIN conns :
             \/ Handlers(i) \/ Clock(i) \/ GoesOpen(i) \/ Ends(i)
             \/ \E flag \in BOOLEAN : handle_accept(i, flag) \/ PeerShakes(i, flag)
             \/ PeerShutsDown(i)

\* Time passes and the io_service runs what is queued; peers owe nothing.
ListenerFairness ==
    \A i \in 1..MaxCon :
        /\ WF_listenerVars(i \in DOMAIN conns /\ handle_init(i))
        /\ WF_listenerVars(i \in DOMAIN conns /\ handle_post_init_timeout(i))
        /\ WF_listenerVars(i \in DOMAIN conns /\ HandleShutdown(i))
        /\ WF_listenerVars(i \in DOMAIN conns /\ handle_async_shutdown_timeout(i))
        /\ WF_listenerVars(i \in DOMAIN conns /\ PostTimerRunsOut(i))
        /\ WF_listenerVars(i \in DOMAIN conns /\ DownTimerRunsOut(i))

ListenerSpec == ListenerInit /\ [][ListenerNext]_listenerVars /\ ListenerFairness

-------------------------------------------------------------------------------
(* Properties. *)

ListenerTypeOK ==
    /\ tls \in BOOLEAN /\ files \in BOOLEAN /\ stopped \in BOOLEAN /\ crashed \in BOOLEAN
    /\ thread \in {"init", "listen", "accept", "run", "serving", "ended", "failed"}
    /\ m_state \in {"UNINITIALIZED", "READY", "LISTENING"}
    /\ waiting \subseteq DOMAIN conns
    /\ conns \in Seq(Connection)

\* However connections fail, the server goes on accepting, with one connection at a time:
\* each of the others was started or is at its end.
AcceptArmed ==
    thread = "serving" =>
        /\ m_state = "LISTENING"
        /\ \E i \in DOMAIN conns : waiting = {i}
        /\ \A i \in DOMAIN conns \ waiting :
              conns[i].istate # "USER_INIT" \/ conns[i].state = "closed"

\* However a handshake or a shutdown races its timer, the connection hears of the one once and
\* the application of the other once, each has somebody left to say so until then, and no
\* connection is read before its peer is secured or after its end was decided.
CallbacksOnce ==
    \A i \in DOMAIN conns :
        LET c == conns[i]
        IN /\ c.inits <= 1 /\ c.told <= 1
           /\ c.istate = "TRANSPORT_INIT" /\ c.inits = 0 =>
                 c.handshake \notin {"none", "done"} \/ c.postTimer \in {"armed", "due"}
           /\ c.state = "closed" /\ c.told = 0 =>
                 (c.shutdown = "ok" /\ c.downTimer = "armed") \/ c.downTimer \in {"armed", "due"}
           /\ c.istate = "READ_HTTP_REQUEST" => (tls => c.secured) /\ c.postTimer = "cancelled"
           /\ c.told = 1 => c.state = "closed" /\ c.downTimer \in {"cancelled", "done"}

Starting(i) == i \in DOMAIN conns /\ conns[i].istate = "TRANSPORT_INIT"
Read(i) == i \in DOMAIN conns /\ conns[i].istate = "READ_HTTP_REQUEST"
Closed(i) == i \in DOMAIN conns /\ conns[i].state = "closed"
Told(i) == i \in DOMAIN conns /\ conns[i].told = 1

\* A peer that is silent, in the handshake of TLS or in its shutdown, is got rid of: each
\* connection that was started is read or ends, and the application is told of each end,
\* unless the server is stopped.
TransportEnds ==
    \A i \in 1..MaxCon :
        /\ Starting(i) ~> (stopped \/ crashed \/ Read(i) \/ Told(i))
        /\ Closed(i) ~> (stopped \/ crashed \/ Told(i))

===============================================================================
