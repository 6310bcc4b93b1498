----------------------------- MODULE Connection -----------------------------
(***************************************************************************)
(* websocketpp::connection in the server role, with the asio transport     *)
(* under it (impl/connection_impl.hpp, transport/asio/connection.hpp): the *)
(* handshake and its timer, the send queue, the closing handshake and its  *)
(* timer, and the end of the connection with the handler WSThread is told  *)
(* it by.                                                                  *)
(*                                                                         *)
(* Every handler runs on the one thread of io_service::run, so an action   *)
(* of that thread is a whole handler.  send and close may be called by any *)
(* thread: by the handlers of WSThread on asio's own thread (Asio), and by *)
(* the request thread and Tango's threads (Caller).  close holds           *)
(* m_connection_state_lock from its test of m_state to its end, send only  *)
(* during the test, and terminate, process_control_frame and               *)
(* send_close_ack do not take it at all.                                   *)
(*                                                                         *)
(* Contents are left out.  A frame is "data" (a message or a pong), "close"*)
(* (a close frame after which the peer's answer is awaited) or "terminal"  *)
(* (a close frame after which the transport is shut down).                 *)
(***************************************************************************)
EXTENDS Integers, Sequences, FiniteSets

CONSTANTS
    Caller,     \* the threads other than asio's that call send and close
    Asio,       \* asio's thread as a caller of send and close
    MaxPush,    \* bound: frames pushed on the send queue by send and pong
    MaxClose    \* bound: close frames made

ASSUME ConnectionAssumption ==
    /\ Asio \notin Caller
    /\ MaxPush \in Nat
    /\ MaxClose \in Nat

VARIABLES
    state,        \* m_state
    istate,       \* m_internal_state
    op,           \* what the chain of reads waits for, or "handler" while one runs
    response,     \* the response of the handshake
    wasClean,     \* m_was_clean
    call,         \* where each thread is within send, close or send_close_ack
    sends,        \* number of data frames pushed
    closes,       \* number of close frames made
    queue,        \* m_send_queue
    current,      \* m_current_msgs: the frames of the transport write under way
    writeFlag,    \* m_write_flag
    posted,       \* number of write_frame tasks posted to the strand
    wire,         \* history: every frame handed to the transport, in order
    timer,        \* m_handshake_timer: 0 for the open timer, n for the nth close timer
    armed,        \* the timers still running
    due,          \* the timers that ran out, whose handler is queued: cancel misses them
    terminating,  \* handle_terminate calls under way, by terminate_status
    told,         \* number of calls of WSThread's open, fail and close handlers
    overtaken     \* history: terminate ran while another thread was inside close

vars == <<state, istate, op, response, wasClean, call, sends, closes, queue, current,
          writeFlag, posted, wire, timer, armed, due, terminating, told, overtaken>>

handshake == <<istate, response>>
output == <<sends, queue, current, writeFlag, posted, wire>>

NoTimer == -1
User == Caller \cup {Asio}
Frame == {"data", "close", "terminal"}
InClose == {"close", "terminal"}         \* calls that hold m_connection_state_lock
MakesClose == InClose \cup {"ack"}

TypeOK ==
    /\ state \in {"connecting", "open", "closing", "closed"}
    /\ istate \in {"USER_INIT", "TRANSPORT_INIT", "READ_HTTP_REQUEST",
                   "PROCESS_HTTP_REQUEST", "PROCESS_CONNECTION"}
    /\ op \in {"none", "init", "readHttp", "writeHttp", "handler", "read"}
    /\ response \in {"none", "switching", "refused"}
    /\ wasClean \in BOOLEAN
    /\ call \in [User -> {"idle", "send"} \cup MakesClose]
    /\ sends \in Nat
    /\ closes \in Nat
    /\ queue \in Seq(Frame)
    /\ current \in Seq(Frame)
    /\ writeFlag \in BOOLEAN
    /\ posted \in Nat
    /\ wire \in Seq(Frame)
    /\ timer \in Nat \cup {NoTimer}
    /\ armed \subseteq Nat
    /\ due \subseteq Nat
    /\ terminating \in [{"failed", "closed"} -> Nat]
    /\ told \in [{"open", "fail", "close"} -> Nat]
    /\ overtaken \in BOOLEAN

Init ==
    /\ state = "connecting"
    /\ istate = "USER_INIT"
    /\ op = "none"
    /\ response = "none"
    /\ wasClean = FALSE
    /\ call = [u \in User |-> "idle"]
    /\ sends = 0
    /\ closes = 0
    /\ queue = <<>>
    /\ current = <<>>
    /\ writeFlag = FALSE
    /\ posted = 0
    /\ wire = <<>>
    /\ timer = NoTimer
    /\ armed = {}
    /\ due = {}
    /\ terminating = [t \in {"failed", "closed"} |-> 0]
    /\ told = [h \in {"open", "fail", "close"} |-> 0]
    /\ overtaken = FALSE

-----------------------------------------------------------------------------
\* No thread is inside close: m_connection_state_lock can be taken.
LockFree == \A u \in User : call[u] \notin InClose

\* Mutant of Terminate: no test for a connection that was terminated already.
TerminateAgain ==
    /\ timer' = NoTimer
    /\ armed' = armed \ {timer}
    /\ state' = "closed"
    /\ terminating' = [terminating EXCEPT
           ![IF state = "connecting" THEN "failed" ELSE "closed"] = @ + 1]
    /\ overtaken' = (overtaken \/ (state # "closed" /\ ~LockFree))
    /\ UNCHANGED <<handshake, closes, told>>

\* terminate; the error it is given goes to the log only.  One of its calls gets past the
\* test of m_state, unless another thread's close sets m_state again after its end.
Terminate ==
    /\ timer' = NoTimer
    /\ armed' = armed \ {timer}
    /\ state' = "closed"
    /\ terminating' = IF state = "closed" THEN terminating
                      ELSE [terminating EXCEPT
                               ![IF state = "connecting" THEN "failed" ELSE "closed"] = @ + 1]
    /\ overtaken' = (overtaken \/ (state # "closed" /\ ~LockFree))
    /\ UNCHANGED <<handshake, closes, told>>

\* write_push, and the write_frame task its caller posts when no write is under way.
Push(f) ==
    /\ queue' = Append(queue, f)
    /\ posted' = IF writeFlag THEN posted ELSE posted + 1
    /\ UNCHANGED <<current, writeFlag, wire>>

\* Mutant of SendCloseFrame: no timer for the peer's answer.
SendCloseFrameUntimed(f, ack) ==
    /\ state' = "closing"
    /\ wasClean' = (wasClean \/ ack)
    /\ closes' = closes + 1
    /\ Push(f)
    /\ UNCHANGED <<handshake, sends, timer, armed, due, terminating, told, overtaken>>

\* send_close_frame; the timer it replaces is not cancelled.
SendCloseFrame(f, ack) ==
    /\ state' = "closing"
    /\ wasClean' = (wasClean \/ ack)
    /\ closes' = closes + 1
    /\ timer' = closes + 1
    /\ armed' = armed \cup {closes + 1}
    /\ Push(f)
    /\ UNCHANGED <<handshake, sends, due, terminating, told, overtaken>>

-----------------------------------------------------------------------------
(* The opening handshake. *)

Start ==
    /\ istate = "USER_INIT"
    /\ istate' = "TRANSPORT_INIT"
    /\ op' = "init"
    /\ UNCHANGED <<state, response, wasClean, call, closes, output, timer, armed, due,
                   terminating, told, overtaken>>

\* Mutant of HandleTransportInit: no open timer.
HandleTransportInitUntimed ==
    /\ op = "init"
    /\ istate' = "READ_HTTP_REQUEST"
    /\ op' = "readHttp"
    /\ UNCHANGED <<state, response, wasClean, call, closes, output, timer, armed, due,
                   terminating, told, overtaken>>

\* read_handshake sets the open timer before the first read.
HandleTransportInit ==
    /\ op = "init"
    /\ istate' = "READ_HTTP_REQUEST"
    /\ op' = "readHttp"
    /\ timer' = 0
    /\ armed' = armed \cup {0}
    /\ UNCHANGED <<state, response, wasClean, call, closes, output, due,
                   terminating, told, overtaken>>

TransportInitFails ==
    /\ op = "init"
    /\ op' = "none"
    /\ Terminate
    /\ UNCHANGED <<wasClean, call, output, due>>

\* The handlers of the handshake do nothing more on a connection that was closed
\* meanwhile, usually by the open timer.
ClosedMeanwhile ==
    /\ op \in {"readHttp", "writeHttp"}
    /\ state = "closed"
    /\ op' = "none"
    /\ UNCHANGED <<state, handshake, wasClean, call, closes, output, timer, armed, due,
                   terminating, told, overtaken>>

HandshakeReadFails ==
    /\ op = "readHttp"
    /\ op' = "none"
    /\ Terminate
    /\ UNCHANGED <<wasClean, call, output, due>>

\* The request is complete (until then the handler reads again): a WebSocket request the
\* validate handler accepts, or one that is malformed, rejected or plain HTTP, for which
\* WSThread has no handler.
HandleReadHandshake ==
    /\ op = "readHttp"
    /\ state = "connecting"
    /\ istate = "READ_HTTP_REQUEST"
    /\ istate' = "PROCESS_HTTP_REQUEST"
    /\ response' \in {"switching", "refused"}
    /\ op' = "writeHttp"
    /\ UNCHANGED <<state, wasClean, call, closes, output, timer, armed, due,
                   terminating, told, overtaken>>

HandshakeWriteFails ==
    /\ op = "writeHttp"
    /\ op' = "none"
    /\ Terminate
    /\ UNCHANGED <<wasClean, call, output, due>>

\* Mutant of Opens: the state is not looked at again after the write.
OpensUnchecked ==
    /\ op = "writeHttp"
    /\ istate = "PROCESS_HTTP_REQUEST"
    /\ response = "switching"
    /\ timer' = NoTimer
    /\ armed' = armed \ {timer}
    /\ istate' = "PROCESS_CONNECTION"
    /\ state' = "open"
    /\ told' = [told EXCEPT !["open"] = @ + 1]
    /\ op' = "handler"
    /\ UNCHANGED <<response, wasClean, call, closes, output, due, terminating, overtaken>>

\* The response that opens the connection was written: the open handler runs, and the
\* frames that came with the request are read next.
Opens ==
    /\ op = "writeHttp"
    /\ state = "connecting"
    /\ istate = "PROCESS_HTTP_REQUEST"
    /\ response = "switching"
    /\ timer' = NoTimer
    /\ armed' = armed \ {timer}
    /\ istate' = "PROCESS_CONNECTION"
    /\ state' = "open"
    /\ told' = [told EXCEPT !["open"] = @ + 1]
    /\ op' = "handler"
    /\ UNCHANGED <<response, wasClean, call, closes, output, due, terminating, overtaken>>

Refused ==
    /\ op = "writeHttp"
    /\ state = "connecting"
    /\ istate = "PROCESS_HTTP_REQUEST"
    /\ response # "switching"
    /\ op' = "none"
    /\ Terminate
    /\ UNCHANGED <<wasClean, call, output, due>>

-----------------------------------------------------------------------------
(* Reading frames. *)

\* The end of the stream on a closed connection is expected, any other end terminates.
ReadFails ==
    /\ op = "read"
    /\ op' = "none"
    /\ \/ /\ state = "closed"
          /\ UNCHANGED <<state, handshake, closes, timer, armed, terminating, told, overtaken>>
       \/ Terminate
    /\ UNCHANGED <<wasClean, call, output, due>>

\* A message for the message handler; while closing it is dropped.
ReadData ==
    /\ op = "read"
    /\ state = "open"
    /\ op' = "handler"
    /\ UNCHANGED <<state, handshake, wasClean, call, closes, output, timer, armed, due,
                   terminating, told, overtaken>>

\* A ping is answered by pong, which tests the state as send does.
ReadPing ==
    /\ op = "read"
    /\ state = "open"
    /\ LockFree
    /\ sends < MaxPush
    /\ op' = "handler"
    /\ call' = [call EXCEPT ![Asio] = "send"]
    /\ sends' = sends + 1
    /\ UNCHANGED <<state, handshake, wasClean, closes, queue, current, writeFlag, posted,
                   wire, timer, armed, due, terminating, told, overtaken>>

\* Close frames that can still be made.
Room == closes + Cardinality({u \in User : call[u] \in MakesClose}) < MaxClose

\* A close frame while open, or one with an invalid code or reason at any time before
\* the end, is acknowledged; process_control_frame takes no lock.
ReadClose ==
    /\ op = "read"
    /\ state \in {"open", "closing"}
    /\ Room
    /\ op' = "handler"
    /\ call' = [call EXCEPT ![Asio] = "ack"]
    /\ UNCHANGED <<state, handshake, wasClean, closes, output, timer, armed, due,
                   terminating, told, overtaken>>

\* The peer's answer to the close frame of this side.
ReadCloseAck ==
    /\ op = "read"
    /\ state = "closing"
    /\ ~wasClean
    /\ wasClean' = TRUE
    /\ Terminate
    /\ UNCHANGED <<op, call, output, due>>

\* Bytes that are no frame: close with a terminal code, or the end when close refuses;
\* either way nothing is read any more.
ReadGarbage ==
    /\ op = "read"
    /\ LockFree
    /\ op' = "none"
    /\ IF state = "open"
       THEN /\ closes < MaxClose
            /\ SendCloseFrame("terminal", FALSE)
            /\ UNCHANGED call
       ELSE /\ Terminate
            /\ UNCHANGED <<wasClean, call, output, due>>

\* The handler of a message or a frame returns and read_frame issues the next read.
HandlerReturns ==
    /\ op = "handler"
    /\ call[Asio] = "idle"
    /\ op' = "read"
    /\ UNCHANGED <<state, handshake, wasClean, call, closes, output, timer, armed, due,
                   terminating, told, overtaken>>

-----------------------------------------------------------------------------
(* send and close, from any thread; asio's calls them from a handler. *)

MayCall(u) == call[u] = "idle" /\ (u = Asio => op = "handler")

\* send finds the connection open and gives the lock back.
SendCheck(u) ==
    /\ MayCall(u)
    /\ LockFree
    /\ state = "open"
    /\ sends < MaxPush
    /\ call' = [call EXCEPT ![u] = "send"]
    /\ sends' = sends + 1
    /\ UNCHANGED <<state, handshake, op, wasClean, closes, queue, current, writeFlag,
                   posted, wire, timer, armed, due, terminating, told, overtaken>>

SendPush(u) ==
    /\ call[u] = "send"
    /\ call' = [call EXCEPT ![u] = "idle"]
    /\ Push("data")
    /\ UNCHANGED <<state, handshake, op, wasClean, sends, closes, timer, armed, due,
                   terminating, told, overtaken>>

\* close finds the connection open and keeps the lock; the codes WSThread passes are
\* going_away and, after a failed send, the terminal internal_endpoint_error.
CloseCheck(u) ==
    /\ MayCall(u)
    /\ LockFree
    /\ state = "open"
    /\ Room
    /\ \E f \in InClose : call' = [call EXCEPT ![u] = f]
    /\ UNCHANGED <<state, handshake, op, wasClean, closes, output, timer, armed, due,
                   terminating, told, overtaken>>

\* The rest of close, or send_close_ack; a server's acknowledgement is terminal.
CloseFrame(u) ==
    /\ call[u] \in MakesClose
    /\ call' = [call EXCEPT ![u] = "idle"]
    /\ SendCloseFrame(IF call[u] = "close" THEN "close" ELSE "terminal", call[u] = "ack")
    /\ UNCHANGED op

-----------------------------------------------------------------------------
(* Writing frames. *)

\* Mutant of BatchEnds: one write takes the whole queue.
QueueEnds(q, n) == n = Len(q)

\* One write takes the queue up to and with the first terminal frame.
BatchEnds(q, n) ==
    /\ q[n] = "terminal" \/ n = Len(q)
    /\ \A i \in 1..(n - 1) : q[i] # "terminal"

WriteFrame ==
    /\ posted > 0
    /\ op # "handler"
    /\ posted' = posted - 1
    /\ IF writeFlag \/ queue = <<>>
       THEN UNCHANGED <<queue, current, writeFlag, wire>>
       ELSE \E n \in 1..Len(queue) :
                /\ BatchEnds(queue, n)
                /\ current' = SubSeq(queue, 1, n)
                /\ queue' = SubSeq(queue, n + 1, Len(queue))
                /\ wire' = wire \o current'
                /\ writeFlag' = TRUE
    /\ UNCHANGED <<state, handshake, op, wasClean, call, sends, closes, timer, armed, due,
                   terminating, told, overtaken>>

\* handle_write_frame.  A failed write and a terminal frame end the connection and keep
\* m_write_flag set, so that nothing is written any more.
WriteEnds ==
    /\ current # <<>>
    /\ op # "handler"
    /\ current' = <<>>
    /\ \/ Terminate
       \/ /\ current[Len(current)] = "terminal"
          /\ Terminate
    /\ UNCHANGED <<op, wasClean, call, sends, queue, writeFlag, posted, wire, due>>

\* Mutant of HandleWriteFrame: what was pushed meanwhile is not looked for.
HandleWriteFrameOnly ==
    /\ current # <<>>
    /\ op # "handler"
    /\ current[Len(current)] # "terminal"
    /\ current' = <<>>
    /\ writeFlag' = FALSE
    /\ UNCHANGED <<state, handshake, op, wasClean, call, sends, closes, queue, posted, wire,
                   timer, armed, due, terminating, told, overtaken>>

HandleWriteFrame ==
    /\ current # <<>>
    /\ op # "handler"
    /\ current[Len(current)] # "terminal"
    /\ current' = <<>>
    /\ writeFlag' = FALSE
    /\ posted' = IF queue = <<>> THEN posted ELSE posted + 1
    /\ UNCHANGED <<state, handshake, op, wasClean, call, sends, closes, queue, wire, timer,
                   armed, due, terminating, told, overtaken>>

-----------------------------------------------------------------------------
(* Timers and the end. *)

Expire(n) ==
    /\ n \in armed
    /\ armed' = armed \ {n}
    /\ due' = due \cup {n}
    /\ UNCHANGED <<state, handshake, op, wasClean, call, closes, output, timer,
                   terminating, told, overtaken>>

\* handle_open_handshake_timeout and handle_close_handshake_timeout do not ask what has
\* become of the connection since the timer ran out.
HandleTimeout(n) ==
    /\ n \in due
    /\ op # "handler"
    /\ due' = due \ {n}
    /\ Terminate
    /\ UNCHANGED <<op, wasClean, call, output>>

\* Mutant of HandleTerminate: the shutdown and its timer both call it.
HandleTerminateAgain(t) ==
    /\ state = "closed"
    /\ op # "handler"
    /\ terminating' = [terminating EXCEPT ![t] = @ - 1]
    /\ told' = [told EXCEPT ![IF t = "closed" THEN "close" ELSE "fail"] = @ + 1]
    /\ UNCHANGED <<state, handshake, op, wasClean, call, closes, output, timer, armed, due,
                   overtaken>>

\* handle_terminate, once the transport was shut down or the shutdown timed out.
HandleTerminate(t) ==
    /\ terminating[t] > 0
    /\ op # "handler"
    /\ terminating' = [terminating EXCEPT ![t] = @ - 1]
    /\ told' = [told EXCEPT ![IF t = "closed" THEN "close" ELSE "fail"] = @ + 1]
    /\ UNCHANGED <<state, handshake, op, wasClean, call, closes, output, timer, armed, due,
                   overtaken>>

-----------------------------------------------------------------------------
Timers == 0..MaxClose

Next ==
    \/ Start
    \/ HandleTransportInit
    \/ TransportInitFails
    \/ ClosedMeanwhile
    \/ HandshakeReadFails
    \/ HandleReadHandshake
    \/ HandshakeWriteFails
    \/ Opens
    \/ Refused
    \/ ReadFails
    \/ ReadData
    \/ ReadPing
    \/ ReadClose
    \/ ReadCloseAck
    \/ ReadGarbage
    \/ HandlerReturns
    \/ \E u \in User : SendCheck(u)
    \/ \E u \in User : SendPush(u)
    \/ \E u \in User : CloseCheck(u)
    \/ \E u \in User : CloseFrame(u)
    \/ WriteFrame
    \/ WriteEnds
    \/ HandleWriteFrame
    \/ \E n \in Timers : Expire(n)
    \/ \E n \in Timers : HandleTimeout(n)
    \/ \E t \in {"failed", "closed"} : HandleTerminate(t)

Spec == Init /\ [][Next]_vars

\* What runs in the end: the transport's initialisation (post_init has a timer of its
\* own), the timers, the handlers asio has queued, a shutdown (also timed), and a thread
\* inside send or close.  Neither the peer nor a transport write need ever finish.
Fairness ==
    /\ WF_vars(HandleTransportInit \/ TransportInitFails)
    /\ WF_vars(HandlerReturns)
    /\ \A u \in User : WF_vars(SendPush(u)) /\ WF_vars(CloseFrame(u))
    /\ \A n \in Timers : WF_vars(Expire(n)) /\ WF_vars(HandleTimeout(n))
    /\ \A t \in {"failed", "closed"} : WF_vars(HandleTerminate(t))

FairSpec == Spec /\ Fairness

-----------------------------------------------------------------------------
\* The calls of the close handler made and under way.
Closes == told["close"] + terminating["closed"]

\* WSThread hears of a connection by the open handler and then once by the close handler,
\* or at most once by the fail handler (connection.hpp:66, :76), although eof, failed
\* writes, protocol errors, both closing handshakes and stale timers all end it.  The
\* exception is a terminate that overtakes a close of another thread, which reopens the
\* state after its end.
HandlersOnce ==
    /\ told["open"] + told["fail"] + terminating["failed"] <= 1
    /\ Closes <= told["open"]  \/  overtaken
    /\ Closes > 0 => told["open"] = 1

\* A terminal close frame is the last thing this side writes, whatever was queued behind
\* it and whatever the threads send while it is written.
NothingAfterTerminal ==
    \A i \in 1..Len(wire) : wire[i] = "terminal" => i = Len(wire)

\* A frame on the send queue has somebody who will write it: the write under way, whose
\* handler looks at the queue, or a posted write_frame; the flag is tested by the threads
\* and cleared by asio's.
NoFrameStuck == queue # <<>> => writeFlag \/ posted > 0

\* A connection only goes on from connecting to open, closing and closed; in particular
\* the handlers of the handshake do not open what the open timer has closed.
Rank == [connecting |-> 0, open |-> 1, closing |-> 2, closed |-> 3]

NeverReopened == [][Rank[state'] >= Rank[state] \/ overtaken]_state

\* Every connection that was started is reported open or failed, even if the peer never
\* sends its request or never takes the response: the open timer. A closing one ends with
\* the close handler, even if the peer never answers and no write ever finishes: the close
\* timer. WSThread drops a client only there.
EndsTold ==
    /\ (istate # "USER_INIT") ~> (told["open"] + told["fail"] > 0)
    /\ (state = "closing") ~> (told["close"] > 0)

=============================================================================
