--------------------------- MODULE EndpointProofs ---------------------------
(***************************************************************************)
(* Theorems about the connections of a websocketpp server.                 *)
(*                                                                         *)
(* Connection, for any set of threads that call send and close and any     *)
(* number of frames.  The types are proved in three parts (Flags, Output,  *)
(* Control), each by a lemma on the operators the actions share            *)
(* (Terminate, Push, SendCloseFrame) and a step per action.  Then come two *)
(* inductive invariants: what holds of the write flag and the wire         *)
(* (Writing), and what m_state says about the handlers called so far       *)
(* (StateTold, CallsOpened).                                               *)
(*                                                                         *)
(* Listener, for any number of connections, plain and TLS: the accept loop *)
(* goes on, and each connection and the application are called once,       *)
(* whoever wins the races of handshake, shutdown and timers (Front, Back). *)
(***************************************************************************)
EXTENDS Connection, Listener, TLAPS

Flags == wasClean \in BOOLEAN /\ writeFlag \in BOOLEAN /\ overtaken \in BOOLEAN

OutputTyped ==
    /\ sends \in Nat
    /\ queue \in Seq(Frame)
    /\ current \in Seq(Frame)
    /\ posted \in Nat
    /\ wire \in Seq(Frame)

ControlTyped ==
    /\ state \in {"connecting", "open", "closing", "closed"}
    /\ istate \in {"USER_INIT", "TRANSPORT_INIT", "READ_HTTP_REQUEST",
                   "PROCESS_HTTP_REQUEST", "PROCESS_CONNECTION"}
    /\ op \in {"none", "init", "readHttp", "writeHttp", "handler", "read"}
    /\ response \in {"none", "switching", "refused"}
    /\ call \in [User -> {"idle", "send"} \cup MakesClose]
    /\ closes \in Nat
    /\ timer \in Nat \cup {NoTimer}
    /\ armed \subseteq Nat
    /\ due \subseteq Nat
    /\ terminating \in [{"failed", "closed"} -> Nat]
    /\ told \in [{"open", "fail", "close"} -> Nat]

LEMMA TypeParts == TypeOK <=> Flags /\ OutputTyped /\ ControlTyped
BY Zenon DEF TypeOK, Flags, OutputTyped, ControlTyped

\* The operators the actions share keep the types of what they change.
LEMMA PushTyped ==
    ASSUME NEW f \in Frame, OutputTyped, Push(f), sends' = sends
    PROVE  OutputTyped'
BY DEF OutputTyped, Push

LEMMA TerminateTyped ==
    ASSUME ControlTyped, Terminate, call' = call, due' \subseteq due,
           op' \in {"none", "init", "readHttp", "writeHttp", "handler", "read"}
    PROVE  ControlTyped'
BY DEF ControlTyped, handshake, Terminate, NoTimer

LEMMA CloseFrameTyped ==
    ASSUME NEW f, NEW ack, ControlTyped, SendCloseFrame(f, ack),
           call' \in [User -> {"idle", "send"} \cup MakesClose],
           op' \in {"none", "init", "readHttp", "writeHttp", "handler", "read"}
    PROVE  ControlTyped'
BY DEF ControlTyped, SendCloseFrame, handshake

\* The steps that neither push nor write.
QuietStep ==
    \/ Start \/ HandleTransportInit \/ TransportInitFails \/ ClosedMeanwhile
    \/ HandshakeReadFails \/ HandleReadHandshake \/ HandshakeWriteFails \/ Opens \/ Refused
    \/ ReadFails \/ ReadData \/ ReadClose \/ ReadCloseAck \/ HandlerReturns
    \/ \E u \in User : CloseCheck(u)
    \/ \E n \in Timers : Expire(n)
    \/ \E n \in Timers : HandleTimeout(n)
    \/ \E t \in {"failed", "closed"} : HandleTerminate(t)
    \/ UNCHANGED vars

LEMMA QuietKeepsOutput == QuietStep => UNCHANGED output
BY DEF QuietStep, Start, HandleTransportInit, TransportInitFails, ClosedMeanwhile,
       HandshakeReadFails, HandleReadHandshake, HandshakeWriteFails, Opens, Refused, ReadFails,
       ReadData, ReadClose, ReadCloseAck, HandlerReturns, CloseCheck, Expire, HandleTimeout,
       HandleTerminate, vars, output

LEMMA OutputKept == OutputTyped /\ [Next]_vars => OutputTyped'
<1> SUFFICES ASSUME OutputTyped, [Next]_vars
             PROVE  OutputTyped'
  OBVIOUS
<1>1. CASE QuietStep
  BY <1>1, QuietKeepsOutput DEF OutputTyped, output
<1>2. CASE ReadPing \/ \E u \in User : SendCheck(u)
  BY <1>2 DEF ReadPing, SendCheck, OutputTyped
<1>3. CASE ReadGarbage
  <2>1. CASE state = "open"
    <3>1. Push("terminal") /\ sends' = sends
      BY <1>3, <2>1 DEF ReadGarbage, SendCloseFrame
    <3> QED
      BY <3>1, PushTyped DEF Frame
  <2>2. CASE state # "open"
    BY <1>3, <2>2 DEF ReadGarbage, output, OutputTyped
  <2> QED
    BY <2>1, <2>2
<1>4. CASE \E u \in User : SendPush(u)
  BY <1>4, PushTyped DEF SendPush, Frame
<1>5. CASE \E u \in User : CloseFrame(u)
  <2>1. PICK u \in User : CloseFrame(u)
    BY <1>5
  <2>2. Push(IF call[u] = "close" THEN "close" ELSE "terminal") /\ sends' = sends
    BY <2>1 DEF CloseFrame, SendCloseFrame
  <2> QED
    BY <2>2, PushTyped DEF Frame
<1>6. CASE WriteFrame
  <2>1. posted' \in Nat /\ sends' = sends
    BY <1>6 DEF WriteFrame, OutputTyped
  <2>2. CASE UNCHANGED <<queue, current, writeFlag, wire>>
    BY <2>1, <2>2 DEF OutputTyped
  <2>3. CASE \E n \in 1..Len(queue) : /\ current' = SubSeq(queue, 1, n)
                                      /\ queue' = SubSeq(queue, n + 1, Len(queue))
                                      /\ wire' = wire \o current'
    <3>1. current' \in Seq(Frame) /\ queue' \in Seq(Frame)
      BY <2>3 DEF OutputTyped
    <3> QED
      BY <2>1, <2>3, <3>1 DEF OutputTyped
  <2> QED
    BY <1>6, <2>2, <2>3 DEF WriteFrame
<1>7. CASE WriteEnds
  BY <1>7 DEF WriteEnds, OutputTyped
<1>8. CASE HandleWriteFrame
  BY <1>8 DEF HandleWriteFrame, OutputTyped
<1> QED
  BY <1>1, <1>2, <1>3, <1>4, <1>5, <1>6, <1>7, <1>8 DEF Next, QuietStep

LEMMA FlagsKept == Flags /\ [Next]_vars => Flags'
<1> SUFFICES ASSUME Flags, [Next]_vars
             PROVE  Flags'
  OBVIOUS
<1> USE DEF Flags
<1>1. CASE QuietStep
  BY <1>1, Zenon
  DEF QuietStep, Start, HandleTransportInit, TransportInitFails, ClosedMeanwhile, output,
      HandshakeReadFails, HandleReadHandshake, HandshakeWriteFails, Opens, Refused, ReadFails,
      ReadData, ReadClose, ReadCloseAck, HandlerReturns, CloseCheck, Expire, HandleTimeout,
      HandleTerminate, vars, Terminate
<1>2. CASE ReadPing \/ (\E u \in User : SendCheck(u))
  BY <1>2 DEF ReadPing, SendCheck
<1>3. CASE ReadGarbage
  BY <1>3 DEF ReadGarbage, SendCloseFrame, Push, Terminate, output
<1>4. CASE \E u \in User : SendPush(u)
  BY <1>4 DEF SendPush, Push
<1>5. CASE \E u \in User : CloseFrame(u)
  BY <1>5 DEF CloseFrame, SendCloseFrame, Push
<1>6. CASE WriteFrame \/ HandleWriteFrame
  BY <1>6 DEF WriteFrame, HandleWriteFrame
<1>7. CASE WriteEnds
  BY <1>7 DEF WriteEnds, Terminate
<1> QED
  BY <1>1, <1>2, <1>3, <1>4, <1>5, <1>6, <1>7 DEF Next, QuietStep

LEMMA ControlKept == ControlTyped /\ [Next]_vars => ControlTyped'
<1> SUFFICES ASSUME ControlTyped, [Next]_vars
             PROVE  ControlTyped'
  OBVIOUS
<1>1. CASE Start \/ ClosedMeanwhile \/ HandleReadHandshake \/ ReadData \/ HandlerReturns
  BY <1>1 DEF Start, ClosedMeanwhile, HandleReadHandshake, ReadData, HandlerReturns,
              ControlTyped, handshake
<1>2. CASE HandleTransportInit
  BY <1>2 DEF HandleTransportInit, ControlTyped
<1>3. CASE TransportInitFails \/ HandshakeReadFails \/ HandshakeWriteFails \/ Refused
  BY <1>3, TerminateTyped DEF TransportInitFails, HandshakeReadFails, HandshakeWriteFails, Refused
<1>4. CASE Opens
  BY <1>4 DEF Opens, ControlTyped
<1>5. CASE ReadFails
  <2>1. CASE Terminate
    BY <1>5, <2>1, TerminateTyped DEF ReadFails
  <2>2. CASE UNCHANGED <<state, handshake, closes, timer, armed, terminating, told, overtaken>>
    BY <1>5, <2>2 DEF ReadFails, ControlTyped, handshake
  <2> QED
    BY <1>5, <2>1, <2>2 DEF ReadFails
<1>6. CASE ReadPing \/ ReadClose
  BY <1>6 DEF ReadPing, ReadClose, ControlTyped, handshake, MakesClose
<1>7. CASE ReadCloseAck \/ WriteEnds
  BY <1>7, TerminateTyped DEF ReadCloseAck, WriteEnds, ControlTyped
<1>8. CASE ReadGarbage
  <2>1. CASE state = "open"
    BY <1>8, <2>1, CloseFrameTyped DEF ReadGarbage, ControlTyped
  <2>2. CASE state # "open"
    BY <1>8, <2>2, TerminateTyped DEF ReadGarbage
  <2> QED
    BY <2>1, <2>2
<1>9. CASE \E u \in User : SendCheck(u) \/ CloseCheck(u)
  BY <1>9 DEF SendCheck, CloseCheck, ControlTyped, handshake, MakesClose
<1>10. CASE \E u \in User : SendPush(u)
  BY <1>10 DEF SendPush, ControlTyped, handshake
<1>11. CASE \E u \in User : CloseFrame(u)
  <2>1. PICK u \in User : CloseFrame(u)
    BY <1>11
  <2>2. call' \in [User -> {"idle", "send"} \cup MakesClose] /\ op' = op
    BY <2>1 DEF CloseFrame, ControlTyped
  <2> QED
    BY <2>1, <2>2, CloseFrameTyped DEF CloseFrame, ControlTyped
<1>12. CASE WriteFrame \/ HandleWriteFrame
  BY <1>12 DEF WriteFrame, HandleWriteFrame, ControlTyped, handshake
<1>13. CASE \E n \in Timers : Expire(n)
  BY <1>13 DEF Expire, ControlTyped, handshake
<1>14. CASE \E n \in Timers : HandleTimeout(n)
  BY <1>14, TerminateTyped DEF HandleTimeout, ControlTyped
<1>15. CASE \E t \in {"failed", "closed"} : HandleTerminate(t)
  BY <1>15 DEF HandleTerminate, ControlTyped, handshake
<1>16. CASE UNCHANGED vars
  BY <1>16 DEF vars, ControlTyped
<1> QED
  BY <1>1, <1>2, <1>3, <1>4, <1>5, <1>6, <1>7, <1>8, <1>9, <1>10, <1>11, <1>12, <1>13,
     <1>14, <1>15, <1>16 DEF Next

\* Every variable of the connection keeps its type.
THEOREM ConnectionTyped == Spec => []TypeOK
<1>1. Init => Flags
  BY DEF Init, Flags
<1>2. Init => OutputTyped
  BY DEF Init, OutputTyped
<1>3. Init => ControlTyped
  BY DEF Init, ControlTyped
<1>4. TypeOK /\ [Next]_vars => TypeOK'
  BY TypeParts, FlagsKept, OutputKept, ControlKept, Zenon
     DEF TypeOK, Flags, OutputTyped, ControlTyped
<1> QED
  BY <1>1, <1>2, <1>3, <1>4, TypeParts, PTL DEF Spec

-----------------------------------------------------------------------------
(* What is written. *)

TerminalSent == \E i \in 1..Len(wire) : wire[i] = "terminal"

\* The write under way is none of a terminal frame.
MoreToWrite == current # <<>> /\ current[Len(current)] # "terminal"

\* m_write_flag stays set from a terminal frame on, which is why nothing follows it.
Writing ==
    /\ NothingAfterTerminal
    /\ NoFrameStuck
    /\ TerminalSent => writeFlag
    /\ MoreToWrite => ~TerminalSent

LEMMA QuietKeepsWriting == Writing /\ UNCHANGED output => Writing'
BY DEF Writing, NothingAfterTerminal, NoFrameStuck, TerminalSent, MoreToWrite, output

\* A push leaves the wire alone and posts a task unless a write is under way.
LEMMA PushKeepsWriting ==
    ASSUME NEW f, OutputTyped, Writing, Push(f)
    PROVE  Writing'
BY DEF OutputTyped, Writing, Push, NothingAfterTerminal, NoFrameStuck, TerminalSent, MoreToWrite

LEMMA WritingKept == TypeOK /\ Writing /\ [Next]_vars => Writing'
<1> SUFFICES ASSUME OutputTyped, Writing, [Next]_vars
             PROVE  Writing'
  BY TypeParts
<1>1. CASE QuietStep
  BY <1>1, QuietKeepsOutput, QuietKeepsWriting
<1>2. CASE ReadPing \/ \E u \in User : SendCheck(u)
  BY <1>2 DEF ReadPing, SendCheck, Writing, NothingAfterTerminal, NoFrameStuck, TerminalSent,
              MoreToWrite
<1>3. CASE ReadGarbage
  <2>1. CASE state = "open"
    BY <1>3, <2>1, PushKeepsWriting DEF ReadGarbage, SendCloseFrame
  <2>2. CASE state # "open"
    BY <1>3, <2>2, QuietKeepsWriting DEF ReadGarbage
  <2> QED
    BY <2>1, <2>2
<1>4. CASE \E u \in User : SendPush(u) \/ CloseFrame(u)
  <2>1. PICK f \in Frame : Push(f)
    BY <1>4 DEF SendPush, CloseFrame, SendCloseFrame, Frame
  <2> QED
    BY <2>1, PushKeepsWriting
<1>5. CASE WriteFrame
  <2>1. CASE UNCHANGED <<queue, current, writeFlag, wire>> /\ (writeFlag \/ queue = <<>>)
    BY <2>1 DEF Writing, NothingAfterTerminal, NoFrameStuck, TerminalSent, MoreToWrite
  <2>2. CASE ~writeFlag /\ queue # <<>>
    <3>1. PICK n \in 1..Len(queue) : /\ BatchEnds(queue, n)
                                     /\ current' = SubSeq(queue, 1, n)
                                     /\ wire' = wire \o current'
                                     /\ writeFlag' = TRUE
      BY <1>5, <2>2 DEF WriteFrame
    <3>2. /\ Len(current') = n
          /\ \A i \in 1..n : current'[i] = queue[i]
      BY <3>1 DEF OutputTyped
    <3>3. /\ Len(wire') = Len(wire) + n
          /\ \A i \in 1..Len(wire) : wire'[i] = wire[i]
          /\ \A i \in 1..n : wire'[Len(wire) + i] = queue[i]
      BY <3>1, <3>2 DEF OutputTyped
    <3>4. ~TerminalSent
      BY <2>2 DEF Writing
    <3>5. \A i \in 1..Len(wire') : wire'[i] = "terminal" => i = Len(wire')
      <4>1. SUFFICES ASSUME NEW i \in 1..Len(wire'), wire'[i] = "terminal"
                     PROVE  i = Len(wire')
        OBVIOUS
      <4>2. i > Len(wire)
        BY <3>3, <3>4, <4>1 DEF TerminalSent, OutputTyped
      <4>3. queue[i - Len(wire)] = "terminal" /\ i - Len(wire) \in 1..n
        BY <3>3, <4>1, <4>2 DEF OutputTyped
      <4> QED
        BY <3>1, <3>3, <4>3 DEF BatchEnds, OutputTyped
    <3>6. MoreToWrite' => ~TerminalSent'
      BY <3>2, <3>3, <3>5 DEF MoreToWrite, TerminalSent, OutputTyped
    <3> QED
      BY <3>1, <3>5, <3>6 DEF Writing, NothingAfterTerminal, NoFrameStuck
  <2> QED
    BY <1>5, <2>1, <2>2 DEF WriteFrame
<1>6. CASE WriteEnds
  BY <1>6 DEF WriteEnds, Writing, NothingAfterTerminal, NoFrameStuck, TerminalSent, MoreToWrite
<1>7. CASE HandleWriteFrame
  <2>1. ~TerminalSent
    BY <1>7 DEF HandleWriteFrame, Writing, MoreToWrite
  <2> QED
    BY <1>7, <2>1 DEF HandleWriteFrame, OutputTyped, Writing, NothingAfterTerminal,
                      NoFrameStuck, TerminalSent, MoreToWrite
<1> QED
  BY <1>1, <1>2, <1>3, <1>4, <1>5, <1>6, <1>7 DEF Next, QuietStep

\* A terminal close frame is the last frame on the wire, however many threads send and
\* close while it is queued or written.
THEOREM TerminalIsLast == Spec => []NothingAfterTerminal
<1>1. Init => Writing
  BY DEF Init, Writing, NothingAfterTerminal, NoFrameStuck, TerminalSent, MoreToWrite
<1> QED
  BY <1>1, ConnectionTyped, WritingKept, PTL DEF Spec, Writing

\* A queued frame always has a write under way or a posted task that will find it.
THEOREM QueueServed == Spec => []NoFrameStuck
<1>1. Init => Writing
  BY DEF Init, Writing, NothingAfterTerminal, NoFrameStuck, TerminalSent, MoreToWrite
<1> QED
  BY <1>1, ConnectionTyped, WritingKept, PTL DEF Spec, Writing

-----------------------------------------------------------------------------
(* What WSThread is told. *)

\* Where m_state stands tells which handlers were called.
StateTold ==
    /\ HandlersOnce
    /\ state = "connecting" => told["open"] = 0 /\ told["fail"] = 0 /\ terminating["failed"] = 0
    /\ state \in {"open", "closing"} => told["open"] = 1 /\ (overtaken \/ Closes = 0)

\* A thread inside send or close found the connection open.  Asio's own is inside a
\* handler, during which nothing terminates the connection; another thread's close finds
\* it closed only when terminate overtook it.
CallsOpened ==
    /\ call[Asio] # "idle" => op = "handler"
    /\ \A u \in User : /\ call[u] # "idle" => told["open"] = 1
                       /\ call[u] \in MakesClose => overtaken \/ state \in {"open", "closing"}
                       /\ call[u] = "ack" => u = Asio

LEMMA TerminateTold ==
    ASSUME ControlTyped, StateTold, Terminate
    PROVE  StateTold'
<1>1. overtaken => overtaken'
  BY Zenon DEF Terminate
<1>2. /\ told' = told
      /\ state' = "closed"
      /\ terminating' = IF state = "closed" THEN terminating
                        ELSE [terminating EXCEPT
                                 ![IF state = "connecting" THEN "failed" ELSE "closed"] = @ + 1]
  BY DEF Terminate
<1> QED
  BY <1>1, <1>2 DEF ControlTyped, StateTold, HandlersOnce, Closes

LEMMA TerminateCalls ==
    ASSUME ControlTyped, CallsOpened, Terminate, op # "handler", call' = call
    PROVE  CallsOpened'
<1>1. call[Asio] = "idle"
  BY DEF CallsOpened
<1>2. told' = told /\ call' = call
  BY DEF Terminate
<1>3. ASSUME NEW u \in User, call[u] \in MakesClose
      PROVE  overtaken'
  <2>1. call[u] \in InClose
    <3>1. call[u] # "ack"
      BY <1>1 DEF CallsOpened
    <3> QED
      BY <1>3, <3>1 DEF MakesClose
  <2>2. overtaken \/ state # "closed"
    BY <1>3 DEF CallsOpened
  <2> QED
    BY <2>1, <2>2, Zenon DEF Terminate, LockFree
<1> QED
  BY <1>1, <1>2, <1>3 DEF CallsOpened

LEMMA CloseFrameTold ==
    ASSUME ControlTyped, StateTold, CallsOpened, NEW u \in User, NEW f, NEW ack,
           SendCloseFrame(f, ack), state = "open" \/ call[u] \in MakesClose
    PROVE  StateTold'
BY DEF ControlTyped, StateTold, CallsOpened, HandlersOnce, Closes, SendCloseFrame, MakesClose, InClose

LEMMA CloseFrameCalls ==
    ASSUME ControlTyped, CallsOpened, NEW f, NEW ack, SendCloseFrame(f, ack), op' = op \/ call[Asio] = "idle",
           call' = call \/ \E u \in User : call' = [call EXCEPT ![u] = "idle"]
    PROVE  CallsOpened'
BY DEF ControlTyped, CallsOpened, SendCloseFrame, User

LEMMA StateToldKept == TypeOK /\ StateTold /\ CallsOpened /\ [Next]_vars => StateTold'
<1> SUFFICES ASSUME ControlTyped, StateTold, CallsOpened, [Next]_vars
             PROVE  StateTold'
  BY TypeParts
<1>1. CASE UNCHANGED <<state, terminating, told, overtaken>>
  BY <1>1 DEF StateTold, HandlersOnce, Closes
<1>2. CASE Terminate
  BY <1>2, TerminateTold
<1>3. CASE Opens
  BY <1>3 DEF Opens, ControlTyped, StateTold, HandlersOnce, Closes
<1>4. CASE ReadGarbage
  <2>1. CASE state = "open"
    <3>1. Asio \in User
      BY DEF User
    <3> QED
      BY <1>4, <2>1, <3>1, CloseFrameTold DEF ReadGarbage
  <2>2. CASE state # "open"
    BY <1>4, <2>2, TerminateTold DEF ReadGarbage
  <2> QED
    BY <2>1, <2>2
<1>5. CASE \E u \in User : CloseFrame(u)
  BY <1>5, CloseFrameTold DEF CloseFrame
<1>6. CASE \E t \in {"failed", "closed"} : HandleTerminate(t)
  <2>1. PICK t \in {"failed", "closed"} : HandleTerminate(t)
    BY <1>6
  <2>2. state' = state /\ (overtaken => overtaken')
    BY <2>1, Zenon DEF HandleTerminate
  <2>3. /\ terminating[t] > 0
        /\ terminating' = [terminating EXCEPT ![t] = @ - 1]
        /\ told' = [told EXCEPT ![IF t = "closed" THEN "close" ELSE "fail"] = @ + 1]
    BY <2>1 DEF HandleTerminate
  <2>4. CASE t = "closed"
    BY <2>2, <2>3, <2>4 DEF ControlTyped, StateTold, HandlersOnce, Closes
  <2>5. CASE t = "failed"
    BY <2>2, <2>3, <2>5 DEF ControlTyped, StateTold, HandlersOnce, Closes
  <2> QED
    BY <2>4, <2>5
<1> QED
  BY <1>1, <1>2, <1>3, <1>4, <1>5, <1>6
  DEF Next, Start, HandleTransportInit, TransportInitFails, ClosedMeanwhile, HandshakeReadFails,
      HandleReadHandshake, HandshakeWriteFails, Refused, ReadFails, ReadData, ReadPing, ReadClose,
      ReadCloseAck, HandlerReturns, SendCheck, SendPush, CloseCheck, WriteFrame, WriteEnds,
      HandleWriteFrame, Expire, HandleTimeout, vars

\* Nothing is under way before start.
NotStarted == istate = "USER_INIT" => op = "none"

LEMMA NotStartedKept == NotStarted /\ [Next]_vars => NotStarted'
BY DEF NotStarted, Next, Start, HandleTransportInit, TransportInitFails, ClosedMeanwhile,
       HandshakeReadFails, HandleReadHandshake, HandshakeWriteFails, Opens, Refused, ReadFails,
       ReadData, ReadPing, ReadClose, ReadCloseAck, ReadGarbage, HandlerReturns, SendCheck,
       SendPush, CloseCheck, CloseFrame, SendCloseFrame, WriteFrame, WriteEnds,
       HandleWriteFrame, Expire, HandleTimeout, HandleTerminate, Terminate, handshake, vars

LEMMA CallsOpenedKept ==
    TypeOK /\ StateTold /\ CallsOpened /\ NotStarted /\ [Next]_vars => CallsOpened'
<1> SUFFICES ASSUME ControlTyped, StateTold, CallsOpened, NotStarted, [Next]_vars
             PROVE  CallsOpened'
  BY TypeParts
<1>0. Asio \in User
  BY DEF User
<1>1. CASE UNCHANGED <<state, op, call, told, overtaken>>
  BY <1>1 DEF CallsOpened
<1>2. CASE Terminate /\ op # "handler" /\ call' = call
  BY <1>2, TerminateCalls
<1>3. CASE Start \/ HandleTransportInit \/ ClosedMeanwhile \/ HandleReadHandshake \/ ReadData
           \/ HandlerReturns
  <2>1. call[Asio] = "idle" /\ UNCHANGED <<state, call, told, overtaken>>
    BY <1>3 DEF Start, HandleTransportInit, ClosedMeanwhile, HandleReadHandshake, ReadData,
                HandlerReturns, CallsOpened, NotStarted
  <2> QED
    BY <2>1 DEF CallsOpened
<1>4. CASE Opens
  BY <1>4 DEF Opens, ControlTyped, StateTold, CallsOpened, MakesClose, InClose
<1>5. CASE ReadFails
  BY <1>5, TerminateCalls DEF ReadFails, CallsOpened
<1>6. CASE ReadPing \/ ReadClose
  BY <1>0, <1>6 DEF ReadPing, ReadClose, ControlTyped, StateTold, CallsOpened, MakesClose, InClose
<1>7. CASE ReadGarbage
  <2>1. CASE state = "open"
    BY <1>7, <2>1, CloseFrameCalls DEF ReadGarbage, CallsOpened
  <2>2. CASE state # "open"
    BY <1>7, <2>2, TerminateCalls DEF ReadGarbage
  <2> QED
    BY <2>1, <2>2
<1>8. CASE \E u \in User : SendCheck(u)
  BY <1>8 DEF SendCheck, MayCall, ControlTyped, StateTold, CallsOpened, MakesClose, InClose
<1>9. CASE \E u \in User : SendPush(u)
  BY <1>9 DEF SendPush, ControlTyped, CallsOpened, MakesClose, InClose
<1>10. CASE \E u \in User : CloseCheck(u)
  BY <1>10 DEF CloseCheck, MayCall, ControlTyped, StateTold, CallsOpened, MakesClose, InClose
<1>11. CASE \E u \in User : CloseFrame(u)
  BY <1>11, CloseFrameCalls DEF CloseFrame
<1>12. CASE \E t \in {"failed", "closed"} : HandleTerminate(t)
  BY <1>12 DEF HandleTerminate, ControlTyped, CallsOpened
<1> QED
  BY <1>1, <1>2, <1>3, <1>4, <1>5, <1>6, <1>7, <1>8, <1>9, <1>10, <1>11, <1>12
  DEF Next, TransportInitFails, HandshakeReadFails, HandshakeWriteFails, Refused, ReadCloseAck,
      WriteFrame, WriteEnds, HandleWriteFrame, Expire, HandleTimeout, vars

LEMMA ToldInvariant == Spec => [](StateTold /\ CallsOpened)
<1>1. Init => StateTold
  BY DEF Init, StateTold, HandlersOnce, Closes
<1>2. Init => CallsOpened
  BY DEF Init, CallsOpened, User, MakesClose, InClose
<1>3. Init => NotStarted
  BY DEF Init, NotStarted
<1> QED
  BY <1>1, <1>2, <1>3, ConnectionTyped, StateToldKept, CallsOpenedKept, NotStartedKept, PTL
     DEF Spec

\* WSThread hears open and then close once, or fail once, whatever ends the connection,
\* unless terminate overtook a close.
THEOREM ToldOnce == Spec => []HandlersOnce
BY ToldInvariant, PTL DEF StateTold

\* The connection never goes back to an earlier state, unless terminate overtook a close.
THEOREM OnlyForward == Spec => NeverReopened
<1>1. TypeOK /\ CallsOpened /\ [Next]_vars => [Rank[state'] >= Rank[state] \/ overtaken]_state
  <2> SUFFICES ASSUME ControlTyped, CallsOpened, [Next]_vars
               PROVE  Rank[state'] >= Rank[state] \/ overtaken \/ state' = state
    BY TypeParts
  <2>1. CASE state' = "closed"
    BY <2>1 DEF ControlTyped, Rank
  <2>2. CASE state = "connecting" /\ state' = "open"
    BY <2>2 DEF Rank
  <2>3. CASE state' = "closing" /\ state \in {"open", "closing"}
    BY <2>3 DEF Rank
  <2> QED
    BY <2>1, <2>2, <2>3
    DEF Next, Start, HandleTransportInit, TransportInitFails, ClosedMeanwhile, HandshakeReadFails,
        HandleReadHandshake, HandshakeWriteFails, Opens, Refused, ReadFails, ReadData, ReadPing,
        ReadClose, ReadCloseAck, ReadGarbage, HandlerReturns, SendCheck, SendPush, CloseCheck,
        CloseFrame, SendCloseFrame, WriteFrame, WriteEnds, HandleWriteFrame, Expire, HandleTimeout,
        HandleTerminate, Terminate, CallsOpened, vars
<1> QED
  BY <1>1, ConnectionTyped, ToldInvariant, PTL DEF Spec, NeverReopened

-------------------------------------------------------------------------------
(* Listener. *)

\* A connection from accept to its first read, when secure says whether TLS is on: the
\* timer of post_init runs until handle_transport_init is called, and when it was
\* cancelled no handler of async_handshake is left.
Front(secure, c) ==
    /\ c.inits <= 1
    /\ c.istate = "USER_INIT" => c.handshake = "none" /\ c.postTimer = "none" /\ c.inits = 0
    /\ c.istate = "TRANSPORT_INIT" =>
         /\ secure
         /\ c.inits = 0 => c.postTimer \in {"armed", "due"}
         /\ c.inits = 1 => c.postTimer \in {"cancelled", "done"}
    /\ c.istate = "READ_HTTP_REQUEST" =>
         c.inits = 1 /\ c.postTimer = "cancelled" /\ (secure => c.secured)
    /\ c.postTimer = "cancelled" => c.handshake \in {"none", "done"}
    /\ c.handshake = "ok" => c.secured
    /\ ~secure => c.handshake = "none"

\* A connection from terminate to the call of its handler: the timer of the shutdown runs
\* until then, and when it was cancelled no handler of async_shutdown is left.
Back(c) ==
    /\ c.told <= 1
    /\ c.state # "closed" => c.shutdown = "none" /\ c.downTimer = "none" /\ c.told = 0
    /\ c.state = "closed" =>
         /\ c.told = 0 => c.downTimer \in {"armed", "due"}
         /\ c.told = 1 => c.downTimer \in {"cancelled", "done"}
    /\ c.downTimer = "cancelled" => c.shutdown \in {"none", "done"}

Fresh(c) == c.istate = "USER_INIT" /\ c.state = "connecting"
Started(c) == c.istate # "USER_INIT" \/ c.state = "closed"

\* async_accept waits with one connection, which nothing has happened to yet, as soon as
\* the loop has begun.
OneWaits ==
    /\ thread \in {"init", "listen", "accept", "failed"} => conns = <<>> /\ waiting = {}
    /\ thread \in {"run", "serving", "ended"} =>
         m_state = "LISTENING" /\ \E i \in DOMAIN conns : waiting = {i}
    /\ \A i \in waiting : Fresh(conns[i])
    /\ \A i \in DOMAIN conns \ waiting : Started(conns[i])

\* The inductive invariant.
ListenerInv ==
    /\ ListenerTypeOK
    /\ OneWaits
    /\ \A i \in DOMAIN conns : Front(tls, conns[i]) /\ Back(conns[i])

-------------------------------------------------------------------------------
(* One connection *)

LEMMA Created ==
    ASSUME tls \in BOOLEAN, files \in BOOLEAN
    PROVE  /\ create_connection \in Connection
           /\ Front(tls, create_connection) /\ Back(create_connection) /\ Fresh(create_connection)
BY DEF create_connection, HasContext, on_tls_init, Connection, Timer, Result, Front, Back, Fresh

\* The end of a connection, whatever it was doing, and of nothing in front of it.
LEMMA Terminated ==
    ASSUME NEW c \in Connection, Back(c)
    PROVE  LET e == terminate(c)
           IN /\ e \in Connection /\ Back(e) /\ e.state = "closed"
              /\ e.istate = c.istate /\ e.inits = c.inits /\ e.handshake = c.handshake
              /\ e.secured = c.secured /\ e.postTimer = c.postTimer
<1> USE DEF terminate, async_shutdown, tls_async_shutdown, plain_async_shutdown,
            handle_async_shutdown, handle_terminate, set_timer, Cancelled, RanOut,
            Connection, Timer, Result, Back
<1>1. CASE c.state = "closed"
  BY <1>1
<1>2. CASE c.state # "closed" /\ tls
  <2> DEFINE closed == [[c EXCEPT !.state = "closed"] EXCEPT !.downTimer = "armed"]
  <2>1. terminate(c) = [closed EXCEPT !.shutdown = "pending"]
    BY <1>2
  <2>2. /\ closed \in Connection /\ closed.told = 0 /\ closed.state = "closed"
        /\ closed.downTimer = "armed" /\ closed.istate = c.istate /\ closed.inits = c.inits
        /\ closed.handshake = c.handshake /\ closed.secured = c.secured
        /\ closed.postTimer = c.postTimer
    BY <1>2
  <2> HIDE DEF closed
  <2> QED
    BY <2>1, <2>2
<1>3. CASE c.state # "closed" /\ ~tls
  <2> DEFINE closed == [[c EXCEPT !.state = "closed"] EXCEPT !.downTimer = "armed"]
             down == [closed EXCEPT !.downTimer = "cancelled"]
  <2>1. terminate(c) = [down EXCEPT !.told = @ + 1]
    BY <1>3
  <2>2. /\ down \in Connection /\ down.told = 0 /\ down.state = "closed" /\ down.shutdown = "none"
        /\ down.downTimer = "cancelled" /\ down.istate = c.istate /\ down.inits = c.inits
        /\ down.handshake = c.handshake /\ down.secured = c.secured
        /\ down.postTimer = c.postTimer
    BY <1>3
  <2> HIDE DEF down
  <2> QED
    BY <2>1, <2>2
<1> QED
  BY <1>1, <1>2, <1>3

\* The only call of handle_transport_init reads a connection that is secured, or ends it.
LEMMA TransportInit ==
    ASSUME tls \in BOOLEAN,
           NEW c \in Connection, Back(c), NEW ok \in BOOLEAN,
           c.istate = "TRANSPORT_INIT", c.inits = 0, c.postTimer \in {"cancelled", "done"},
           c.postTimer = "cancelled" => c.handshake \in {"none", "done"},
           c.handshake = "ok" => c.secured,
           ~tls => c.handshake = "none",
           IF ok THEN c.postTimer = "cancelled" /\ (tls => c.secured) ELSE tls
    PROVE  LET e == handle_transport_init(c, ok)
           IN e \in Connection /\ Front(tls, e) /\ Back(e) /\ Started(e)
<1> DEFINE called == [c EXCEPT !.inits = @ + 1]
<1>1. /\ called \in Connection /\ Back(called) /\ called.inits = 1
      /\ called.istate = "TRANSPORT_INIT" /\ called.handshake = c.handshake
      /\ called.secured = c.secured /\ called.postTimer = c.postTimer
  BY DEF Connection, Back
<1>2. CASE ok
  <2>1. handle_transport_init(c, ok) = [called EXCEPT !.istate = "READ_HTTP_REQUEST"]
    BY <1>2 DEF handle_transport_init
  <2> DEFINE e == [called EXCEPT !.istate = "READ_HTTP_REQUEST"]
  <2> HIDE DEF called
  <2>2. /\ e \in Connection /\ Back(e) /\ e.inits = 1 /\ e.istate = "READ_HTTP_REQUEST"
        /\ e.handshake = c.handshake /\ e.secured = c.secured /\ e.postTimer = c.postTimer
    BY <1>1 DEF Connection, Back
  <2> HIDE DEF e
  <2>3. Front(tls, e) /\ Started(e)
    BY <1>2, <2>2 DEF Front, Started
  <2> QED
    BY <2>1, <2>2, <2>3 DEF e
<1>3. CASE ~ok
  <2>1. handle_transport_init(c, ok) = terminate(called)
    BY <1>3 DEF handle_transport_init
  <2> HIDE DEF called
  <2> QED
    BY <1>1, <1>3, <2>1, Terminated DEF Front, Started
<1> QED
  BY <1>2, <1>3

\* handle_post_init, when the timer of post_init is still there or has run out.
LEMMA PostInit ==
    ASSUME tls \in BOOLEAN,
           NEW c \in Connection, Back(c), NEW ok \in BOOLEAN,
           c.istate = "TRANSPORT_INIT", c.inits = 0, c.postTimer = "armed",
           c.handshake \in {"none", "done"}, ~tls => c.handshake = "none",
           IF ok THEN tls => c.secured ELSE tls
    PROVE  LET e == handle_post_init(c, ok)
           IN e \in Connection /\ Front(tls, e) /\ Back(e) /\ Started(e)
<1> DEFINE d == [c EXCEPT !.postTimer = "cancelled"]
<1>1. handle_post_init(c, ok) = handle_transport_init(d, ok)
  BY DEF handle_post_init, RanOut, Cancelled
<1>2. /\ d \in Connection /\ Back(d) /\ d.inits = 0 /\ d.postTimer = "cancelled"
      /\ d.istate = "TRANSPORT_INIT" /\ d.handshake = c.handshake /\ d.secured = c.secured
  BY DEF Connection, Timer, Back
<1> HIDE DEF d
<1> QED
  BY <1>1, <1>2, TransportInit

LEMMA StartGood ==
    ASSUME tls \in BOOLEAN,
           NEW c \in Connection, Front(tls, c), Back(c), Fresh(c)
    PROVE  start(c) \in Connection /\ Front(tls, start(c)) /\ Back(start(c)) /\ Started(start(c))
<1> DEFINE d == [[c EXCEPT !.istate = "TRANSPORT_INIT"] EXCEPT !.postTimer = "armed"]
<1>1. /\ d \in Connection /\ Back(d) /\ d.inits = 0 /\ d.postTimer = "armed"
      /\ d.istate = "TRANSPORT_INIT" /\ d.handshake = "none"
  BY DEF Connection, Timer, Back, Front, Fresh
<1>2. start(c) = IF tls THEN [d EXCEPT !.handshake = "pending"] ELSE handle_post_init(d, TRUE)
  BY DEF Fresh, start, init, post_init, tls_post_init, plain_post_init, set_timer
<1> HIDE DEF d
<1>3. CASE tls
  BY <1>1, <1>2, <1>3 DEF Connection, Result, Front, Back, Started
<1>4. CASE ~tls
  BY <1>1, <1>2, <1>4, PostInit
<1> QED
  BY <1>3, <1>4

-------------------------------------------------------------------------------
(* The steps *)

\* A step of a connection that does not wait.
LEMMA BecomesInv ==
    ASSUME ListenerInv, NEW i \in DOMAIN conns, i \notin waiting,
           NEW x \in Connection, Front(tls, x), Back(x), Started(x), Becomes(i, x)
    PROVE  ListenerInv'
<1> USE DEF Becomes, others
<1>1. conns \in Seq(Connection) /\ conns' = [conns EXCEPT ![i] = x]
  BY DEF ListenerInv, ListenerTypeOK
<1>2. conns' \in Seq(Connection) /\ DOMAIN conns' = DOMAIN conns
  BY <1>1
<1>3. \A j \in DOMAIN conns : conns'[j] = IF j = i THEN x ELSE conns[j]
  BY <1>1
<1>4. ListenerTypeOK'
  BY <1>2 DEF ListenerInv, ListenerTypeOK
<1>5. conns # <<>> /\ conns' # <<>>
  BY <1>1, <1>2
<1>6. OneWaits'
  BY <1>2, <1>3, <1>5 DEF ListenerInv, OneWaits
<1>7. \A j \in DOMAIN conns' : Front(tls', conns'[j]) /\ Back(conns'[j])
  BY <1>2, <1>3 DEF ListenerInv
<1> QED
  BY <1>4, <1>6, <1>7 DEF ListenerInv

LEMMA ListenerInitInv == ListenerInit => ListenerInv
<1> SUFFICES ASSUME ListenerInit PROVE ListenerInv
  OBVIOUS
<1>1. conns = <<>> /\ conns \in Seq(Connection) /\ DOMAIN conns = {} /\ waiting = {}
  BY DEF ListenerInit
<1>2. tls \in BOOLEAN /\ files \in BOOLEAN /\ stopped \in BOOLEAN /\ crashed \in BOOLEAN
  BY ListenerAssumption, Zenon DEF ListenerInit
<1>3. thread = "init" /\ m_state = "UNINITIALIZED"
  BY DEF ListenerInit
<1> QED
  BY <1>1, <1>2, <1>3 DEF ListenerInv, ListenerTypeOK, OneWaits

\* The server thread, stop and the files: the loop begins with a fresh connection.
LEMMA ThreadInv ==
    ASSUME ListenerInv, Thread \/ stop \/ FilesChange
    PROVE  ListenerInv'
<1>1. CASE start_accept
  <2>1. tls \in BOOLEAN /\ files \in BOOLEAN
    BY DEF ListenerInv, ListenerTypeOK
  <2> DEFINE c == create_connection
  <2>2. c \in Connection /\ Front(tls, c) /\ Back(c) /\ Fresh(c)
    BY <2>1, Created
  <2>3. conns' = <<c>> /\ waiting' = {1} /\ thread' = "run" /\ m_state = "LISTENING"
        /\ UNCHANGED <<tls, files, m_state, stopped, crashed>>
    BY <1>1 DEF start_accept, async_accept
  <2> HIDE DEF c
  <2>4. DOMAIN conns' = {1} /\ conns'[1] = c /\ conns' \in Seq(Connection)
    BY <2>2, <2>3
  <2>5. ListenerTypeOK'
    BY <2>3, <2>4 DEF ListenerInv, ListenerTypeOK
  <2>6. OneWaits'
    BY <2>2, <2>3, <2>4 DEF OneWaits
  <2> QED
    BY <2>2, <2>3, <2>4, <2>5, <2>6 DEF ListenerInv
<1>2. CASE init_asio \/ listen \/ run \/ RunReturns
  BY <1>2 DEF init_asio, listen, clean_up_listen_after_error, run, RunReturns, ListenerInv, ListenerTypeOK,
              OneWaits
<1>3. CASE stop
  <2>1. stopped' \in BOOLEAN /\ crashed' \in BOOLEAN
    BY <1>3, Zenon DEF stop, ListenerInv, ListenerTypeOK
  <2>2. UNCHANGED <<tls, files, thread, m_state, waiting, conns>>
    BY <1>3 DEF stop
  <2> QED
    BY <2>1, <2>2 DEF ListenerInv, ListenerTypeOK, OneWaits
<1>4. CASE FilesChange
  <2>1. files' \in BOOLEAN
    BY <1>4, Zenon DEF FilesChange, ListenerInv, ListenerTypeOK
  <2>2. UNCHANGED <<tls, thread, m_state, stopped, crashed, waiting, conns>>
    BY <1>4 DEF FilesChange, others
  <2> QED
    BY <2>1, <2>2 DEF ListenerInv, ListenerTypeOK, OneWaits
<1> QED
  BY <1>1, <1>2, <1>3, <1>4 DEF Thread

\* handle_accept: the connection that waited starts or ends, a fresh one waits.
LEMMA AcceptInv ==
    ASSUME ListenerInv, NEW i \in DOMAIN conns, NEW error \in BOOLEAN, handle_accept(i, error)
    PROVE  ListenerInv'
<1> DEFINE x == IF error THEN terminate(conns[i]) ELSE start(conns[i])
           n == create_connection
<1>1. /\ conns \in Seq(Connection) /\ tls \in BOOLEAN /\ files \in BOOLEAN
      /\ i \in waiting /\ thread = "serving" /\ m_state = "LISTENING"
  BY DEF handle_accept, Serving, ListenerInv, ListenerTypeOK, OneWaits
<1>2. conns[i] \in Connection /\ Front(tls, conns[i]) /\ Back(conns[i]) /\ Fresh(conns[i])
  BY <1>1 DEF ListenerInv, OneWaits
<1>3. x \in Connection /\ Front(tls, x) /\ Back(x) /\ Started(x)
  <2>1. CASE error
    BY <1>2, <2>1, Terminated DEF Front, Started
  <2>2. CASE ~error
    BY <1>1, <1>2, <2>2, StartGood
  <2> QED
    BY <2>1, <2>2
<1>4. n \in Connection /\ Front(tls, n) /\ Back(n) /\ Fresh(n)
  BY <1>1, Created
<1>5. /\ conns' = Append([conns EXCEPT ![i] = x], n)
      /\ waiting' = (waiting \ {i}) \cup {Len(conns) + 1}
      /\ UNCHANGED <<tls, files, thread, m_state, stopped, crashed>>
  BY DEF handle_accept, async_accept, others
<1> HIDE DEF x, n
<1>6. waiting = {i}
  BY <1>1 DEF ListenerInv, OneWaits
<1>7. waiting' = {Len(conns) + 1}
  BY <1>5, <1>6
<1>8. /\ conns' \in Seq(Connection)
      /\ DOMAIN conns' = DOMAIN conns \cup {Len(conns) + 1}
      /\ Len(conns) + 1 \notin DOMAIN conns
  BY <1>1, <1>3, <1>4, <1>5
<1>9. /\ conns'[Len(conns) + 1] = n
      /\ \A j \in DOMAIN conns : conns'[j] = IF j = i THEN x ELSE conns[j]
  BY <1>1, <1>3, <1>4, <1>5
<1>10. ListenerTypeOK'
  BY <1>5, <1>7, <1>8 DEF ListenerInv, ListenerTypeOK
<1>11. OneWaits'
  BY <1>1, <1>3, <1>4, <1>5, <1>6, <1>7, <1>8, <1>9 DEF ListenerInv, OneWaits
<1>12. \A j \in DOMAIN conns' : Front(tls', conns'[j]) /\ Back(conns'[j])
  BY <1>3, <1>4, <1>5, <1>8, <1>9 DEF ListenerInv
<1> QED
  BY <1>10, <1>11, <1>12 DEF ListenerInv

\* What happens to one connection, by its handlers, the clock, its peer and Connection.
LEMMA ConnInv ==
    ASSUME ListenerInv, NEW i \in DOMAIN conns,
           \/ Handlers(i) \/ Clock(i) \/ GoesOpen(i) \/ Ends(i)
           \/ \E flag \in BOOLEAN : PeerShakes(i, flag)
           \/ PeerShutsDown(i)
    PROVE  ListenerInv'
<1> DEFINE c == conns[i]
<1>1. /\ c \in Connection /\ Front(tls, c) /\ Back(c) /\ tls \in BOOLEAN
      /\ i \in waiting => Fresh(c)
      /\ i \notin waiting => Started(c)
  BY DEF ListenerInv, ListenerTypeOK, OneWaits
<1>2. ASSUME NEW x \in Connection, Front(tls, x), Back(x), Started(x), Becomes(i, x), ~Fresh(c)
      PROVE  ListenerInv'
  BY <1>1, <1>2, BecomesInv
<1> HIDE DEF c
<1>3. CASE handle_init(i)
  <2> DEFINE d == [c EXCEPT !.handshake = "done"]
  <2>1. c.handshake \in {"ok", "failed", "aborted"}
        /\ Becomes(i, handle_post_init(d, c.handshake = "ok"))
    BY <1>3 DEF handle_init, c
  <2>2. /\ d \in Connection /\ Back(d) /\ d.handshake = "done" /\ d.istate = c.istate
        /\ d.inits = c.inits /\ d.secured = c.secured /\ d.postTimer = c.postTimer
        /\ d.state = c.state
    BY <1>1 DEF Connection, Result, Back
  <2>3. ~Fresh(c) /\ c.postTimer \in {"armed", "due", "done"}
    BY <1>1, <2>1 DEF Front, Fresh, Connection, Timer
  <2> HIDE DEF d
  <2>4. CASE c.postTimer = "armed"
    <3>1. c.istate = "TRANSPORT_INIT" /\ c.inits = 0 /\ tls
      BY <1>1, <2>4 DEF Front, Connection
    <3>2. CASE c.handshake = "ok"
      <4>1. Becomes(i, handle_post_init(d, TRUE)) /\ c.secured
        BY <1>1, <2>1, <3>2 DEF Front
      <4> QED
        BY <1>1, <1>2, <2>2, <2>3, <2>4, <3>1, <4>1, PostInit
    <3>3. CASE c.handshake # "ok"
      <4>1. Becomes(i, handle_post_init(d, FALSE))
        BY <2>1, <3>3
      <4> QED
        BY <1>1, <1>2, <2>2, <2>3, <2>4, <3>1, <4>1, PostInit
    <3> QED
      BY <3>2, <3>3
  <2>5. CASE c.postTimer \in {"due", "done"}
    <3>1. Becomes(i, d)
      BY <2>1, <2>2, <2>5 DEF handle_post_init, RanOut
    <3>2. Front(tls, d) /\ Started(d)
      BY <1>1, <2>1, <2>2, <2>3, <2>5 DEF Front, Started, Fresh, Connection
    <3> QED
      BY <1>2, <2>2, <2>3, <3>1, <3>2
  <2> QED
    BY <2>3, <2>4, <2>5
<1>4. CASE handle_post_init_timeout(i)
  <2> DEFINE d == [c EXCEPT !.postTimer = "done", !.handshake = Cancel(@)]
  <2>1. c.postTimer = "due" /\ Becomes(i, handle_transport_init(d, FALSE))
    BY <1>4 DEF handle_post_init_timeout, c
  <2>2. c.istate = "TRANSPORT_INIT" /\ c.inits = 0 /\ tls
    BY <1>1, <2>1 DEF Front, Connection
  <2>3. /\ d \in Connection /\ Back(d) /\ d.istate = c.istate /\ d.inits = c.inits
        /\ d.secured = c.secured /\ d.postTimer = "done" /\ (d.handshake = "ok" => d.secured)
    BY <1>1 DEF Connection, Timer, Result, Back, Front, Cancel
  <2> HIDE DEF d
  <2>4. ~Fresh(c)
    BY <2>2 DEF Fresh
  <2> QED
    BY <1>1, <1>2, <2>1, <2>2, <2>3, <2>4, TransportInit
<1>5. CASE HandleShutdown(i)
  <2> DEFINE d == [c EXCEPT !.shutdown = "done"]
  <2>1. c.shutdown \in {"ok", "aborted"}
        /\ Becomes(i, handle_async_shutdown(d, c.shutdown = "aborted"))
    BY <1>5 DEF HandleShutdown, c
  <2>2. c.state = "closed" /\ c.downTimer \in {"armed", "due", "done"}
    BY <1>1, <2>1 DEF Back, Connection
  <2>3. ~Fresh(c)
    BY <2>2 DEF Fresh
  <2>4. d \in Connection /\ Front(tls, d) /\ Back(d) /\ Started(d)
    BY <1>1, <2>2 DEF Connection, Result, Front, Back, Started
  <2>5. CASE c.shutdown = "aborted" \/ c.downTimer \in {"due", "done"}
    <3>1. Becomes(i, d)
      BY <1>1, <2>1, <2>5 DEF handle_async_shutdown, RanOut, Connection
    <3> QED
      BY <1>2, <2>3, <2>4, <3>1
  <2>6. CASE c.shutdown # "aborted" /\ c.downTimer = "armed"
    <3> DEFINE down == [d EXCEPT !.downTimer = "cancelled"]
               x == [down EXCEPT !.told = @ + 1]
    <3>1. Becomes(i, x)
      BY <1>1, <2>1, <2>6 DEF handle_async_shutdown, handle_terminate, Cancelled, RanOut,
                              Connection
    <3>2. d.told = 0 /\ d.state = "closed" /\ d.shutdown = "done"
      BY <1>1, <2>2, <2>6 DEF Connection, Back
    <3> HIDE DEF d
    <3>3. x \in Connection /\ x.told = 1 /\ x.state = "closed" /\ x.shutdown = "done"
          /\ x.downTimer = "cancelled" /\ x.istate = d.istate /\ x.inits = d.inits
          /\ x.handshake = d.handshake /\ x.secured = d.secured /\ x.postTimer = d.postTimer
      <4>1. /\ down \in Connection /\ down.told = 0 /\ down.state = "closed"
            /\ down.shutdown = "done" /\ down.downTimer = "cancelled"
            /\ down.istate = d.istate /\ down.inits = d.inits
            /\ down.handshake = d.handshake /\ down.secured = d.secured
            /\ down.postTimer = d.postTimer
        BY <2>4, <3>2 DEF Connection, Timer
      <4> HIDE DEF down
      <4> QED
        BY <4>1 DEF Connection
    <3> HIDE DEF x
    <3>4. Front(tls, x) /\ Back(x) /\ Started(x)
      BY <2>4, <3>3 DEF Front, Back, Started
    <3> QED
      BY <1>2, <2>3, <3>1, <3>3, <3>4
  <2> QED
    BY <2>2, <2>5, <2>6
<1>6. CASE handle_async_shutdown_timeout(i)
  <2> DEFINE d == [c EXCEPT !.downTimer = "done", !.shutdown = Cancel(@)]
             x == [d EXCEPT !.told = @ + 1]
  <2>1. c.downTimer = "due" /\ Becomes(i, x)
    BY <1>6 DEF handle_async_shutdown_timeout, handle_terminate, c
  <2>2. c.state = "closed" /\ c.told = 0
    BY <1>1, <2>1 DEF Back, Connection
  <2>3. /\ d \in Connection /\ d.downTimer = "done" /\ d.told = 0 /\ d.state = "closed"
        /\ d.istate = c.istate /\ d.inits = c.inits /\ d.handshake = c.handshake
        /\ d.secured = c.secured /\ d.postTimer = c.postTimer
    BY <1>1, <2>2 DEF Connection, Timer, Result, Cancel
  <2>4. ~Fresh(c) /\ Front(tls, d)
    BY <1>1, <2>2, <2>3 DEF Fresh, Front
  <2> HIDE DEF d
  <2>5. x \in Connection /\ Front(tls, x) /\ Back(x) /\ Started(x)
    BY <2>3, <2>4 DEF Connection, Front, Back, Started
  <2> HIDE DEF x
  <2> QED
    BY <1>2, <2>1, <2>4, <2>5
<1>7. CASE PostTimerRunsOut(i)
  <2> DEFINE x == [c EXCEPT !.postTimer = "due"]
  <2>1. c.postTimer = "armed" /\ Becomes(i, x)
    BY <1>7 DEF PostTimerRunsOut, c
  <2>2. c.istate = "TRANSPORT_INIT" /\ c.inits = 0
    BY <1>1, <2>1 DEF Front, Connection
  <2>3. ~Fresh(c) /\ x \in Connection /\ Front(tls, x) /\ Back(x) /\ Started(x)
    BY <1>1, <2>1, <2>2 DEF Connection, Timer, Front, Back, Fresh, Started
  <2> HIDE DEF x
  <2> QED
    BY <1>2, <2>1, <2>3
<1>8. CASE DownTimerRunsOut(i)
  <2> DEFINE x == [c EXCEPT !.downTimer = "due"]
  <2>1. c.downTimer = "armed" /\ Becomes(i, x)
    BY <1>8 DEF DownTimerRunsOut, c
  <2>2. c.state = "closed" /\ c.told = 0
    BY <1>1, <2>1 DEF Back, Connection
  <2>3. ~Fresh(c) /\ x \in Connection /\ Front(tls, x) /\ Back(x) /\ Started(x)
    BY <1>1, <2>1, <2>2 DEF Connection, Timer, Front, Back, Fresh, Started
  <2> HIDE DEF x
  <2> QED
    BY <1>2, <2>1, <2>3
<1>9. CASE GoesOpen(i)
  <2> DEFINE x == [c EXCEPT !.state = "open"]
  <2>1. c.istate = "READ_HTTP_REQUEST" /\ c.state = "connecting" /\ Becomes(i, x)
    BY <1>9 DEF GoesOpen, c
  <2>2. ~Fresh(c) /\ x \in Connection /\ Front(tls, x) /\ Back(x) /\ Started(x)
    BY <1>1, <2>1 DEF Connection, Front, Back, Fresh, Started
  <2> HIDE DEF x
  <2> QED
    BY <1>2, <2>1, <2>2
<1>10. CASE Ends(i)
  <2>1. c.istate = "READ_HTTP_REQUEST" /\ Becomes(i, terminate(c))
    BY <1>10 DEF Ends, c
  <2>2. /\ terminate(c) \in Connection /\ Front(tls, terminate(c)) /\ Back(terminate(c))
        /\ Started(terminate(c)) /\ ~Fresh(c)
    BY <1>1, <2>1, Terminated DEF Front, Fresh, Started
  <2> QED
    BY <1>2, <2>1, <2>2
<1>11. ASSUME NEW flag \in BOOLEAN, PeerShakes(i, flag) PROVE ListenerInv'
  <2> DEFINE x == [c EXCEPT !.handshake = IF flag THEN "ok" ELSE "failed", !.secured = flag]
  <2>1. c.handshake = "pending" /\ Becomes(i, x)
    BY <1>11 DEF PeerShakes, c
  <2>2. c.istate = "TRANSPORT_INIT"
    BY <1>1, <2>1 DEF Front, Connection
  <2>3. ~Fresh(c) /\ x \in Connection /\ Front(tls, x) /\ Back(x) /\ Started(x)
    BY <1>1, <2>1, <2>2 DEF Connection, Result, Front, Back, Fresh, Started
  <2> HIDE DEF x
  <2> QED
    BY <1>2, <2>1, <2>3
<1>12. CASE PeerShutsDown(i)
  <2> DEFINE x == [c EXCEPT !.shutdown = "ok"]
  <2>1. c.shutdown = "pending" /\ Becomes(i, x)
    BY <1>12 DEF PeerShutsDown, c
  <2>2. c.state = "closed"
    BY <1>1, <2>1 DEF Back, Connection
  <2>3. ~Fresh(c) /\ x \in Connection /\ Front(tls, x) /\ Back(x) /\ Started(x)
    BY <1>1, <2>1, <2>2 DEF Connection, Result, Front, Back, Fresh, Started
  <2> HIDE DEF x
  <2> QED
    BY <1>2, <2>1, <2>3
<1> QED
  BY <1>3, <1>4, <1>5, <1>6, <1>7, <1>8, <1>9, <1>10, <1>11, <1>12 DEF Handlers, Clock

LEMMA ListenerNextInv == ListenerInv /\ [ListenerNext]_listenerVars => ListenerInv'
<1> SUFFICES ASSUME ListenerInv, [ListenerNext]_listenerVars PROVE ListenerInv'
  OBVIOUS
<1>1. CASE UNCHANGED listenerVars
  BY <1>1 DEF listenerVars, ListenerInv, ListenerTypeOK, OneWaits
<1>2. CASE ListenerNext
  BY <1>2, ThreadInv, AcceptInv, ConnInv DEF ListenerNext
<1> QED
  BY <1>1, <1>2

-------------------------------------------------------------------------------

\* The invariant holds in every reachable state of the listener.
THEOREM ListenerInvHolds == ListenerSpec => []ListenerInv
BY ListenerInitInv, ListenerNextInv, PTL DEF ListenerSpec

\* The variables of the server thread and of all its connections keep their types.
THEOREM ListenerTyped == ListenerSpec => []ListenerTypeOK
<1>1. ListenerInv => ListenerTypeOK
  BY DEF ListenerInv
<1> QED
  BY <1>1, ListenerInvHolds, PTL

\* However many connections come, and however they fail, the server accepts the next one.
THEOREM GoesOnAccepting == ListenerSpec => []AcceptArmed
<1>1. ListenerInv => AcceptArmed
  BY DEF ListenerInv, OneWaits, AcceptArmed, Started
<1> QED
  BY <1>1, ListenerInvHolds, PTL

\* Every connection hears once of its handshake, the application once of its end, and both
\* have somebody left to say so until then.
THEOREM CalledOnce == ListenerSpec => []CallbacksOnce
<1>1. ListenerInv => CallbacksOnce
  <2> SUFFICES ASSUME ListenerInv PROVE CallbacksOnce
    OBVIOUS
  <2>1. \A i \in DOMAIN conns : conns[i] \in Connection /\ Front(tls, conns[i]) /\ Back(conns[i])
    BY DEF ListenerInv, ListenerTypeOK
  <2> QED
    BY <2>1 DEF CallbacksOnce, Front, Back, Connection
<1> QED
  BY <1>1, ListenerInvHolds, PTL

===============================================================================
