---------------------------- MODULE GatewayProofs ----------------------------
(***************************************************************************)
(* Theorems about what stands between a client and Tango.                  *)
(*                                                                         *)
(* OnMessage: for every message, whatever keys it has, no handler looks    *)
(* for a key that is missing, and only two exceptions leave on_message.    *)
(* The model checker sees the shapes of MCOnMessage, these theorems every  *)
(* function from the keys to the shapes of values.                         *)
(*                                                                         *)
(* WSTangoConn: the sessions, for any number of connections, users and     *)
(* passwords and any option list.                                          *)
(***************************************************************************)
EXTENDS OnMessage, WSTangoConn, TLAPS

\* The keys a request of type t needs to be valid, in build b.
Needs(b, t, k) ==
    /\ t \in {"COMMAND", "ATTRIBUTE_READ", "ATTRIBUTE_WRITE", "PIPE_COMM"}
         => (b = "CLIENT_MODE" => k["device_name"] \in VALUE)
    /\ t = "COMMAND" => k["command_name"] \in VALUE
    /\ t = "ATTRIBUTE_WRITE" => k["attr_name"] \in VALUE
    /\ t = "PIPE_COMM" => k["pipe_name"] \in VALUE
    /\ t = "CHANGE_USER" => k["login"] \in VALUE /\ k["password"] \in VALUE
    /\ t = "eventreq_check_dev" =>
         \A key \in {"event_type", "device", "attribute"} : k[key] \in VALUE

\* The strengthening of KnownEscapes.
Inv ==
    /\ build \in {"CLIENT_MODE", "SERVER_MODE"}
    /\ pc \in {"idle", "parsed", "asking", "done", "ended"}
    /\ pc # "idle" /\ req.isValid => Needs(build, req.type, req.keys)
    /\ pc = "asking" => req.isValid /\ req.type \in Async
    /\ raised # "none" => pc = "ended"
    /\ KnownEscapes

\* _checkValidity accepts only requests with the keys their handlers read.
LEMMA ValidHasKeys ==
    ASSUME NEW b \in {"CLIENT_MODE", "SERVER_MODE"}, NEW t \in TypeReq, NEW k \in [Key -> Raw],
           checkValidity(b, t, k).isValid
    PROVE  Needs(b, checkValidity(b, t, k).type, k)
<1> DEFINE V == checkValidity(b, t, k)
<1>1. CASE t \in EventReq
    <2>1. V = EventValidity(b, t, k)
        BY <1>1 DEF checkValidity, EventReq, Command, PipeComm, AttrWrite, AttrRead
    <2>2. V.type = t
        BY <2>1, <1>1 DEF EventValidity, Accepted, Refused
    <2>3. t = "eventreq_check_dev" =>
            \A key \in {"event_type", "device", "attribute"} : k[key] \in VALUE
        BY <2>1 DEF EventValidity, Accepted, Refused
    <2> QED BY <1>1, <2>2, <2>3 DEF Needs, EventReq
<1>2. CASE t \in Command
    <2>1. V = CommandValidity(b, t, k)
        BY <1>2 DEF checkValidity, EventReq, Command, PipeComm, AttrWrite, AttrRead
    <2> QED BY <2>1 DEF CommandValidity, Accepted, Refused, Needs
<1>3. CASE t \in PipeComm
    <2>1. V = NamedValidity(b, "pipe_name", VALUE, "PIPE_COMM", k)
        BY <1>3 DEF checkValidity, EventReq, Command, PipeComm, AttrWrite, AttrRead
    <2> QED BY <2>1 DEF NamedValidity, Accepted, Refused, Needs
<1>4. CASE t \in AttrWrite
    <2>1. V = NamedValidity(b, "attr_name", VALUE, "ATTRIBUTE_WRITE", k)
        BY <1>4 DEF checkValidity, EventReq, Command, PipeComm, AttrWrite, AttrRead
    <2> QED BY <2>1 DEF NamedValidity, Accepted, Refused, Needs
<1>5. CASE t \in AttrRead
    <2>1. V = NamedValidity(b, "attr_name", VALUE \cup ARRAY, "ATTRIBUTE_READ", k)
        BY <1>5 DEF checkValidity, EventReq, Command, PipeComm, AttrWrite, AttrRead
    <2> QED BY <2>1 DEF NamedValidity, Accepted, Refused, Needs
<1>6. CASE t = "change_user_smpl"
    <2>1. V = ChangeUserValidity(k)
        BY <1>6 DEF checkValidity, EventReq, Command, PipeComm, AttrWrite, AttrRead
    <2> QED BY <2>1 DEF ChangeUserValidity, Accepted, Refused, Needs
<1>7. CASE t = "user_status"
    <2>1. V = Accepted("USER_CHECK_STATUS")
        BY <1>7 DEF checkValidity, EventReq, Command, PipeComm, AttrWrite, AttrRead
    <2> QED BY <2>1 DEF Accepted, Needs
<1>8. CASE t = "attr_device_cl"
    <2>1. V = Refused("unknown_req_type")
        BY <1>8 DEF checkValidity, EventReq, Command, PipeComm, AttrWrite, AttrRead
    <2> QED BY <2>1 DEF Refused
<1> QED BY <1>1, <1>2, <1>3, <1>4, <1>5, <1>6, <1>7, <1>8 DEF TypeReq

\* So does parseInputJson, which calls it with what it kept of the message.
LEMMA ParsedHasKeys ==
    ASSUME NEW b \in {"CLIENT_MODE", "SERVER_MODE"}, NEW r \in Request,
           parseInputJson(b, r).isValid
    PROVE  Needs(b, parseInputJson(b, r).type, parseInputJson(b, r).keys)
<1> DEFINE k == [key \in Key |-> Kept(r.keys[key])]
<1>1. r.keys \in [Key -> Raw]
    BY MessageAssumption
<1>2. k \in [Key -> Raw]
    BY <1>1 DEF Kept, Raw
<1>3. r.json # "broken" /\ r.type_req \in TypeReq
    BY MessageAssumption DEF parseInputJson, Refused
<1>4. /\ parseInputJson(b, r).isValid = checkValidity(b, r.type_req, k).isValid
      /\ parseInputJson(b, r).type = checkValidity(b, r.type_req, k).type
      /\ parseInputJson(b, r).keys = k
    BY <1>3 DEF parseInputJson
<1> HIDE DEF k
<1> QED BY <1>2, <1>3, <1>4, ValidHasKeys

\* Only the dimensions of a write request raise anything but a refusal.
LEMMA OnlyDimsRaise ==
    ASSUME NEW t \in Async, NEW k, NEW dev, NEW call \in processAsyncReq(t, k, dev),
           call.result = "invalid_argument"
    PROVE  t = "ATTRIBUTE_WRITE" /\ DimsRaise(k)
<1>1. \A v : DeviceDataOf(dev.in, v).result # "invalid_argument"
    BY DEF DeviceDataOf, CastScalar, CastBoolean, CastArray, TakeString, TakeStrings, Issue, Refuse
<1>2. \A v : AttributeDataOf(dev, v).result # "invalid_argument"
    BY DEF AttributeDataOf, CastScalar, CastBoolean, CastArray, TakeString, TakeStrings, Issue,
           Refuse
<1>3. processCommand(k, dev).result # "invalid_argument"
    BY <1>1 DEF processCommand, Issue, Refuse
<1>4. ~DimsRaise(k) => processAttrWrite(k, dev).result # "invalid_argument"
    BY <1>2 DEF processAttrWrite
<1> QED BY <1>3, <1>4 DEF processAsyncReq, processAttrRead, Issue, Refuse, Async

LEMMA InitInv == Init => Inv
BY DEF Init, Inv, KnownEscapes

LEMMA NextInv == Inv /\ [Next]_vars => Inv'
<1> SUFFICES ASSUME Inv, [Next]_vars PROVE Inv'
    OBVIOUS
<1> USE DEF Inv, KnownEscapes
<1>1. ASSUME NEW r \in Request, Parse(r) PROVE Inv'
    <2>1. /\ pc' = "parsed" /\ build' = build /\ raised' = raised
          /\ req' = parseInputJson(build, r) /\ pc = "idle"
        BY <1>1 DEF Parse
    <2>2. req'.isValid => Needs(build, req'.type, req'.keys)
        BY <2>1, ParsedHasKeys
    <2> QED BY <2>1, <2>2
<1>2. CASE AnswerInvalid
    BY <1>2 DEF AnswerInvalid, Answer, conf
<1>3. CASE CommonRequest
    BY <1>3 DEF CommonRequest, Handle, Answer, Escape, conf, counts, Needs, Has
<1>4. CASE NoSubscribers
    BY <1>4 DEF NoSubscribers, Handle, Answer, conf
<1>5. CASE EventRequest
    BY <1>5 DEF EventRequest, Handle, Answer, Escape, conf, counts, Needs, Has, EventReq
<1>6. CASE PipeRequestSer
    BY <1>6 DEF PipeRequestSer, Handle, Answer, conf
<1>7. CASE PipeRequestCli
    BY <1>7 DEF PipeRequestCli, Handle, Answer, Escape, conf, counts, Needs, Has
<1>8. CASE PermissionRefused
    BY <1>8 DEF PermissionRefused, Handle, Answer, conf
<1>9. CASE RequestRefused
    BY <1>9 DEF RequestRefused, Handle, Answer, conf
<1>10. CASE SendRequestAsync
    <2>1. Needs(build, req.type, req.keys) /\ req.type \in Async
        BY <1>10 DEF SendRequestAsync, Handle
    <2>2. \A key \in AsyncKeys : Has(key)
        BY <2>1 DEF Needs, AsyncKeys, Has, Async
    <2>3. pc' = "asking" /\ UNCHANGED <<conf, req, raised>> /\ pc = "parsed" /\ req.isValid
        BY <1>10, <2>2 DEF SendRequestAsync, Handle
    <2> QED BY <2>1, <2>3 DEF conf
<1>11. ASSUME NEW dev \in Device, AskDevice(dev) PROVE Inv'
    <2>1. PICK call \in processAsyncReq(req.type, req.keys, dev) :
            \/ call.result # "invalid_argument" /\ UNCHANGED <<pc, raised>>
            \/ call.result = "invalid_argument" /\ raised' = "invalid_argument" /\ pc' = "ended"
        BY <1>11 DEF AskDevice
    <2>2. UNCHANGED <<conf, req>> /\ pc = "asking"
        BY <1>11 DEF AskDevice
    <2>3. CASE UNCHANGED <<pc, raised>>
        BY <2>2, <2>3 DEF conf
    <2>4. CASE call.result = "invalid_argument" /\ raised' = "invalid_argument" /\ pc' = "ended"
        <3>1. req.type = "ATTRIBUTE_WRITE" /\ DimsRaise(req.keys)
            BY <2>2, <2>4, OnlyDimsRaise
        <3> QED BY <2>2, <2>4, <3>1 DEF conf, DimsRaise, VALUE
    <2> QED BY <2>1, <2>3, <2>4
<1>12. CASE AllAsked
    BY <1>12 DEF AllAsked, conf
<1>13. CASE UNCHANGED vars
    BY <1>13 DEF vars
<1> QED BY <1>1, <1>2, <1>3, <1>4, <1>5, <1>6, <1>7, <1>8, <1>9, <1>10, <1>11, <1>12, <1>13
        DEF Next

THEOREM InvHolds == Spec => []Inv
BY InitInv, NextInv, PTL DEF Spec

\* No handler of on_message reads a key the message does not have (the at() calls of
\* WSTangoConnCli.cpp, TangoProcessor.cpp, WSTangoConn.cpp and EventProcCli.cpp): only
\* stoi of dimX or dimY and the client mode's read_pipe end the server thread
\* (TangoProcessor.cpp:1266, WSTangoConnCli.cpp:296).
THEOREM EscapesKnown == Spec => []KnownEscapes
<1>1. Inv => KnownEscapes
    BY DEF Inv
<1> QED BY <1>1, InvHolds, PTL

-------------------------------------------------------------------------------

\* The errors the parser can find in a message.
ParseErr == {"none", "is_not_valid", "unknown_req_type", "not_supp_in_curr", "check_request"}

\* parseInputJson never blames the code.
LEMMA ParsedErr == ASSUME NEW b, NEW r PROVE parseInputJson(b, r).err \in ParseErr
<1> DEFINE k == [key \in Key |-> Kept(r.keys[key])]
<1>1. checkValidity(b, r.type_req, k).err \in ParseErr
    BY DEF checkValidity, EventValidity, CommandValidity, NamedValidity, ChangeUserValidity,
           Accepted, Refused, ParseErr
<1>2. Refused("is_not_valid").err \in ParseErr /\ Refused("unknown_req_type").err \in ParseErr
    BY DEF Refused, ParseErr
<1> HIDE DEF k
<1> QED BY <1>1, <1>2 DEF parseInputJson, k

\* The strengthening of Answered: nothing is counted before the request is handled, and
\* while the devices of a request are asked, each of those asked has its answer, and there
\* is one to be asked unless the request is for a group.
AnswerInv ==
    /\ left \in Nat /\ asked \in Nat /\ sent \in Nat /\ pending \in Nat
    /\ pc \in {"idle", "parsed"} => asked = 0 /\ sent = 0 /\ pending = 0
    /\ pc = "parsed" /\ ~req.isValid => req.err \in ParseErr
    /\ pc = "asking" => /\ req.type \in Async
                        /\ sent + pending = asked
                        /\ left + asked = 0 => grouped
    /\ err # "check_code"
    /\ Answered

\* An answer in the handler, the only one.
LEMMA AnswerKeeps ==
    ASSUME AnswerInv, pc = "parsed", NEW e, e # "check_code", Answer(e)
    PROVE  AnswerInv'
<1>1. /\ sent' = 1 /\ asked' = 0 /\ pending' = 0 /\ left' = left
      /\ err' = e /\ pc' = "done"
    BY DEF AnswerInv, Answer
<1> QED BY <1>1 DEF AnswerInv, Answered

\* What ends the server thread counts nothing any more.
LEMMA EscapeKeeps == ASSUME AnswerInv, NEW x, Escape(x) PROVE AnswerInv'
BY DEF AnswerInv, Answered, Escape, counts

LEMMA AnswerInit == Init => AnswerInv
BY DEF Init, AnswerInv, Answered

LEMMA AnswerNext == AnswerInv /\ [Next]_vars => AnswerInv'
<1> SUFFICES ASSUME AnswerInv, [Next]_vars PROVE AnswerInv'
    OBVIOUS
<1>1. ASSUME NEW r \in Request, Parse(r) PROVE AnswerInv'
    <2>1. /\ pc = "idle" /\ pc' = "parsed" /\ UNCHANGED <<left, asked, sent, pending, err>>
          /\ req'.err \in ParseErr
        BY <1>1, ParsedErr DEF Parse, counts
    <2> QED BY <2>1 DEF AnswerInv, Answered
<1>2. CASE AnswerInvalid
    BY <1>2, AnswerKeeps DEF AnswerInvalid, AnswerInv, ParseErr
<1>3. CASE CommonRequest
    BY <1>3, AnswerKeeps, EscapeKeeps DEF CommonRequest, Handle
<1>4. CASE NoSubscribers
    BY <1>4, AnswerKeeps DEF NoSubscribers, Handle
<1>5. CASE EventRequest
    <2>1. pc = "parsed"
        BY <1>5 DEF EventRequest, Handle
    <2>2. CASE req.type = "eventreq_add_dev"
        \* Silent only if every attribute list is empty.
        <3>1. /\ asked' = 0 /\ pending' = 0 /\ left' = left /\ pc' = "done"
              /\ sent' \in 0..2 /\ err' # "check_code" /\ req' = req
              /\ sent' = 0 => \A l \in EventList : req.keys[l] # "object"
            BY <1>5, <2>1, <2>2 DEF EventRequest, AnswerInv
        <3> QED BY <2>2, <3>1 DEF AnswerInv, Answered
    <2>3. CASE req.type # "eventreq_add_dev"
        BY <1>5, <2>1, <2>3, AnswerKeeps, EscapeKeeps DEF EventRequest
    <2> QED BY <2>2, <2>3
<1>6. CASE PipeRequestSer
    BY <1>6, AnswerKeeps DEF PipeRequestSer, Handle
<1>7. CASE PipeRequestCli
    BY <1>7, AnswerKeeps, EscapeKeeps DEF PipeRequestCli, Handle
<1>8. CASE PermissionRefused
    BY <1>8, AnswerKeeps DEF PermissionRefused, Handle
<1>9. CASE RequestRefused
    \* The branch of check_code is not taken: there is no other asynchronous type.
    BY <1>9, AnswerKeeps DEF RequestRefused, Handle, Async
<1>10. CASE SendRequestAsync
    <2>1. CASE \A key \in AsyncKeys : Has(key)
        <3>1. left' \in Nat /\ (left' = 0 => grouped)
            BY <1>10, <2>1, MessageAssumption DEF SendRequestAsync, DevicesToAsk
        <3> QED BY <1>10, <2>1, <3>1 DEF SendRequestAsync, Handle, AnswerInv, Answered, conf
    <2>2. CASE ~\A key \in AsyncKeys : Has(key)
        BY <1>10, <2>2, EscapeKeeps DEF SendRequestAsync
    <2> QED BY <2>1, <2>2
<1>11. ASSUME NEW dev \in Device, AskDevice(dev) PROVE AnswerInv'
    <2>1. /\ asked' = asked + 1 /\ left' = left - 1 /\ left > 0
          /\ pc = "asking" /\ UNCHANGED <<grouped, req>>
        BY <1>11 DEF AskDevice, conf
    <2>2. \/ pending' = pending + 1 /\ UNCHANGED <<pc, sent, err>>
          \/ sent' = sent + 1 /\ err' = "tango_exc" /\ UNCHANGED <<pc, pending>>
          \/ pc' = "ended" /\ pending' = 0 /\ UNCHANGED <<sent, err>>
        BY <1>11 DEF AskDevice
    <2> QED BY <2>1, <2>2 DEF AnswerInv, Answered
<1>12. CASE AllAsked
    BY <1>12 DEF AllAsked, AnswerInv, Answered, conf, counts
<1>13. CASE UNCHANGED vars
    BY <1>13 DEF vars, AnswerInv, Answered
<1> QED BY <1>1, <1>2, <1>3, <1>4, <1>5, <1>6, <1>7, <1>8, <1>9, <1>10, <1>11, <1>12, <1>13
        DEF Next

\* Whatever a message asks for, and however many devices the group has: each device asked
\* answers once, every other request is answered in the handler, and check_code is never
\* the answer.
THEOREM AlwaysAnswered == Spec => []Answered
<1>1. AnswerInv => Answered
    BY DEF AnswerInv
<1> QED BY <1>1, AnswerInit, AnswerNext, PTL DEF Spec

-------------------------------------------------------------------------------
(* Sessions *)

\* What a stored value of the query can be.
LEMMA ValueOfType ==
    ASSUME NEW S, NEW k \in S \cup {Empty, Missing}
    PROVE  ValueOf(k) \in S \cup {Empty}
BY DEF ValueOf

\* The entries sendLog can write for the session of c.
LEMMA LoggedType ==
    ASSUME TypeOK, NEW c \in Conn, NEW g \in BOOLEAN, NEW a \in Answers, NEW e \in Logged(c, g, a)
    PROVE  /\ e \in LogEntries
           /\ a \in {"yes", "no"} /\ e # NoEntry => e = Entry(login[c], a = "yes", g)
<1>1. login[c] \in Login \cup {Empty}
  BY DEF TypeOK
<1>2. \A u \in Login \cup {Empty}, s \in BOOLEAN, h \in BOOLEAN : Entry(u, s, h) \in LogEntries
  BY DEF Entry, LogEntries
<1>3. NoEntry \in LogEntries
  BY DEF LogEntries
<1>4. CASE e = NoEntry
  BY <1>3, <1>4
<1>5. CASE e = Entry(login[c], g, FALSE) /\ a = "failed"
  BY <1>1, <1>2, <1>5
<1>6. CASE e = Entry(login[c], a = "yes", g) /\ a # "failed"
  BY <1>1, <1>2, <1>6
<1> QED
  BY <1>4, <1>5, <1>6 DEF Logged, Answers

\* The record of a command has the type of last.
LEMMA CommandType ==
    ASSUME TypeOK, NEW c \in Conn, NEW hd \in BOOLEAN, NEW hg \in BOOLEAN, NEW a \in Answers,
           NEW e \in LogEntries, NEW s \in {"nothing", "one", "all"}
    PROVE  CommandSent(c, <<login[c], password[c]>>, AskedFor(hd, hg) = "all", AskedFor(hd, hg),
                       a, s, e)
             \in Commands
<1>1. <<login[c], password[c]>> \in (Login \cup {Empty}) \X (Pass \cup {Empty})
  BY DEF TypeOK
<1>2. AskedFor(hd, hg) \in {"one", "all"}
  BY ConstantsAssumption DEF AskedFor, TypeOK
<1>3. a \in {"yes", "no", "failed", "away"}
  BY DEF Answers
<1> QED
  BY <1>1, <1>2, <1>3 DEF CommandSent, Commands

\* What a step of SendCommand does.
LEMMA SendCommandStep ==
    ASSUME TypeOK, NEW c \in Conn, NEW hd \in BOOLEAN, NEW hg \in BOOLEAN, SendCommand(c, hd, hg)
    PROVE  \E a \in Answers, e \in LogEntries :
             /\ last' = CommandSent(c, <<login[c], password[c]>>, AskedFor(hd, hg) = "all",
                                    AskedFor(hd, hg), a,
                                    IF a = "yes" THEN SentTo(hd, hg) ELSE "nothing", e)
             /\ a \in {"yes", "no"} /\ e # NoEntry =>
                  e = Entry(login[c], a = "yes", AskedFor(hd, hg) = "all")
             /\ SentTo(hd, hg) \in {"one", "all"}
             /\ UNCHANGED <<config, session>>
<1>1. PICK a \in Answers : \E e \in Logged(c, AskedFor(hd, hg) = "all", a) :
            last' = CommandSent(c, <<login[c], password[c]>>, AskedFor(hd, hg) = "all",
                                AskedFor(hd, hg), a,
                                IF a = "yes" THEN SentTo(hd, hg) ELSE "nothing", e)
  BY DEF SendCommand
<1>2. PICK e \in Logged(c, AskedFor(hd, hg) = "all", a) :
            last' = CommandSent(c, <<login[c], password[c]>>, AskedFor(hd, hg) = "all",
                                AskedFor(hd, hg), a,
                                IF a = "yes" THEN SentTo(hd, hg) ELSE "nothing", e)
  BY <1>1
<1>3. /\ e \in LogEntries
      /\ a \in {"yes", "no"} /\ e # NoEntry =>
           e = Entry(login[c], a = "yes", AskedFor(hd, hg) = "all")
  BY <1>2, LoggedType
<1>4. SentTo(hd, hg) \in {"one", "all"}
  BY ConstantsAssumption DEF SentTo, TypeOK
<1>5. UNCHANGED <<config, session>>
  BY DEF SendCommand
<1> QED
  BY <1>2, <1>3, <1>4, <1>5

LEMMA InitTypeOK == SessionsInit => TypeOK
BY DEF SessionsInit, TypeOK, IdentOf, ToiOf, LogOf, NoCred, NoCommand, Commands

LEMMA NextTypeOK == TypeOK /\ [SessionsNext]_sessionVars => TypeOK'
<1> SUFFICES ASSUME TypeOK, [SessionsNext]_sessionVars PROVE TypeOK'
  OBVIOUS
<1>1. ASSUME NEW c \in Conn, NEW gl \in Login \cup {Empty, Missing},
             NEW gp \in Pass \cup {Empty, Missing}, NEW answer \in {"yes", "no", "away"},
             OnOpen(c, gl, gp, answer)
      PROVE  TypeOK'
  <2>1. ValueOf(gl) \in Login \cup {Empty} /\ ValueOf(gp) \in Pass \cup {Empty}
    BY ValueOfType
  <2>2. UNCHANGED <<config, last>>
    BY <1>1 DEF OnOpen
  <2>3. /\ open' \in SUBSET Conn
        /\ login' \in [Conn -> Login \cup {Empty}]
        /\ password' \in [Conn -> Pass \cup {Empty}]
        /\ assigned' \in [Conn -> BOOLEAN]
        /\ told' \in [Conn -> (Login \cup {Empty}) \X (Pass \cup {Empty})]
    BY <1>1, <2>1 DEF OnOpen, TypeOK, NoCred
  <2>4. userCheckStatus' \in [Conn -> BOOLEAN]
    BY <1>1 DEF OnOpen, TypeOK, GetStatus, CheckedStatus
  <2>5. confirmed' \in [Conn -> SUBSET Login]
    BY <1>1, <2>1 DEF OnOpen, TypeOK
  <2> QED
    BY <2>2, <2>3, <2>4, <2>5 DEF TypeOK, config
<1>2. ASSUME NEW c \in Conn, OnClose(c) PROVE TypeOK'
  BY <1>2 DEF OnClose, TypeOK, config, NoCred
<1>3. ASSUME NEW c \in Conn, NEW l \in Login, NEW p \in Pass, NEW answer \in {"yes", "no", "away"},
             ChangeUser(c, l, p, answer)
      PROVE  TypeOK'
  BY <1>3 DEF ChangeUser, TypeOK, config
<1>4. ASSUME NEW c \in Conn, NEW l \in Login, NEW p \in Pass, ChangeToSameUser(c, l, p)
      PROVE  TypeOK'
  BY <1>4 DEF ChangeToSameUser, TypeOK, config
<1>5. ASSUME NEW c \in Conn, NEW hd \in BOOLEAN, NEW hg \in BOOLEAN, SendCommand(c, hd, hg)
      PROVE  TypeOK'
  <2>1. PICK a \in Answers, e \in LogEntries :
             /\ last' = CommandSent(c, <<login[c], password[c]>>, AskedFor(hd, hg) = "all",
                                    AskedFor(hd, hg), a,
                                    IF a = "yes" THEN SentTo(hd, hg) ELSE "nothing", e)
             /\ SentTo(hd, hg) \in {"one", "all"}
    BY <1>5, SendCommandStep
  <2>2. (IF a = "yes" THEN SentTo(hd, hg) ELSE "nothing") \in {"nothing", "one", "all"}
    BY <2>1
  <2>3. last' \in Commands
    BY <2>1, <2>2, CommandType
  <2> QED
    BY <1>5, <2>3 DEF SendCommand, TypeOK, config, session
<1>6. CASE UNCHANGED sessionVars
  BY <1>6 DEF TypeOK, sessionVars, config, session
<1> QED
  BY <1>1, <1>2, <1>3, <1>4, <1>5, <1>6 DEF SessionsNext

\* Every variable has its type in every reachable state.
THEOREM TypeCorrect == SessionsSpec => []TypeOK
BY InitTypeOK, NextTypeOK, PTL DEF SessionsSpec

\* The options are read once.
LEMMA ConfigStays == [SessionsNext]_sessionVars => UNCHANGED config
<1> SUFFICES ASSUME [SessionsNext]_sessionVars PROVE UNCHANGED config
  OBVIOUS
<1>1. ASSUME NEW c \in Conn, NEW gl \in Login \cup {Empty, Missing},
             NEW gp \in Pass \cup {Empty, Missing}, NEW answer \in {"yes", "no", "away"},
             OnOpen(c, gl, gp, answer)
      PROVE  UNCHANGED config
  BY <1>1 DEF OnOpen
<1>2. ASSUME NEW c \in Conn, OnClose(c) PROVE UNCHANGED config
  BY <1>2 DEF OnClose
<1>3. ASSUME NEW c \in Conn, NEW l \in Login, NEW p \in Pass,
             ChangeToSameUser(c, l, p) \/ \E answer \in {"yes", "no", "away"} : ChangeUser(c, l, p, answer)
      PROVE  UNCHANGED config
  BY <1>3 DEF ChangeToSameUser, ChangeUser
<1>4. ASSUME NEW c \in Conn, NEW hd \in BOOLEAN, NEW hg \in BOOLEAN, SendCommand(c, hd, hg)
      PROVE  UNCHANGED config
  BY <1>4 DEF SendCommand
<1>5. CASE UNCHANGED sessionVars
  BY <1>5 DEF sessionVars
<1> QED
  BY <1>1, <1>2, <1>3, <1>4, <1>5 DEF SessionsNext

LEMMA NextAuthenticated ==
    TypeOK /\ AuthenticatedAsLogin /\ [SessionsNext]_sessionVars => AuthenticatedAsLogin'
<1> SUFFICES ASSUME TypeOK, AuthenticatedAsLogin, [SessionsNext]_sessionVars,
                    typeOfIdent' = "SIMPLE",
                    NEW d \in open', assigned'[d], userCheckStatus'[d]
             PROVE  login'[d] \in confirmed'[d]
  BY DEF AuthenticatedAsLogin
<1>0. typeOfIdent' = typeOfIdent
  BY ConfigStays DEF config
<1>1. typeOfIdent = "SIMPLE"
  BY <1>0
<1>2. ASSUME NEW c \in Conn, NEW gl \in Login \cup {Empty, Missing},
             NEW gp \in Pass \cup {Empty, Missing}, NEW answer \in {"yes", "no", "away"},
             OnOpen(c, gl, gp, answer)
      PROVE  login'[d] \in confirmed'[d]
  <2>1. CASE d # c
    BY <1>1, <1>2, <2>1 DEF OnOpen, TypeOK, AuthenticatedAsLogin
  <2>2. CASE d = c
    <3>1. CASE CheckedStatus(ValueOf(gl), ValueOf(gp), answer) = {TRUE}
      BY <1>1, <1>2, <2>2, <3>1 DEF OnOpen, TypeOK, CheckedStatus
    <3>2. CASE CheckedStatus(ValueOf(gl), ValueOf(gp), answer) = {FALSE}
      BY <1>1, <1>2, <2>2, <3>2 DEF OnOpen, TypeOK
    <3>3. CASE CheckedStatus(ValueOf(gl), ValueOf(gp), answer) = {}
      <4>1. GetStatus(gl, gp) \in {{FALSE}, {}}
        BY <1>1 DEF GetStatus
      <4> QED
        BY <1>1, <1>2, <2>2, <3>3, <4>1 DEF OnOpen, TypeOK
    <3> QED
      BY <1>1, <3>1, <3>2, <3>3 DEF CheckedStatus
  <2> QED
    BY <2>1, <2>2
<1>3. ASSUME NEW c \in Conn, OnClose(c) PROVE login'[d] \in confirmed'[d]
  BY <1>1, <1>3 DEF OnClose, TypeOK, AuthenticatedAsLogin
<1>4. ASSUME NEW c \in Conn, NEW l \in Login, NEW p \in Pass, NEW answer \in {"yes", "no", "away"},
             ChangeUser(c, l, p, answer)
      PROVE  login'[d] \in confirmed'[d]
  BY <1>1, <1>4 DEF ChangeUser, TypeOK, AuthenticatedAsLogin
<1>5. ASSUME NEW c \in Conn, NEW l \in Login, NEW p \in Pass, ChangeToSameUser(c, l, p)
      PROVE  login'[d] \in confirmed'[d]
  BY <1>1, <1>5 DEF ChangeToSameUser, AuthenticatedAsLogin
<1>6. ASSUME NEW c \in Conn, NEW hd \in BOOLEAN, NEW hg \in BOOLEAN, SendCommand(c, hd, hg)
      PROVE  login'[d] \in confirmed'[d]
  BY <1>1, <1>6 DEF SendCommand, session, AuthenticatedAsLogin
<1>7. CASE UNCHANGED sessionVars
  BY <1>1, <1>7 DEF sessionVars, session, AuthenticatedAsLogin
<1> QED
  BY <1>2, <1>3, <1>4, <1>5, <1>6, <1>7 DEF SessionsNext

\* A checked session speaks for a user AuthDS confirmed on that connection.
THEOREM SessionsAuthenticated == SessionsSpec => []AuthenticatedAsLogin
<1>1. SessionsInit => AuthenticatedAsLogin
  BY DEF SessionsInit, AuthenticatedAsLogin
<1> QED
  BY <1>1, TypeCorrect, NextAuthenticated, PTL DEF SessionsSpec

\* A command reaches Tango only when AuthDS permitted it for the confirmed user.
THEOREM SendsAuthorised == SessionsSpec => AuthorisedSends
<1>1. TypeOK /\ AuthenticatedAsLogin /\ [SessionsNext]_sessionVars =>
        [last' # last /\ last'.sentTo # "nothing" =>
          LET c == last'.conn IN
          /\ last'.answer = "yes"
          /\ last'.cred = <<login[c], password[c]>>
          /\ typeOfIdent = "SIMPLE" /\ assigned[c] => last'.cred[1] \in confirmed[c]]_last
  <2> SUFFICES ASSUME TypeOK, AuthenticatedAsLogin, [SessionsNext]_sessionVars, last' # last,
                      last'.sentTo # "nothing"
               PROVE  /\ last'.answer = "yes"
                      /\ last'.cred = <<login[last'.conn], password[last'.conn]>>
                      /\ typeOfIdent = "SIMPLE" /\ assigned[last'.conn] =>
                            last'.cred[1] \in confirmed[last'.conn]
    OBVIOUS
  <2>1. PICK c \in Conn, hd \in BOOLEAN, hg \in BOOLEAN : SendCommand(c, hd, hg)
    BY DEF SessionsNext, OnOpen, OnClose, ChangeUser, ChangeToSameUser, sessionVars
  <2>2. PICK a \in Answers, e \in LogEntries :
            last' = CommandSent(c, <<login[c], password[c]>>, AskedFor(hd, hg) = "all",
                                AskedFor(hd, hg), a,
                                IF a = "yes" THEN SentTo(hd, hg) ELSE "nothing", e)
    BY <2>1, SendCommandStep
  <2>3. /\ last'.conn = c
        /\ last'.answer = a
        /\ last'.cred = <<login[c], password[c]>>
        /\ last'.sentTo = IF a = "yes" THEN SentTo(hd, hg) ELSE "nothing"
    BY <2>2 DEF CommandSent
  <2>4. c \in open /\ userCheckStatus[c]
    BY <2>1 DEF SendCommand
  <2>5. last'.cred[1] = login[c]
    BY <2>3
  <2> QED
    BY <2>3, <2>4, <2>5 DEF AuthenticatedAsLogin
<1> QED
  BY <1>1, TypeCorrect, SessionsAuthenticated, PTL DEF SessionsSpec, AuthorisedSends

LEMMA NextLogged ==
    TypeOK /\ LoggedAsDecided /\ SentWhereAsked /\ [SessionsNext]_sessionVars
        => LoggedAsDecided' /\ SentWhereAsked'
<1> SUFFICES ASSUME TypeOK, LoggedAsDecided, SentWhereAsked, [SessionsNext]_sessionVars
             PROVE  LoggedAsDecided' /\ SentWhereAsked'
  OBVIOUS
<1>1. CASE UNCHANGED <<config, last>>
  BY <1>1 DEF LoggedAsDecided, SentWhereAsked, config
<1>2. ASSUME NEW c \in Conn, NEW hd \in BOOLEAN, NEW hg \in BOOLEAN, SendCommand(c, hd, hg)
      PROVE  LoggedAsDecided' /\ SentWhereAsked'
  <2>1. PICK a \in Answers, e \in LogEntries :
             /\ last' = CommandSent(c, <<login[c], password[c]>>, AskedFor(hd, hg) = "all",
                                    AskedFor(hd, hg), a,
                                    IF a = "yes" THEN SentTo(hd, hg) ELSE "nothing", e)
             /\ a \in {"yes", "no"} /\ e # NoEntry =>
                  e = Entry(login[c], a = "yes", AskedFor(hd, hg) = "all")
             /\ SentTo(hd, hg) \in {"one", "all"}
             /\ UNCHANGED <<config, session>>
    BY <1>2, SendCommandStep
  <2>2. /\ last'.cred[1] = login[c]
        /\ last'.answer = a
        /\ last'.entry = e
        /\ last'.isGroup = (AskedFor(hd, hg) = "all")
        /\ last'.asked = AskedFor(hd, hg)
        /\ last'.sentTo = IF a = "yes" THEN SentTo(hd, hg) ELSE "nothing"
    BY <2>1 DEF CommandSent
  <2>3. (last'.sentTo # "nothing") = (a = "yes")
    BY <2>1, <2>2
  <2>4. LoggedAsDecided'
    BY <2>1, <2>2, <2>3 DEF LoggedAsDecided
  <2>5. SentTo(hd, hg) = AskedFor(hd, hg) \/ (mode = "group" /\ AskedFor(hd, hg) = "one")
    BY DEF SentTo, AskedFor, TypeOK
  <2>6. mode' = mode
    BY <2>1 DEF config
  <2> QED
    BY <2>2, <2>4, <2>5, <2>6 DEF SentWhereAsked
<1> QED
  BY <1>1, <1>2 DEF SessionsNext, OnOpen, OnClose, ChangeUser, ChangeToSameUser, sessionVars

\* The log tells what AuthDS decided, and requests go where it was asked about.
THEOREM LogFollowsDecision == SessionsSpec => []DecisionKept
<1>1. SessionsInit => LoggedAsDecided /\ SentWhereAsked
  BY DEF SessionsInit, LoggedAsDecided, SentWhereAsked, NoCommand
<1>2. LoggedAsDecided /\ SentWhereAsked => DecisionKept
  BY DEF DecisionKept
<1> QED
  BY <1>1, <1>2, TypeCorrect, NextLogged, PTL DEF SessionsSpec

\* Every accepted change of user stores the name it confirms, and nothing else touches either.
LEMMA NextTold == TypeOK /\ ToldIsUser /\ [SessionsNext]_sessionVars => ToldIsUser'
<1> SUFFICES ASSUME TypeOK, ToldIsUser, [SessionsNext]_sessionVars,
                    NEW d \in open', told'[d] # NoCred
             PROVE  told'[d][1] = login'[d]
  BY DEF ToldIsUser
<1>1. ASSUME NEW c \in Conn, NEW gl \in Login \cup {Empty, Missing},
             NEW gp \in Pass \cup {Empty, Missing}, NEW answer \in {"yes", "no", "away"},
             OnOpen(c, gl, gp, answer)
      PROVE  told'[d][1] = login'[d]
  BY <1>1 DEF OnOpen, TypeOK, ToldIsUser
<1>2. ASSUME NEW c \in Conn, OnClose(c) PROVE told'[d][1] = login'[d]
  BY <1>2 DEF OnClose, TypeOK, ToldIsUser
<1>3. ASSUME NEW c \in Conn, NEW l \in Login, NEW p \in Pass, NEW answer \in {"yes", "no", "away"},
             ChangeUser(c, l, p, answer)
      PROVE  told'[d][1] = login'[d]
  BY <1>3 DEF ChangeUser, TypeOK, ToldIsUser
<1>4. ASSUME NEW c \in Conn, NEW l \in Login, NEW p \in Pass, ChangeToSameUser(c, l, p)
      PROVE  told'[d][1] = login'[d]
  BY <1>4 DEF ChangeToSameUser, SameUser, TypeOK, ToldIsUser
<1>5. ASSUME NEW c \in Conn, NEW hd \in BOOLEAN, NEW hg \in BOOLEAN, SendCommand(c, hd, hg)
      PROVE  told'[d][1] = login'[d]
  BY <1>5 DEF SendCommand, session, ToldIsUser
<1>6. CASE UNCHANGED sessionVars
  BY <1>6 DEF sessionVars, session, ToldIsUser
<1> QED
  BY <1>1, <1>2, <1>3, <1>4, <1>5, <1>6 DEF SessionsNext

\* The client is the user it was last told to be (change_user_smpl).
THEOREM ToldTheUser == SessionsSpec => []ToldIsUser
<1>1. SessionsInit => ToldIsUser
  BY DEF SessionsInit, ToldIsUser
<1> QED
  BY <1>1, TypeCorrect, NextTold, PTL DEF SessionsSpec
===============================================================================
