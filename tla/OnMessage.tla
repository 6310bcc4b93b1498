------------------------------- MODULE OnMessage -------------------------------
(***************************************************************************)
(* One message of a client, from the text to its answers: on_message with  *)
(* the handlers it calls in both builds. In WSThread a request is answered *)
(* at once, in the background or ends the server; this module says which   *)
(* requests do what, and why.                                              *)
(***************************************************************************)
EXTENDS TangoProcessor, Naturals

CONSTANTS
    Request,   \* the messages considered: [json, type_req, keys]
    Device,    \* the Tango devices considered: [in, data, format]
    MaxDevs    \* bound: devices of a group

ASSUME MessageAssumption ==
    /\ Request \subseteq [json : {"parsed", "broken"}, type_req : STRING, keys : [Key -> Raw]]
    /\ Device \subseteq [in : InType, data : DataType, format : DataFormat]
    /\ MaxDevs \in Nat

VARIABLES
    build,    \* CLIENT_MODE or SERVER_MODE
    grouped,  \* server mode: _isGroup; client mode: isGroupReq of this request
    pc,       \* where on_message is
    req,      \* ParsedInputJson of the message
    left,     \* devices still to be asked
    asked,    \* devices asked
    sent,     \* messages sent in the handler
    pending,  \* asynchronous requests that will be answered by checkActions
    err,      \* type_err of the last error sent
    raised    \* exception that leaves on_message

vars == <<build, grouped, pc, req, left, asked, sent, pending, err, raised>>
conf == <<build, grouped>>
counts == <<left, asked, sent, pending>>

Init ==
    /\ build \in {"CLIENT_MODE", "SERVER_MODE"}
    /\ grouped \in BOOLEAN
    /\ pc = "idle"
    /\ req = [isValid |-> FALSE]
    /\ left = 0 /\ asked = 0 /\ sent = 0 /\ pending = 0
    /\ err = "none"
    /\ raised = "none"

-------------------------------------------------------------------------------

Has(key) == req.keys[key] \in VALUE

\* "group_request": true
GroupRequest == req.keys["group_request"] = "true"

\* An answer in the handler, e its type_err.
Answer(e) ==
    /\ sent' = sent + 1
    /\ err' = e
    /\ pc' = "done"
    /\ UNCHANGED <<conf, req, left, asked, pending, raised>>

\* An exception that is no runtime_error leaves on_message.
Escape(exception) ==
    /\ raised' = exception
    /\ pc' = "ended"
    /\ UNCHANGED <<conf, req, counts, err>>

\* The handler is past the validity check, with a request of one of types.
Handle(types) == pc = "parsed" /\ req.isValid /\ req.type \in types

-------------------------------------------------------------------------------

\* parseInputJson
Parse(r) ==
    /\ pc = "idle"
    /\ req' = parseInputJson(build, r)
    /\ grouped' = IF build = "CLIENT_MODE"
                  THEN Kept(r.keys["group_request"]) = "true" ELSE grouped
    /\ pc' = "parsed"
    /\ UNCHANGED <<build, counts, err, raised>>

\* An invalid message is answered with the error of the parser.
AnswerInvalid ==
    /\ pc = "parsed"
    /\ ~req.isValid
    /\ Answer(req.err)

\* commonRequsts; sendRequest_ForAuth looks login and password up.
CommonRequest ==
    /\ Handle({"USER_CHECK_STATUS", "CHANGE_USER"})
    /\ IF req.type = "CHANGE_USER" /\ ~(Has("login") /\ Has("password"))
       THEN Escape("out_of_range") ELSE Answer("none")

\* sendRequest_Event when nobody has subscribed yet.
NoSubscribers ==
    /\ Handle(EventReq \ {"eventreq_add_dev"})
    /\ Answer("not_subscr_yet")

\* EventProcCli::request. One message tells the successes of an eventreq_add_dev and one
\* its failures; a device without attributes can only fail itself.
EventRequest ==
    /\ Handle(EventReq)
    /\ CASE req.type = "eventreq_add_dev" ->
              /\ sent' \in IF \E l \in EventList : req.keys[l] = "object" THEN 1..2 ELSE 0..1
              /\ err' \in {"none", "event"}
              /\ pc' = "done"
              /\ UNCHANGED <<conf, req, left, asked, pending, raised>>
         [] req.type = "eventreq_check_dev" ->
              IF \A key \in {"event_type", "device", "attribute"} : Has(key)
              THEN Answer("none") \/ Answer("is_not_valid") \/ Answer("event")
              ELSE Escape("out_of_range")
         [] OTHER -> Answer("none") \/ Answer("event")

\* sendRequest_PipeComm of the server mode catches every exception.
PipeRequestSer ==
    /\ build = "SERVER_MODE"
    /\ Handle({"PIPE_COMM"})
    /\ Answer("none") \/ Answer("tango_exc") \/ Answer("init_failed")

\* In client mode the DevFailed of read_pipe passes, unless the request is for a group.
PipeRequestCli ==
    /\ build = "CLIENT_MODE"
    /\ Handle({"PIPE_COMM"})
    /\ IF Has("device_name") /\ Has("pipe_name")
       THEN \/ Answer("none") \/ Answer("tango_exc")
            \/ ~grouped /\ Escape("DevFailed")
       ELSE Escape("out_of_range")

\* An _isAsyncRequest that counts the pipes in.
AsyncWide == {"COMMAND", "ATTRIBUTE_READ", "ATTRIBUTE_WRITE", "PIPE_COMM"}

\* _isAsyncRequest
Async == {"COMMAND", "ATTRIBUTE_READ", "ATTRIBUTE_WRITE"}

\* checkPermissionForRequest refuses.
PermissionRefused ==
    /\ Handle({"COMMAND", "ATTRIBUTE_WRITE"})
    /\ Answer("auth_perm")

\* sendRequestAsync refuses before any device is asked: the server is not initialised, the
\* DeviceProxy or the group cannot be made, the device is not in the group; a request of
\* another type would be an error of the code.
RequestRefused ==
    /\ Handle(Async)
    /\ IF req.type \in {"COMMAND", "ATTRIBUTE_READ", "ATTRIBUTE_WRITE"}
       THEN Answer("tango_exc") \/ (build = "SERVER_MODE" /\ Answer("init_failed"))
       ELSE Answer("check_code")

\* How many devices processAsyncReq asks: in a group of the server mode, device_name picks
\* one unless group_request is given.
DevicesToAsk ==
    IF grouped /\ (build = "SERVER_MODE" /\ Has("device_name") => GroupRequest)
    THEN 0..MaxDevs ELSE {1}

\* The keys sendRequestAsync and the functions it calls read with at().
AsyncKeys ==
    (IF build = "CLIENT_MODE" THEN {"device_name"} ELSE {})
      \cup (IF req.type = "COMMAND" THEN {"command_name"} ELSE {})
      \cup (IF req.type = "ATTRIBUTE_WRITE" THEN {"attr_name"} ELSE {})

\* sendRequestAsync goes on to the devices.
SendRequestAsync ==
    /\ Handle(Async)
    /\ IF \A key \in AsyncKeys : Has(key)
       THEN /\ left' \in DevicesToAsk
            /\ pc' = "asking"
            /\ UNCHANGED <<conf, req, asked, sent, pending, err, raised>>
       ELSE Escape("out_of_range")

\* An AskDevice that gives up the group with the first device that refuses.
AskDeviceOrStop(dev) ==
    /\ pc = "asking" /\ left > 0
    /\ asked' = asked + 1
    /\ \E call \in processAsyncReq(req.type, req.keys, dev) :
        /\ call.result # "invalid_argument"
        /\ left' = IF call.result = "issued" THEN left - 1 ELSE 0
        /\ pending' = IF call.result = "issued" THEN pending + 1 ELSE 0
        /\ sent' = IF call.result = "issued" THEN sent ELSE sent + 1
        /\ UNCHANGED <<conf, req, pc, err, raised>>

\* processAsyncReq of one device: a request is under way, or the device has refused and an
\* error is sent, or the exception of stoi ends everything.
AskDevice(dev) ==
    /\ pc = "asking" /\ left > 0
    /\ asked' = asked + 1
    /\ left' = left - 1
    /\ \E call \in processAsyncReq(req.type, req.keys, dev) :
        \/ /\ call.result = "issued"
           /\ pending' = pending + 1
           /\ UNCHANGED <<pc, sent, err, raised>>
        \/ /\ call.result = "refused"
           /\ sent' = sent + 1
           /\ err' = "tango_exc"
           /\ UNCHANGED <<pc, pending, raised>>
        \/ /\ call.result = "invalid_argument"
           /\ raised' = "invalid_argument"
           /\ pc' = "ended"
           /\ pending' = 0
           /\ UNCHANGED <<sent, err>>
    /\ UNCHANGED <<conf, req>>

\* addActive with what is pending; the errors of a group were sent.
AllAsked ==
    /\ pc = "asking" /\ left = 0
    /\ pc' = "done"
    /\ UNCHANGED <<conf, req, counts, err, raised>>

Next ==
    \/ \E r \in Request : Parse(r)
    \/ AnswerInvalid \/ CommonRequest \/ NoSubscribers \/ EventRequest
    \/ PipeRequestSer \/ PipeRequestCli
    \/ PermissionRefused \/ RequestRefused \/ SendRequestAsync
    \/ \E dev \in Device : AskDevice(dev)
    \/ AllAsked

Spec == Init /\ [][Next]_vars

-------------------------------------------------------------------------------

\* The exceptions that end the server thread are these two and no other, whichever keys a
\* client leaves out or gives the wrong shape: the invalid_argument of stoi for a dimension
\* in a write request, and the DevFailed of read_pipe for a single device in client mode.
\* In particular what _checkValidity lets pass is enough for every at() of the handlers.
KnownEscapes ==
    raised # "none" =>
        \/ /\ raised = "invalid_argument"
           /\ req.type = "ATTRIBUTE_WRITE"
           /\ \E dim \in {"dimX", "dimY"} : req.keys[dim] \in {"true", "text"}
        \/ /\ raised = "DevFailed"
           /\ build = "CLIENT_MODE" /\ req.type = "PIPE_COMM" /\ ~grouped

\* Every message has its answers: each device asked answers once, now or later, and every
\* other request is answered in the handler. Silence has two reasons only: a group of no
\* device, and a subscription to no attribute. check_code, "should not be reported during
\* normal operation" (README.md:174), is never the answer.
Answered ==
    pc = "done" =>
        /\ err # "check_code"
        /\ CASE asked > 0 -> sent + pending = asked
             [] asked = 0 /\ sent = 0 -> \/ grouped /\ req.type \in Async
                                         \/ /\ req.type = "eventreq_add_dev"
                                            /\ \A l \in EventList : req.keys[l] # "object"
             [] OTHER -> sent = 1 \/ (sent = 2 /\ req.type = "eventreq_add_dev")

===============================================================================
