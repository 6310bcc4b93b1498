---------------------------- MODULE ParsingInputJson ----------------------------
(***************************************************************************)
(* Requests: how a JSON message of a client becomes a ParsedInputJson, and *)
(* which of these are valid. A message is abstracted to its type_req and   *)
(* to the shape of the value of each key; build is "CLIENT_MODE" or        *)
(* "SERVER_MODE".                                                          *)
(***************************************************************************)

Command   == {"command", "command_device", "command_group", "command_device_cl"}
PipeComm  == {"read_pipe", "read_pipe_dev", "read_pipe_gr"}
AttrWrite == {"write_attr", "write_attr_dev", "write_attr_gr", "write_attr_dev_cl"}
AttrRead  == {"read_attr", "read_attr_dev", "read_attr_gr", "attr_group_cl"}
EventReq  == {"eventreq_add_dev", "eventreq_rem_dev", "eventreq_off", "eventreq_check_dev"}

\* The strings typeWsReqFromString knows.
TypeReq == Command \cup PipeComm \cup AttrWrite \cup AttrRead \cup EventReq
             \cup {"attr_device_cl", "user_status", "change_user_smpl"}

EventList == {"periodic", "change", "user", "archive"}

\* The keys the program asks for, other than type_req and id.
Key == {"command_name", "device_name", "pipe_name", "attr_name", "argin", "dimX", "dimY",
        "group_request", "login", "password", "event_sub_id", "event_type", "device",
        "attribute"} \cup EventList

\* The value of a key in the message. "digit" is a number of one character; "hollow" is an
\* object whose members are all empty, "bare" one whose members are arrays of no value;
\* "nested" is an array that contains arrays or objects, "empty" is "", {} or [].
Raw == {"absent", "empty", "nested", "true", "digit", "text", "digits", "texts",
        "object", "hollow", "bare"}

\* TYPE_OF_VAL::VALUE, ARRAY and OBJECT.
VALUE  == {"true", "digit", "text"}
ARRAY  == {"digits", "texts"}
OBJECT == {"object", "hollow", "bare"}

\* A parser for which "" is a value.
KeptEmpty(raw) == IF raw = "nested" THEN "absent" ELSE raw

\* What parseInputJson keeps of a value: "" counts as no value, an array of anything but
\* values is dropped.
Kept(raw) == IF raw \in {"empty", "nested"} THEN "absent" ELSE raw

\* _getEventSubList: devices whose value is empty are left out of the list.
HasDevices(list) == list \in {"object", "bare"}

-------------------------------------------------------------------------------

Accepted(type) == [isValid |-> TRUE, type |-> type, err |-> "none"]
Refused(err) == [isValid |-> FALSE, type |-> "unknown", err |-> err]

\* The event requests are known to the client mode only.
EventValidity(build, type, k) ==
    LET valid == CASE type = "eventreq_add_dev" -> \E l \in EventList : HasDevices(k[l])
                   [] type = "eventreq_rem_dev" -> k["event_sub_id"] \in VALUE
                   [] type = "eventreq_check_dev" ->
                        \A key \in {"event_type", "device", "attribute"} : k[key] \in VALUE
                   [] OTHER -> TRUE
    IN IF build = "SERVER_MODE" THEN Refused("not_supp_in_curr")
       ELSE IF valid THEN Accepted(type) ELSE Refused("check_request")

\* A CommandValidity that does not look for the device in client mode.
CommandValidityAnyDevice(build, type, k) ==
    IF k["command_name"] \notin VALUE THEN Refused("check_request")
    ELSE IF build = "SERVER_MODE" /\ type = "command_device_cl" THEN Refused("not_supp_in_curr")
    ELSE Accepted("COMMAND")

CommandValidity(build, type, k) ==
    IF k["command_name"] \notin VALUE THEN Refused("check_request")
    ELSE IF \/ build = "SERVER_MODE" /\ type = "command_device_cl"
            \/ build = "CLIENT_MODE" /\ k["device_name"] \notin VALUE
         THEN Refused("not_supp_in_curr")
    ELSE Accepted("COMMAND")

\* Pipe and attribute requests, which need key; in client mode the device as well.
NamedValidity(build, key, kinds, type, k) ==
    IF \/ k[key] \notin kinds
       \/ build = "CLIENT_MODE" /\ k["device_name"] \notin VALUE
    THEN Refused("check_request") ELSE Accepted(type)

ChangeUserValidity(k) ==
    IF k["login"] \in VALUE /\ k["password"] \in VALUE
    THEN Accepted("CHANGE_USER") ELSE Refused("check_request")

\* _checkValidity
checkValidity(build, type, k) ==
    CASE type \in EventReq -> EventValidity(build, type, k)
      [] type \in Command -> CommandValidity(build, type, k)
      [] type \in PipeComm -> NamedValidity(build, "pipe_name", VALUE, "PIPE_COMM", k)
      [] type \in AttrWrite -> NamedValidity(build, "attr_name", VALUE, "ATTRIBUTE_WRITE", k)
      [] type \in AttrRead ->
            NamedValidity(build, "attr_name", VALUE \cup ARRAY, "ATTRIBUTE_READ", k)
      [] type = "change_user_smpl" -> ChangeUserValidity(k)
      [] type = "user_status" -> Accepted("USER_CHECK_STATUS")
      [] OTHER -> Refused("unknown_req_type")

\* parseInputJson of the message [json, type_req, keys]: broken JSON is told from JSON with
\* no, an empty or an unknown type_req.
parseInputJson(build, r) ==
    LET k == [key \in Key |-> Kept(r.keys[key])]
        checked == CASE r.json = "broken" -> Refused("is_not_valid")
                     [] r.json = "parsed" /\ r.type_req \notin TypeReq ->
                          Refused("unknown_req_type")
                     [] OTHER -> checkValidity(build, r.type_req, k)
    IN [isValid |-> checked.isValid, type |-> checked.type, err |-> checked.err, keys |-> k]

===============================================================================
