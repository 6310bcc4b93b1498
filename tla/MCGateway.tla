------------------------------- MODULE MCGateway -------------------------------
(***************************************************************************)
(* The gateway of a connection: instances of WSTangoConn and OnMessage.    *)
(* Both run on asio's thread, so no session changes while a message is     *)
(* handled; and what becomes of a message depends on no session, so the    *)
(* messages are tried once, before anybody has opened.                     *)
(***************************************************************************)
EXTENDS OnMessage, WSTangoConn, TLC

GatewayInit ==
    /\ Init
    /\ SessionsInit
    /\ build = IF mode = "client" THEN "CLIENT_MODE" ELSE "SERVER_MODE"
    /\ mode # "client" => (grouped <=> mode = "group")

GatewayNext ==
    \/ /\ pc = "idle" /\ (mode = "client" => ~grouped)
       /\ SessionsNext
       /\ UNCHANGED vars
    \/ /\ open = {} /\ last = NoCommand /\ ~isLogActive /\ toi = "SIMPLE"
       /\ Next
       /\ UNCHANGED sessionVars

GatewaySpec == GatewayInit /\ [][GatewayNext]_<<vars, sessionVars>>

-------------------------------------------------------------------------------
(* Sessions. *)

\* Both ways to identify users, with and without the log, and options that disagree.
AllOptions == {<<>>, <<"uselog">>, <<"permission_www">>, <<"permission_www", "uselog">>,
               <<"permission_www", "smpl", "uselog">>}

\* Users and passwords are interchangeable: no property is about liveness.
Symmetry == Permutations(Login) \cup Permutations(Pass)

-------------------------------------------------------------------------------
(* Messages: every shape of the keys each handler asks for; the others are left out. *)

Name == {"absent", "text", "texts", "object"}
Arg0 == {"absent", "true", "digit", "text", "digits", "texts", "object"}
Flag == {"absent", "true", "text"}
List == {"absent", "nested", "text", "object", "hollow", "bare"}

Msg(type, f) ==
    [json |-> "parsed", type_req |-> type,
     keys |-> [key \in Key |-> IF key \in DOMAIN f THEN f[key] ELSE "absent"]]

\* Key shapes of each type of request.
Shapes(type) ==
    CASE type \in Command ->
            [command_name : Name, device_name : Name, argin : Arg0, group_request : Flag]
      [] type \in PipeComm -> [pipe_name : Name, device_name : Name, group_request : Flag]
      [] type = "write_attr" ->
            [attr_name : Name, device_name : Name, argin : Arg0, dimX : Flag \cup {"digit"},
             group_request : Flag]
      [] type \in AttrWrite \ {"write_attr"} ->
            [attr_name : Name, device_name : Name, argin : {"digit"}, dimY : Name]
      [] type \in AttrRead -> [attr_name : Name, device_name : Name, group_request : Flag]
      [] type = "eventreq_add_dev" -> [periodic : List, change : List, archive : {"absent", "hollow"}]
      [] type = "eventreq_check_dev" -> [event_type : Name, device : Name, attribute : Name]
      [] type = "eventreq_rem_dev" -> [event_sub_id : Name \cup {"empty"}]
      [] type = "change_user_smpl" -> [login : Name, password : Name \cup {"empty"}]
      [] OTHER -> [device_name : Name]

AllShapes ==
    {[Msg("", [device_name |-> "text"]) EXCEPT !.json = "broken"]}
      \cup UNION {{Msg(type, f) : f \in Shapes(type)} : type \in TypeReq \cup {"", "other"}}
MCRequest == {r \in AllShapes : TRUE}   \* an enumeration, which TLC makes once

MCDevice ==
    {[in |-> i, data |-> "number", format |-> "SCALAR"] : i \in InType}
      \cup [in : {"void"}, data : DataType, format : DataFormat]

===============================================================================
