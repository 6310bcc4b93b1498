------------------------------ MODULE WSTangoConn ------------------------------
(***************************************************************************)
(* The sessions of the gateway: who a connection speaks for, what the      *)
(* authentication device AuthDS was asked on its behalf, what is sent to   *)
(* Tango and what is written to the action log (classes WSTangoConn and    *)
(* UserControl, the ConnectionData of a connection, and the permission     *)
(* checks in front of commands and attribute writes of both gateways).     *)
(*                                                                         *)
(* All handlers run on the asio thread, one after another, and wait for    *)
(* AuthDS, so each handler is one action. AuthDS is external: it may       *)
(* answer, refuse, raise a DevFailed, or be out of reach, differently each *)
(* time. Requests that need no permission (reads, pipes, events) and       *)
(* requests refused before the permission check change no session and are  *)
(* left out.                                                               *)
(***************************************************************************)
EXTENDS Naturals, Sequences, FiniteSets

CONSTANTS
    Conn,      \* connections
    Login,     \* user names
    Pass,      \* passwords
    Empty,     \* the empty string
    Missing,   \* a key the GET query does not have
    Modes,     \* builds of interest: "client", "single" and "group" (server mode)
    OptionLists  \* values of the Options property: sequences of options

ASSUME ConstantsAssumption ==
    /\ Empty \notin Login \cup Pass
    /\ Missing \notin Login \cup Pass \cup {Empty}
    /\ Modes \subseteq {"client", "single", "group"}
    /\ OptionLists \subseteq Seq({"smpl", "permission_www", "uselog"})

VARIABLES
    mode,        \* the build and, in server mode, whether a group is served
    typeOfIdent, \* WSTangoConn: how users are identified
    toi,         \* UserControl::_toi: its own copy
    isLogActive, \* UserControl::_isLogActive
    open,        \* connections with a ConnectionData
    login,       \* ConnectionData::login
    password,    \* ConnectionData::password
    userCheckStatus, \* ConnectionData::userCheckStatus
    assigned,    \* whether userCheckStatus was ever assigned (history)
    confirmed,   \* users AuthDS has confirmed for the connection (history)
    told,        \* credentials the client was last told to be accepted (history)
    last         \* what became of the last command (history)

config == <<mode, typeOfIdent, toi, isLogActive>>
session == <<open, login, password, userCheckStatus, assigned, confirmed, told>>
sessionVars == <<config, session, last>>

NoCommand == [kind |-> "none"]
NoEntry == [kind |-> "none"]
NoCred == <<Empty, Empty>>

\* An entry of the action log: the user, the access status and whether it was a group request.
Entry(user, status, isGroup) ==
    [kind |-> "entry", login |-> user, status |-> status, isGroup |-> isGroup]

\* A command or attribute write that passed checkPermissionForRequest's own test: which
\* credentials AuthDS was asked about, for one device or for the group, and its answer;
\* whether and to what the request then went to Tango; what was logged.
CommandSent(c, cred, isGroup, asked, answer, sentTo, entry) ==
    [kind |-> "command", conn |-> c, cred |-> cred, isGroup |-> isGroup, asked |-> asked,
     answer |-> answer, sentTo |-> sentTo, entry |-> entry]

LogEntries == {NoEntry} \cup [kind : {"entry"}, login : Login \cup {Empty},
                             status : BOOLEAN, isGroup : BOOLEAN]
Commands == {NoCommand} \cup
    [kind : {"command"}, conn : Conn, cred : (Login \cup {Empty}) \X (Pass \cup {Empty}),
     isGroup : BOOLEAN, asked : {"one", "all"}, answer : {"yes", "no", "failed", "away"},
     sentTo : {"nothing", "one", "all"}, entry : LogEntries]

TypeOK ==
    /\ mode \in Modes
    /\ typeOfIdent \in {"SIMPLE", "PERMISSION_WWW"}
    /\ toi \in {"SIMPLE", "PERMISSION_WWW"}
    /\ isLogActive \in BOOLEAN
    /\ open \in SUBSET Conn
    /\ login \in [Conn -> Login \cup {Empty}]
    /\ password \in [Conn -> Pass \cup {Empty}]
    /\ userCheckStatus \in [Conn -> BOOLEAN]
    /\ assigned \in [Conn -> BOOLEAN]
    /\ confirmed \in [Conn -> SUBSET Login]
    /\ told \in [Conn -> (Login \cup {Empty}) \X (Pass \cup {Empty})]
    /\ last \in Commands

-------------------------------------------------------------------------------
(* initOptions *)

\* An initOptions that leaves the way to identify users open when no tident is given.
IdentOfUnset(opts) ==
    IF \E i \in DOMAIN opts : opts[i] = "permission_www" THEN "PERMISSION_WWW"
    ELSE IF \E i \in DOMAIN opts : opts[i] = "smpl" THEN "SIMPLE" ELSE "UNSET"

\* The last tident decides; UserControl hears of permission_www only.
IdentOf(opts) ==
    LET idents == {i \in DOMAIN opts : opts[i] # "uselog"}
    IN  IF idents # {} /\ \A i \in idents :
               (\A j \in idents : j <= i) => opts[i] = "permission_www"
        THEN "PERMISSION_WWW" ELSE "SIMPLE"

ToiOf(opts) ==
    IF \E i \in DOMAIN opts : opts[i] = "permission_www"
    THEN "PERMISSION_WWW" ELSE "SIMPLE"

LogOf(opts) == \E i \in DOMAIN opts : opts[i] = "uselog"

SessionsInit ==
    /\ mode \in Modes
    /\ \E opts \in OptionLists :
        /\ typeOfIdent = IdentOf(opts)
        /\ toi = ToiOf(opts)
        /\ isLogActive = LogOf(opts)
    /\ open = {}
    /\ login = [c \in Conn |-> Empty]
    /\ password = [c \in Conn |-> Empty]
    /\ userCheckStatus = [c \in Conn |-> FALSE]
    /\ assigned = [c \in Conn |-> FALSE]
    /\ confirmed = [c \in Conn |-> {}]
    /\ told = [c \in Conn |-> NoCred]
    /\ last = NoCommand

-------------------------------------------------------------------------------
(* on_open: getConnectionData, then checkUser *)

\* parsedGet[key]: a missing key reads as the empty string.
ValueOf(key) == IF key = Missing THEN Empty ELSE key

\* What getConnectionData has assigned to userCheckStatus: nothing when the query has
\* both keys and users are to be checked (the ip is always there).
GetStatus(gl, gp) ==
    IF typeOfIdent = "PERMISSION_WWW" THEN {TRUE}
    ELSE IF gl = Missing \/ gp = Missing THEN {FALSE}
    ELSE {}

\* checkUser for the session just created: what it assigns to userCheckStatus, given what
\* AuthDS says of the user. Nothing when UserControl::check_user throws.
CheckedStatus(l, p, answer) ==
    IF typeOfIdent = "SIMPLE"
    THEN IF l = Empty THEN {FALSE} ELSE IF answer = "yes" THEN {TRUE} ELSE {}
    ELSE {l # Empty /\ p # Empty}

\* A new ConnectionData. With neither assignment userCheckStatus keeps what the memory
\* held: any value. If check_user throws, the error is sent and the connection stays.
OnOpen(c, gl, gp, answer) ==
    /\ c \notin open
    /\ LET l == ValueOf(gl)
           p == ValueOf(gp)
           late == CheckedStatus(l, p, answer)
           status == IF late # {} THEN late ELSE GetStatus(gl, gp)
           asked == typeOfIdent = "SIMPLE" /\ l # Empty
       IN  /\ asked \/ answer = "away"
           /\ login' = [login EXCEPT ![c] = l]
           /\ password' = [password EXCEPT ![c] = p]
           /\ \E s \in (IF status = {} THEN BOOLEAN ELSE status) :
                userCheckStatus' = [userCheckStatus EXCEPT ![c] = s]
           /\ assigned' = [assigned EXCEPT ![c] = status # {}]
           /\ confirmed' = [confirmed EXCEPT ![c] = IF asked /\ answer = "yes" THEN {l} ELSE {}]
           /\ told' = [told EXCEPT ![c] = NoCred]
    /\ open' = open \cup {c}
    /\ UNCHANGED <<config, last>>

\* on_close deletes the ConnectionData.
OnClose(c) ==
    /\ c \in open
    /\ open' = open \ {c}
    /\ login' = [login EXCEPT ![c] = Empty]
    /\ password' = [password EXCEPT ![c] = Empty]
    /\ userCheckStatus' = [userCheckStatus EXCEPT ![c] = FALSE]
    /\ assigned' = [assigned EXCEPT ![c] = FALSE]
    /\ confirmed' = [confirmed EXCEPT ![c] = {}]
    /\ told' = [told EXCEPT ![c] = NoCred]
    /\ UNCHANGED <<config, last>>

-------------------------------------------------------------------------------
(* change_user_smpl *)

\* A test that forgets to compare the names.
SameUserAny(c, l) == userCheckStatus[c]

\* The current user again: accepted without a look at the password.
SameUser(c, l) == login[c] = l /\ userCheckStatus[c]

\* A change that lets the client go on as the new user while AuthDS says no.
ChangeUserUnchecked(c, l, p, answer) ==
    /\ c \in open
    /\ ~ SameUser(c, l)
    /\ userCheckStatus' = [userCheckStatus EXCEPT ![c] = TRUE]
    /\ assigned' = [assigned EXCEPT ![c] = TRUE]
    /\ login' = [login EXCEPT ![c] = l]
    /\ password' = [password EXCEPT ![c] = p]
    /\ confirmed' = [confirmed EXCEPT ![c] =
                        IF answer = "yes" /\ typeOfIdent = "SIMPLE" THEN @ \cup {l} ELSE @]
    /\ told' = [told EXCEPT ![c] = <<l, p>>]
    /\ UNCHANGED <<config, open, last>>

\* sendRequest_ForAuth for somebody else: the session changes only if AuthDS confirms the
\* user (SIMPLE) or at once (PERMISSION_WWW, where check_user is never called).
ChangeUser(c, l, p, answer) ==
    /\ c \in open
    /\ ~ SameUser(c, l)
    /\ IF typeOfIdent = "PERMISSION_WWW" THEN answer = "away" ELSE answer = "yes"
    /\ userCheckStatus' = [userCheckStatus EXCEPT ![c] = TRUE]
    /\ assigned' = [assigned EXCEPT ![c] = TRUE]
    /\ login' = [login EXCEPT ![c] = l]
    /\ password' = [password EXCEPT ![c] = p]
    /\ confirmed' = [confirmed EXCEPT ![c] =
                        IF typeOfIdent = "SIMPLE" THEN @ \cup {l} ELSE @]
    /\ told' = [told EXCEPT ![c] = <<l, p>>]
    /\ UNCHANGED <<config, open, last>>

\* sendRequest_ForAuth for the user the session has already: told to be authenticated,
\* whatever the password; nothing is stored.
ChangeToSameUser(c, l, p) ==
    /\ c \in open
    /\ SameUser(c, l)
    /\ told' = [told EXCEPT ![c] = <<l, p>>]
    /\ UNCHANGED <<config, open, login, password, userCheckStatus, assigned, confirmed, last>>

-------------------------------------------------------------------------------
(* Commands and attribute writes *)

\* Which devices AuthDS is asked about, for a request with or without the keys
\* device_name and group_request: sendRequestAsync of WSTangoConnCli and WSTangoConnSer.
AskedFor(hasDev, hasGroup) ==
    CASE mode = "client" -> IF hasGroup THEN "all" ELSE "one"
      [] mode = "single" -> "one"
      [] mode = "group"  -> IF hasDev THEN "one" ELSE "all"

\* A processAsyncReq that overlooks the group of a client-mode request.
SentToOne(hasDev, hasGroup) ==
    IF mode = "group" /\ (hasGroup \/ ~hasDev) THEN "all" ELSE "one"

\* Which devices the request goes to: TangoProcessor::processAsyncReq.
SentTo(hasDev, hasGroup) ==
    CASE mode = "client" -> IF hasGroup THEN "all" ELSE "one"
      [] mode = "single" -> "one"
      [] mode = "group"  -> IF hasDev /\ ~hasGroup THEN "one" ELSE "all"

\* UserControl::check_permission: a refusal is an answer in SIMPLE, a DevFailed of
\* check_permissions_www; "away" means the proxy of AuthDS could not be created.
Answers == IF toi = "SIMPLE" THEN {"yes", "no", "failed", "away"} ELSE {"yes", "failed", "away"}

\* Mutant of Logged: isGroup is written for the access status and the reverse.
LoggedSwapped(c, isGroup, answer) ==
    IF ~isLogActive \/ answer = "away" THEN {NoEntry}
    ELSE {NoEntry, Entry(login[c], isGroup, answer = "yes")}

\* What sendLog writes: after the answer, or in PERMISSION_WWW after the DevFailed, where
\* the arguments isGroup and isAuth are swapped. Sending to the log may fail.
Logged(c, isGroup, answer) ==
    IF ~isLogActive \/ answer = "away" \/ (answer = "failed" /\ toi = "SIMPLE") THEN {NoEntry}
    ELSE IF answer = "failed" THEN {NoEntry, Entry(login[c], isGroup, FALSE)}
    ELSE {NoEntry, Entry(login[c], answer = "yes", isGroup)}

\* A request that goes to Tango unless AuthDS said no in so many words.
CommandUnlessNo(c, hasDev, hasGroup) ==
    /\ c \in open
    /\ mode = "client" => hasDev
    /\ userCheckStatus[c]
    /\ \E answer \in Answers :
        LET isGroup == AskedFor(hasDev, hasGroup) = "all" IN
        \E entry \in Logged(c, isGroup, answer) :
            last' = CommandSent(c, <<login[c], password[c]>>, isGroup, AskedFor(hasDev, hasGroup),
                                answer, IF answer # "no" THEN SentTo(hasDev, hasGroup) ELSE "nothing", entry)
    /\ UNCHANGED <<config, session>>

\* checkPermissionForRequest lets the session through, check_permission asks AuthDS and
\* logs, and only a "yes" lets the request go to Tango.
SendCommand(c, hasDev, hasGroup) ==
    /\ c \in open
    /\ mode = "client" => hasDev
    /\ userCheckStatus[c]
    /\ \E answer \in Answers :
        LET isGroup == AskedFor(hasDev, hasGroup) = "all" IN
        \E entry \in Logged(c, isGroup, answer) :
            last' = CommandSent(c, <<login[c], password[c]>>, isGroup, AskedFor(hasDev, hasGroup),
                                answer, IF answer = "yes" THEN SentTo(hasDev, hasGroup) ELSE "nothing", entry)
    /\ UNCHANGED <<config, session>>

SessionsNext ==
    \/ \E c \in Conn :
        \/ \E gl \in Login \cup {Empty, Missing}, gp \in Pass \cup {Empty, Missing},
              answer \in {"yes", "no", "away"} : OnOpen(c, gl, gp, answer)
        \/ OnClose(c)
        \/ \E l \in Login, p \in Pass :
            \/ \E answer \in {"yes", "no", "away"} : ChangeUser(c, l, p, answer)
            \/ ChangeToSameUser(c, l, p)
        \/ \E hasDev, hasGroup \in BOOLEAN : SendCommand(c, hasDev, hasGroup)

SessionsSpec == SessionsInit /\ [][SessionsNext]_sessionVars

-------------------------------------------------------------------------------
(* Properties *)

\* A session whose status was assigned and is good speaks for a user AuthDS has confirmed
\* for this very connection, through any sequence of accepted and refused changes of user
\* (WSTangoConn.cpp:277: the user changes only if the current check is successful too).
AuthenticatedAsLogin ==
    typeOfIdent = "SIMPLE" =>
        \A c \in open : assigned[c] /\ userCheckStatus[c] => login[c] \in confirmed[c]

\* What the log says of a request AuthDS has answered is what was decided about it: the
\* user, the access status and whether the whole group was meant (UserControl.cpp:46,
\* README.md:112-119).
LoggedAsDecided ==
    last.kind = "command" /\ last.answer \in {"yes", "no"} /\ last.entry # NoEntry =>
        last.entry = Entry(last.cred[1], last.sentTo # "nothing", last.isGroup)

\* A request reaches the devices AuthDS was asked about, no others; except that in server
\* mode with a group the key group_request, which the permission check does not look at,
\* widens a request for one device to the group (TangoProcessor.cpp:125).
SentWhereAsked ==
    last.kind = "command" /\ last.sentTo # "nothing" =>
        (last.sentTo = last.asked) \/ (mode = "group" /\ last.asked = "one")

\* What AuthDS has decided is what is done and what is logged, although the devices, the
\* user and the kind of request are worked out again at each of the three.
DecisionKept == LoggedAsDecided /\ SentWhereAsked

\* Whatever the sequence of messages, a command reaches Tango only when AuthDS has just
\* permitted it for the user of the session, a user it has confirmed before; the
\* exception is a status that was never assigned (ConnectionData.h:57).
AuthorisedSends ==
    [][last' # last /\ last'.sentTo # "nothing" =>
        LET c == last'.conn IN
        /\ last'.answer = "yes"
        /\ last'.cred = <<login[c], password[c]>>
        /\ typeOfIdent = "SIMPLE" /\ assigned[c] => last'.cred[1] \in confirmed[c]]_last

\* The client is the user it was last told to be, over any sequence of accepted and refused
\* changes of user. (It is not told the truth about the password: a change to the same user
\* with a new password is confirmed and dropped, WSTangoConn.cpp:297.)
ToldIsUser == \A c \in open : told[c] # NoCred => told[c][1] = login[c]

===============================================================================
