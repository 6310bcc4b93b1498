------------------------------ MODULE Handshake ------------------------------
(***************************************************************************)
(* The opening handshake of a server connection, from the peer's first     *)
(* byte to the frames that may come in the same buffer                     *)
(* (impl/connection_impl.hpp with processors/processor.hpp, hybi00.hpp and *)
(* hybi13.hpp, uri.hpp). The peer's bytes arrive in reads of any size; one *)
(* step is one handler. What ends a connection early (timer, end of file,  *)
(* a failed write) is in module Connection, the frames of version 13 are   *)
(* in module Hybi13; those of version 0 are read here.                     *)
(***************************************************************************)
EXTENDS HttpParser

CONSTANTS
    Sent,        \* what the peer may send: records [head, after, whole]
    Secure,      \* transport_con_type::is_secure
    MaxReads     \* bound: reads, the last of which takes all that is left

ASSUME HandshakeAssumption == Secure \in BOOLEAN /\ MaxReads \in Nat \ {0}

VARIABLES
    sent,        \* what the peer sends (constant)
    stream,      \* what the transport has not delivered yet
    nreads,      \* reads so far
    request,     \* m_request
    phase,       \* m_state and m_internal_state: "reading", "responding", "open", "closing" or
                 \* "closed"
    processor,   \* m_processor by its version, -1 for null
    uri,         \* m_uri
    subprotocols,\* m_requested_subprotocols
    response,    \* m_response
    m_buf,       \* the bytes behind the request, m_buf_cursor of them
    consulted,   \* what the validate handler said, <<>> if it was not asked (history)
    state00,     \* hybi00::m_state
    msg00,       \* hybi00::m_msg_ptr, its payload
    messages,    \* what the message handler got of a version 0 connection (history)
    frames       \* what a later version's consume got (history)

peer == <<sent, stream, nreads>>
http == <<request, processor, uri, subprotocols, response, consulted>>
reader == <<state00, msg00, messages, frames>>
vars == <<peer, http, phase, m_buf, reader>>

Versions == {0, 7, 8, 13}

\* The text of a request: its lines, the blank line unless the peer stops before it, and what
\* follows.
LineEnd == <<"CR", "LF">>
Text(s) == FlattenSeq([i \in DOMAIN s.head |-> s.head[i] \o LineEnd])
           \o (IF s.whole THEN LineEnd \o s.after ELSE <<>>)

NoResponse == [status |-> 0, headers |-> <<>>, key3 |-> <<>>]

Init ==
    /\ sent \in Sent /\ stream = Text(sent) /\ nreads = 0
    /\ request = NewRequest /\ phase = "reading" /\ processor = -1
    /\ uri = <<>> /\ subprotocols = <<>> /\ response = NoResponse
    /\ m_buf = <<>> /\ consulted = <<>>
    /\ state00 = "HEADER" /\ msg00 = <<>> /\ messages = <<>> /\ frames = <<>>

-------------------------------------------------------------------------------
(* Reading the request's headers. *)

HasWord(value, word) == \E i \in DOMAIN value : value[i] = word

is_websocket_handshake(r) ==
    HasWord(get_header(r, "Upgrade"), "websocket") /\ HasWord(get_header(r, "Connection"), "Upgrade")

\* No version header is version 0, one that is not a number is -1.
get_websocket_version(r) ==
    LET value == get_header(r, "Sec-WebSocket-Version")
    IN IF value = <<>> THEN 0 ELSE IF StartsWithNumber(value) THEN Number(value) ELSE -1

\* rfind: the last position of a symbol, 0 if there is none.
LastOf(s, symbol) == Max({i \in DOMAIN s : s[i] = symbol} \cup {0})

default_port == IF Secure THEN <<"443">> ELSE <<"80">>

\* get_port_from_string with atoi: a number of one word, and 0 for anything else.
PortOk(port) == port = <<>> \/ Number(port) \in 1..65535

\* get_uri_from_host: a colon behind the last bracket begins the port.
get_uri_from_host(r) ==
    LET host == get_header(r, "Host")
        colon == LastOf(host, ":")
        port == SubSeq(host, colon + 1, Len(host))
    IN IF colon = 0 \/ LastOf(host, "]") > colon
       THEN [host |-> host, port |-> <<>>, valid |-> TRUE]
       ELSE [host |-> SubSeq(host, 1, colon - 1), port |-> port, valid |-> PortOk(port)]

\* hybi00::get_uri, which says it in its own way.
get_uri00(r) ==
    LET host == get_header(r, "Host")
        last_colon == LastOf(host, ":")
        last_sbrace == LastOf(host, "]")
    IN IF last_colon = 0 \/ (last_sbrace # 0 /\ last_sbrace > last_colon)
       THEN [host |-> host, port |-> <<>>, valid |-> TRUE]
       ELSE LET port == SubSeq(host, last_colon + 1, Len(host))
            IN [host |-> SubSeq(host, 1, last_colon - 1), port |-> port, valid |-> PortOk(port)]

get_uri(r, version) == IF version = 0 THEN get_uri00(r) ELSE get_uri_from_host(r)

\* uri::str: the default port is not shown.
UriText(u) == IF u.port \in {<<>>, default_port} THEN u.host ELSE u.host \o <<":">> \o u.port

-------------------------------------------------------------------------------
(* The answer. *)

\* The number its digits make, divided by its spaces; 0 without either.
decode_client_key(key) ==
    LET digits == SelectSeq(key, LAMBDA c : c \in DOMAIN Numeral)
        spaces == Len(SelectSeq(key, LAMBDA c : c = " "))
        number == FoldLeft(LAMBDA n, c : 10 * n + Numeral[c], 0, digits)
    IN IF spaces > 0 THEN number \div spaces ELSE 0

\* hybi00::process_handshake; the digest stands for the MD5 of the three keys.
Answer00(r) ==
    [status |-> 101,
     key3 |-> << decode_client_key(get_header(r, "Sec-WebSocket-Key1")),
                 decode_client_key(get_header(r, "Sec-WebSocket-Key2")),
                 get_header(r, "Sec-WebSocket-Key3") >>,
     headers |-> [key \in {"Upgrade", "Connection", "Sec-WebSocket-Origin", "Sec-WebSocket-Location"} |->
        CASE key = "Upgrade" -> <<"WebSocket">> [] key = "Connection" -> <<"Upgrade">>
          [] key = "Sec-WebSocket-Origin" -> get_header(r, "Origin")
          [] key = "Sec-WebSocket-Location" -> UriText(get_uri00(r))]]

\* hybi13::process_handshake; "sha1" stands for the hash of process_handshake_key.
Answer13(r) ==
    [status |-> 101, key3 |-> <<>>,
     headers |-> [key \in {"Upgrade", "Connection", "Sec-WebSocket-Accept"} |->
        CASE key = "Upgrade" -> <<"websocket">> [] key = "Connection" -> <<"Upgrade">>
          [] key = "Sec-WebSocket-Accept" -> <<"sha1">> \o get_header(r, "Sec-WebSocket-Key")]]

Refused(status) == [NoResponse EXCEPT !.status = status]

Has(r, keys) == \A key \in keys : get_header(r, key) # <<>>

\* hybi00::validate_handshake
validate_handshake00(r) ==
    /\ r.method = <<"GET">> /\ r.version = <<"HTTP/1.1">>
    /\ Has(r, {"Sec-WebSocket-Key1", "Sec-WebSocket-Key2", "Sec-WebSocket-Key3"})

\* hybi13::validate_handshake
validate_handshake13(r) ==
    /\ r.method = <<"GET">> /\ r.version = <<"HTTP/1.1">>
    /\ Has(r, {"Sec-WebSocket-Key"})

validate_handshake(r, version) ==
    IF version = 0 THEN validate_handshake00(r) ELSE validate_handshake13(r)

\* negotiate_extensions: version 0 has none, and the others read the list and implement none.
ExtensionsOk(r, version) ==
    version = 0 \/ ~ParameterList(get_header(r, "Sec-WebSocket-Extensions")).error

\* Mutant of NamesIn: the values behind the names are protocols too.
NamesAndAttributes(list) ==
    IF list.error THEN <<>>
    ELSE FlattenSeq([i \in DOMAIN list.parameters |->
            <<list.parameters[i].name>> \o SetToSeq(DOMAIN list.parameters[i].attributes)])

\* Nothing of a list with an error; process_handshake_request ignores the error.
NamesIn(list) ==
    IF list.error THEN <<>> ELSE [i \in DOMAIN list.parameters |-> list.parameters[i].name]
extract_subprotocols(r) == NamesIn(ParameterList(get_header(r, "Sec-WebSocket-Protocol")))

\* write_http_response: response is what get_raw makes of the answer, for version 0 the third
\* key behind the headers instead of among them.
write_http_response(answer) ==
    /\ response' = [answer EXCEPT !.headers = ("Server" :> <<"WebSocket++">>) @@ @]
    /\ phase' = "responding"

\* The validate handler is asked last; without it, or when it says no, the answer is an error.
Conclude(r, version, websocket, checked, place) ==
    /\ uri' = IF checked THEN place ELSE uri
    /\ subprotocols' = IF websocket /\ checked /\ place.valid THEN extract_subprotocols(r) ELSE <<>>
    /\ consulted' \in IF websocket /\ checked /\ place.valid THEN {<<TRUE>>, <<FALSE>>} ELSE {<<>>}
    /\ write_http_response(
            CASE consulted' = <<TRUE>> -> IF version = 0 THEN Answer00(r) ELSE Answer13(r)
              [] consulted' # <<TRUE>> /\ ~websocket /\ place.valid -> Refused(426)
              [] OTHER -> Refused(400))

\* process_handshake_request of request r by a processor of this version; there is no HTTP
\* handler.
process_handshake_request(r, version, websocket) ==
    Conclude(r, version, websocket,
             websocket => validate_handshake(r, version) /\ ExtensionsOk(r, version),
             get_uri(r, version))

\* write_http_response_error
Refuse(r, version, answer) ==
    /\ request' = r
    /\ processor' = version
    /\ write_http_response(answer)
    /\ UNCHANGED <<uri, subprotocols, consulted, m_buf>>

\* initialize_processor's two errors; the second names the versions it knows.
VersionRefused(version) ==
    IF version < 0 THEN Refused(400)
    ELSE [Refused(400) EXCEPT !.headers = "Sec-WebSocket-Version" :> <<"0", "7", "8", "13">>]

\* A processor of version gets the request with left behind it; version 0 takes its third key
\* from there.
Processed(r, left, version, websocket) ==
    /\ request' = r /\ processor' = version /\ m_buf' = left
    /\ process_handshake_request(r, version, websocket)
Third(r, left) == replace_header(r, "Sec-WebSocket-Key3", SubSeq(left, 1, 8))

\* initialize_processor and what follows for a request that asks for an upgrade to version.
Initialized(r, left, version) ==
    \/ version \notin Versions /\ Refuse(r, -1, VersionRefused(version))
    \/ version = 0 /\ Len(left) < 8 /\ Refuse(r, 0, Refused(500))
    \/ /\ version \in Versions
       /\ version = 0 => Len(left) >= 8
       /\ Processed(IF version = 0 THEN Third(r, left) ELSE r,
                    IF version = 0 THEN SubSeq(left, 9, Len(left)) ELSE left,
                    version, TRUE)

\* The rest of handle_read_handshake: the request is complete, left are the bytes behind it.
Complete(r, left, websocket) ==
    \/ websocket /\ Initialized(r, left, get_websocket_version(r))
    \/ ~websocket /\ Processed(r, left, -1, FALSE)

-------------------------------------------------------------------------------
(* The handlers. *)

\* The sizes a read may have.
ReadSize == IF nreads + 1 < MaxReads THEN 1..Len(stream) ELSE {Len(stream)} \ {0}

Deliver(n) ==
    /\ stream' = SubSeq(stream, n + 1, Len(stream))
    /\ nreads' = nreads + 1
    /\ UNCHANGED sent

\* handle_read_handshake: r is the request after the new bytes data.
HandleRead(r, data) ==
    \/ r.error # 0 /\ Refuse(r, processor, Refused(r.error))
    \/ /\ r.error = 0 /\ r.ready
       /\ Complete(r, SubSeq(data, r.processed + 1, Len(data)), is_websocket_handshake(r))
    \/ /\ r.error = 0 /\ ~r.ready
       /\ request' = r
       /\ UNCHANGED <<phase, processor, uri, subprotocols, response, consulted, m_buf>>

ReadHandshake(n) ==
    /\ phase = "reading"
    /\ Deliver(n)
    /\ HandleRead(consume(request, SubSeq(stream, 1, n)), SubSeq(stream, 1, n))
    /\ UNCHANGED reader

\* Mutant of Next00: a byte behind the end of a message is dropped with it.
DropsOne(r) ==
    LET end == FirstIn(r.left, 1, {"ff"})
    IN CASE r.left = <<>> \/ r.state = "FATAL_ERROR" -> r
         [] r.state = "HEADER" /\ r.left # <<>> ->
                IF r.left[1] = "00" THEN [r EXCEPT !.state = "PAYLOAD", !.msg = <<>>, !.left = Tail(@)]
                ELSE [r EXCEPT !.state = "FATAL_ERROR"]
         [] OTHER -> IF end > Len(r.left) THEN [r EXCEPT !.msg = @ \o r.left, !.left = <<>>]
                     ELSE [state |-> "HEADER", msg |-> <<>>, left |-> SubSeq(r.left, end + 2, Len(r.left)),
                           messages |-> Append(r.messages, r.msg \o SubSeq(r.left, 1, end - 1))]

\* A turn of the loop of handle_read_frame with hybi00's consume, ready and get_message. r is the
\* state, the message under way, the messages handed on and what is left to read.
Next00(r) ==
    LET end == FirstIn(r.left, 1, {"ff"})
    IN CASE r.left = <<>> \/ r.state = "FATAL_ERROR" -> r
         [] r.state = "HEADER" /\ r.left # <<>> ->
                IF r.left[1] = "00" THEN [r EXCEPT !.state = "PAYLOAD", !.msg = <<>>, !.left = Tail(@)]
                ELSE [r EXCEPT !.state = "FATAL_ERROR"]
         [] OTHER -> IF end > Len(r.left) THEN [r EXCEPT !.msg = @ \o r.left, !.left = <<>>]
                     ELSE [state |-> "HEADER", msg |-> <<>>, left |-> SubSeq(r.left, end + 1, Len(r.left)),
                           messages |-> Append(r.messages, r.msg \o SubSeq(r.left, 1, end - 1))]
consume00(data) ==
    Loop(Next00, [state |-> state00, msg |-> msg00, messages |-> messages, left |-> data], Len(data))

\* handle_read_frame: an error of consume closes the connection and reads no more.
Frames(data) ==
    LET result == consume00(data)
    IN IF processor = 0
       THEN /\ state00' = result.state /\ msg00' = result.msg /\ messages' = result.messages
            /\ phase' = IF result.state = "FATAL_ERROR" THEN "closing" ELSE "open"
            /\ UNCHANGED frames
       ELSE /\ frames' = frames \o data
            /\ phase' = "open"
            /\ UNCHANGED <<state00, msg00, messages>>

\* handle_write_http_response: the bytes behind the request are the first frames.
Responded ==
    /\ phase = "responding"
    /\ IF response.status = 101
       THEN Frames(m_buf) /\ m_buf' = <<>>
       ELSE phase' = "closed" /\ UNCHANGED <<m_buf, reader>>
    /\ UNCHANGED <<peer, http>>

ReadFrame(n) ==
    /\ phase = "open"
    /\ Deliver(n)
    /\ Frames(SubSeq(stream, 1, n))
    /\ UNCHANGED <<http, m_buf>>

Next ==
    \/ \E n \in ReadSize : ReadHandshake(n) \/ ReadFrame(n)
    \/ Responded

Spec == Init /\ [][Next]_vars

-------------------------------------------------------------------------------
(* Properties. What the request means is read off its lines as a whole:     *)
(* sent says besides what the values it is made of were meant to be.        *)

Trimmed(s) == LET solid == {i \in DOMAIN s : s[i] # " "}
              IN IF solid = {} THEN <<>> ELSE SubSeq(s, Min(solid), Max(solid))

NameOf(line) == Trimmed(SubSeq(line, 1, FirstIn(line, 1, {":"}) - 1))
ValueOf(line) == Trimmed(SubSeq(line, FirstIn(line, 1, {":"}) + 1, Len(line)))

\* The value a header has: that of its only line, or of several lines with commas between.
Meant(key) ==
    LET values == SelectSeq([i \in 1..Len(sent.head) - 1 |-> sent.head[i + 1]],
                            LAMBDA line : NameOf(line) = <<key>>)
    IN FlattenSeq([i \in DOMAIN values |->
            (IF i > 1 THEN <<",", " ">> ELSE <<>>) \o ValueOf(values[i])])

HeadOk ==
    /\ sent.head # <<>>
    /\ Cardinality({i \in DOMAIN sent.head[1] : sent.head[1][i] = " "}) >= 2
    /\ sent.head[1][1] \notin Separator
    /\ \A i \in 2..Len(sent.head) :
          /\ ":" \in ToSet(sent.head[i])
          /\ ToSet(NameOf(sent.head[i])) \cap Separator = {}
    /\ Meant("Host") # <<>>

BodySize == Number(Meant("Content-Length"))
Behind == SubSeq(sent.after, BodySize + 1, Len(sent.after))

MeantVersion == IF Meant("Sec-WebSocket-Version") = <<>> THEN 0
                ELSE Number(Meant("Sec-WebSocket-Version"))
MeantKeys == IF MeantVersion = 0 THEN {"Sec-WebSocket-Key1", "Sec-WebSocket-Key2"}
             ELSE {"Sec-WebSocket-Key"}

MeantStatus ==
    CASE ~HeadOk -> 400
      [] HeadOk /\ BodySize > MaxBody -> 413
      [] OTHER ->
          CASE ~(HasWord(Meant("Upgrade"), "websocket") /\ HasWord(Meant("Connection"), "Upgrade")) ->
                    IF sent.port THEN 426 ELSE 400
            [] OTHER ->
                IF /\ MeantVersion \in Versions
                   /\ Meant("Sec-WebSocket-Version") = <<>> \/ StartsWithNumber(Meant("Sec-WebSocket-Version"))
                   /\ sent.head[1] = <<"GET", " ", "/", " ", "HTTP/1.1">>
                   /\ \A key \in MeantKeys : Meant(key) # <<>>
                   /\ sent.extensions \/ MeantVersion = 0
                   /\ sent.port
                   /\ consulted = <<TRUE>>
                THEN 101 ELSE 400

\* However the request is cut into reads, the connection answers what the request as a whole
\* deserves. Two answers depend on the cuts: 431, for a head that is too large with three
\* symbols more for each line and each read, and 500, for a third key of version 0 that does
\* not come with the end of the request. No head above the limit is accepted; an accepted
\* peer gets the digest of its own keys, and the application the subprotocols it listed, none
\* if it broke the list.
OutcomeAsWhole ==
    LET size == FoldLeft(LAMBDA n, line : n + Len(line) + 3, 3, sent.head)
    IN phase # "reading" =>
        /\ \/ response.status = MeantStatus
           \/ response.status = 431 /\ size + 3 * nreads > MaxHeader
           \/ response.status = 500 /\ MeantVersion = 0
        /\ response.status = 101 =>
             /\ size <= MaxHeader
             /\ subprotocols = sent.protocols
             /\ IF processor = 0
                THEN response.key3 = <<sent.keys[1], sent.keys[2], SubSeq(Behind, 1, 8)>>
                ELSE response.headers["Sec-WebSocket-Accept"] = <<"sha1">> \o Meant("Sec-WebSocket-Key")

\* No byte between the request and the frames is lost, read twice or given to the wrong one,
\* and the messages of version 0 are those the peer sent until it broke the protocol.
NothingLost ==
    response.status = 101 =>
        IF processor = 0
        THEN /\ IsPrefix(messages, sent.messages)
             /\ state00 = "FATAL_ERROR" => messages = sent.messages /\ sent.broken
             /\ stream = <<>> /\ m_buf = <<>> =>
                   messages = sent.messages /\ sent.broken = (state00 = "FATAL_ERROR")
        ELSE frames \o m_buf \o stream = Behind

===============================================================================
