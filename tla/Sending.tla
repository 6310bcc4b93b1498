------------------------------- MODULE Sending -------------------------------
(***************************************************************************)
(* What a connection writes once it is open: the application's messages    *)
(* and its close, the answers to the peer's pings and closes, and the      *)
(* close of a connection whose peer broke the protocol                     *)
(* (impl/connection_impl.hpp with hybi13.hpp, hybi00.hpp, frame.hpp and    *)
(* close.hpp). It continues Handshake. The queue between send and the      *)
(* transport, and the timers, are in module Connection: here a frame is on *)
(* the wire when it is pushed.                                             *)
(***************************************************************************)
EXTENDS Handshake, Frame

CONSTANTS
    Talking,     \* the requests behind which something is sent
    Sizes,       \* the sizes of what is sent
    Codes,       \* the codes of the peer's close frames
    MaxWire      \* bound: what is handled once the connection is open

ASSUME SendingAssumption ==
    /\ \A size \in Sizes : IsSize(size)
    /\ \A code \in Codes : code \in Nat /\ code < 65536

VARIABLES
    wire,              \* what was written: headers, payloads and is_terminal
    told,              \* what that was to say (history)
    m_remote_close_code, m_remote_close_reason,
    m_was_clean,
    heard              \* the payloads of the peer's close frames with the state then (history)

sending == <<wire, told, m_remote_close_code, m_remote_close_reason, m_was_clean, heard>>
allvars == <<vars, sending>>

abnormal_close == 1006

SendingInit ==
    /\ Init
    /\ wire = <<>> /\ told = <<>> /\ heard = <<>> /\ m_was_clean = FALSE
    /\ m_remote_close_code = abnormal_close /\ m_remote_close_reason = NoData

Refusal == [error |-> TRUE, header |-> <<>>, payload |-> Payload(<<>>, NoData, <<>>)]
Prepared(header, payload) == [error |-> FALSE, header |-> header, payload |-> payload]

\* Unmasked, as a server writes.
FrameOf(opcode, payload) ==
    LET size == SizeOf(payload)
    IN Prepared(prepare_header(basic_header(opcode, size, TRUE, FALSE), extended_header(size)), payload)

\* Version 0 (hybi00.hpp) puts a text between two bytes, and knows neither pongs nor the code
\* and reason of a close.
prepare_data_frame00(opcode, data) ==
    IF opcode # text \/ ~data.utf8 THEN Refusal
    ELSE Prepared(<<0>>, Payload(<<>>, data, <<255>>))

prepare_pong00 == Refusal

prepare_close00 == Prepared(<<>>, Payload(<<255, 0>>, NoData, <<>>))

prepare_data_frame(opcode, data) ==
    IF processor = 0 THEN prepare_data_frame00(opcode, data)
    ELSE IF is_control(opcode) \/ (opcode = text /\ ~data.utf8) THEN Refusal
         ELSE FrameOf(opcode, Payload(<<>>, data, <<>>))

prepare_control(opcode, payload) ==
    IF ~is_control(opcode) \/ SizeOf(payload) > payload_size_basic THEN Refusal
    ELSE FrameOf(opcode, payload)

prepare_pong(data) ==
    IF processor = 0 THEN prepare_pong00 ELSE prepare_control(pong, Payload(<<>>, data, <<>>))

prepare_close(code, reason) ==
    CASE processor = 0 -> prepare_close00
      [] OTHER ->
         IF \/ reserved(code)
            \/ invalid(code) /\ code # no_status
            \/ code = no_status /\ reason.size > 0
            \/ reason.size > payload_size_basic - 2
         THEN Refusal
         ELSE prepare_control(close,
                Payload(IF code = no_status THEN <<>> ELSE CodeBytes(code), reason, <<>>))

\* write_push of a prepared frame that says what meaning is.
write_push(out, is_terminal, meaning) ==
    /\ wire' = Append(wire, [header |-> out.header, payload |-> out.payload, terminal |-> is_terminal])
    /\ told' = Append(told, meaning)

Meaning(opcode, data, code) == [opcode |-> opcode, data |-> data, code |-> code]

\* Mutant of closing_info: the answer to a close without a code has none either.
EchoOfNothing(code, reason, ack, remotecode, remotereason) ==
    IF code # blank THEN [code |-> code, reason |-> reason]
    ELSE IF ~ack THEN [code |-> no_status, reason |-> NoData]
    ELSE [code |-> remotecode, reason |-> remotereason]

\* The choice of m_local_close_code and m_local_close_reason.
closing_info(code, reason, ack, remotecode, remotereason) ==
    IF code # blank THEN [code |-> code, reason |-> reason]
    ELSE IF ~ack THEN [code |-> no_status, reason |-> NoData]
    ELSE IF remotecode = no_status THEN [code |-> normal, reason |-> NoData]
    ELSE [code |-> remotecode, reason |-> remotereason]

\* send_close_frame; a refused frame changes neither the state nor the queue.
send_close_frame(code, reason, ack, is_terminal) ==
    LET info == closing_info(code, reason, ack, m_remote_close_code', m_remote_close_reason')
        out == prepare_close(info.code, info.reason)
    IN IF out.error
       THEN UNCHANGED <<wire, told, phase, m_was_clean>>
       ELSE /\ write_push(out, is_terminal, Meaning(close, info.reason, info.code))
            /\ phase' = "closing"
            /\ m_was_clean' = (ack \/ m_was_clean)

send_close_ack(code, reason) == send_close_frame(code, reason, TRUE, TRUE)

-------------------------------------------------------------------------------
(* The calls and the peer's control frames. *)

remote == <<m_remote_close_code, m_remote_close_reason>>
others == <<peer, http, m_buf, reader>>

\* Bound: what is sent is sent when the peer's own bytes have all been read, in one piece.
Talks ==
    /\ sent \in Talking
    /\ stream = <<>> /\ nreads = 1
    /\ Len(wire) + Len(heard) < MaxWire
    /\ UNCHANGED others

\* send of a text; an error is returned to the caller.
send(data) ==
    /\ Talks
    /\ phase = "open"
    /\ LET out == prepare_data_frame(text, data)
       IN IF out.error THEN UNCHANGED <<wire, told>>
          ELSE write_push(out, FALSE, Meaning(text, data, no_status))
    /\ UNCHANGED <<phase, remote, m_was_clean, heard>>

\* close; a reason that is cut may end inside a character.
Close(code, reason) ==
    /\ Talks
    /\ phase = "open"
    /\ UNCHANGED <<remote, heard>>
    /\ IF reason.size <= close_reason_size
       THEN send_close_frame(code, reason, FALSE, terminal(code))
       ELSE \E utf8 \in BOOLEAN :
               send_close_frame(code, Data(close_reason_size, utf8), FALSE, terminal(code))

\* process_control_frame of a ping: there is no handler, so it is answered.
PingReceived(data) ==
    /\ Talks
    /\ phase = "open" /\ processor # 0
    /\ LET out == prepare_pong(data)
       IN IF out.error THEN UNCHANGED <<wire, told>>
          ELSE write_push(out, FALSE, Meaning(pong, data, no_status))
    /\ UNCHANGED <<phase, remote, m_was_clean, heard>>

\* process_control_frame of a close.
CloseReceived(payload) ==
    LET code == extract_code(payload)
        reason == extract_reason(payload)
    IN /\ Talks
       /\ phase \in {"open", "closing"} /\ processor # 0
       /\ heard' = Append(heard, [payload |-> payload, phase |-> phase])
       /\ m_remote_close_code' = code.code
       /\ m_remote_close_reason' = IF code.error THEN m_remote_close_reason ELSE reason.reason
       /\ \/ /\ code.error \/ reason.error
             /\ send_close_ack(protocol_error, Data(IF code.error THEN 18 ELSE 20, TRUE))
          \/ /\ ~code.error /\ ~reason.error
             /\ phase = "open"
             /\ send_close_ack(blank, NoData)
          \/ /\ ~code.error /\ ~reason.error
             /\ phase = "closing" /\ ~m_was_clean
             /\ m_was_clean' = TRUE
             /\ phase' = "closed"
             /\ UNCHANGED <<wire, told>>
          \/ /\ ~code.error /\ ~reason.error
             /\ phase = "closing" /\ m_was_clean
             /\ UNCHANGED <<wire, told, phase, m_was_clean>>

\* A handler of module Handshake. When version 0's consume fails, the connection closes with
\* what to_ws makes of the error.
Handshaking ==
    /\ Next
    /\ UNCHANGED <<remote, heard, m_was_clean>>
    /\ IF phase' = "closing"
       THEN write_push(prepare_close(protocol_error, Data(1, TRUE)), terminal(protocol_error),
                       Meaning(close, NoData, protocol_error))
       ELSE UNCHANGED <<wire, told>>

\* The reasons and texts come from exceptions and devices; the codes are those the code uses.
LocalCodes == {1001, protocol_error, 1007, 1009, internal_endpoint_error}
ClosePayloads ==
    {Payload(<<>>, NoData, <<>>), Payload(<<3>>, NoData, <<>>)}
    \cup {Payload(CodeBytes(code), Data(size, utf8), <<>>) :
            code \in Codes, size \in {0, 1, close_reason_size}, utf8 \in BOOLEAN}

SendingNext ==
    \/ Handshaking
    \/ \E size \in Sizes, utf8 \in BOOLEAN :
          \/ send(Data(size, utf8))
          \/ \E code \in LocalCodes : Close(code, Data(size, utf8))
          \/ size <= payload_size_basic /\ PingReceived(Data(size, utf8))
    \/ \E payload \in ClosePayloads : CloseReceived(payload)

SendingSpec == SendingInit /\ [][SendingNext]_allvars

-------------------------------------------------------------------------------
(* Properties. *)

Padded(e) == e \o Zeros(12 - Len(e))

\* What a peer of a later version makes of a frame: the frame is as long as its header says.
Says(frame, meaning) ==
    LET h == SubSeq(frame.header, 1, 2)
        e == Padded(SubSeq(frame.header, 3, Len(frame.header)))
        head == IF meaning.opcode = close /\ meaning.code # no_status THEN CodeBytes(meaning.code) ELSE <<>>
    IN /\ get_fin(h) /\ ~get_masked(h)
       /\ get_opcode(h) = meaning.opcode
       /\ get_header_len(h) = Len(frame.header)
       /\ get_payload_size(h, e) = SizeOf(frame.payload)
       /\ frame.payload = Payload(head, meaning.data, <<>>)

Says00(frame, meaning) ==
    IF meaning.opcode = close THEN frame.header \o frame.payload.head = <<255, 0>> /\ SizeOf(frame.payload) = 2
    ELSE /\ frame.header = <<0>> /\ frame.payload.tail = <<255>>
         /\ frame.payload.head = <<>> /\ frame.payload.data = meaning.data

\* A peer reading the wire finds each frame where the one before it ends, as large as it is,
\* and with what it was meant to say; control frames are never extended, and a text is never
\* other than UTF-8.
WireReadsBack ==
    /\ Len(wire) = Len(told)
    /\ \A i \in DOMAIN wire :
          /\ IF processor = 0 THEN Says00(wire[i], told[i]) ELSE Says(wire[i], told[i])
          /\ is_control(told[i].opcode) /\ processor # 0 => Len(wire[i].header) = 2
          /\ told[i].opcode = text => told[i].data.utf8

\* The code of a close frame that a peer takes to be legal, or none.
Legal(payload) == ~extract_code(payload).error /\ SizeOf(payload) <= payload_size_basic

\* A connection that is open has sent no close frame. A peer that closes it is answered by one
\* frame that says the same, a normal close if the peer gave no code, and that it broke the
\* protocol if its code or reason is wrong. Nothing follows a close frame, but that the closes
\* of a peer that has been closed already are refused again if they are wrong.
CloseAnswered ==
    LET closes == {i \in DOMAIN told : told[i].opcode = close}
        wrong == {i \in DOMAIN heard : ~Legal(heard[i].payload) \/ ~heard[i].payload.data.utf8}
    IN /\ phase = "open" => closes = {} /\ heard = <<>>
       /\ processor # 0 => \A i \in closes : Legal(wire[i].payload)
       /\ \A i \in closes : \A j \in DOMAIN wire : j > i => j \in closes
       /\ Cardinality(closes) <= 1 + Cardinality({i \in wrong : heard[i].phase = "closing"})
       /\ \A i \in DOMAIN heard : heard[i].phase = "open" =>
             LET answer == told[Min(closes)]
                 asked == heard[i].payload
             IN /\ closes # {}
                /\ i \in wrong => answer.code = protocol_error
                /\ i \notin wrong /\ SizeOf(asked) = 0 => answer.code = normal /\ answer.data.size = 0
                /\ i \notin wrong /\ SizeOf(asked) # 0 => wire[Min(closes)].payload = asked

===============================================================================
