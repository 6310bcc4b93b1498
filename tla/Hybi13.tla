------------------------------- MODULE Hybi13 -------------------------------
(***************************************************************************)
(* The frame processor of a server connection (processors/hybi13.hpp):     *)
(* consume() reads the bytes of the peer field by field, checks the        *)
(* headers, unmasks and validates the payload and puts the messages        *)
(* together; a control frame may come between the fragments of a message.  *)
(* One step is one turn of consume's loop.  A payload comes one byte at a  *)
(* time: the masking key and the UTF-8 validator carry their state from    *)
(* one buffer to the next.  permessage_deflate is not enabled.             *)
(***************************************************************************)
EXTENDS Naturals, Sequences

CONSTANTS
    Basic,       \* limits::payload_size_basic
    Extended,    \* limits::payload_size_extended
    Width,       \* size_t counts modulo Width
    MaxMessage,  \* m_max_message_size
    NoMsg,       \* a null msg_ptr
    MaxFrames,   \* bound: frames the peer sends
    MaxBytes     \* bound: payload bytes the peer sends

ASSUME LimitsAssumption ==
    /\ {Basic, Extended, Width, MaxMessage, MaxFrames, MaxBytes} \subseteq Nat
    /\ Basic < Extended /\ Extended < Width /\ MaxMessage < Width

VARIABLES
    mstate,     \* m_state
    needed,     \* m_bytes_needed
    header,     \* m_basic_header, m_extended_header
    data,       \* m_data_msg
    control,    \* m_control_msg
    current,    \* m_current_msg: "data" or "control"
    ec,         \* the close status of consume's error (to_ws)
    delivered,  \* what get_message returned (history)
    sent,       \* payload of the frame under way, as the peer meant it (history)
    whole,      \* the messages that the frames read so far mean (history)
    part,       \* and the message of which they are a part (history)
    nframes,    \* frames read to their end, payload bytes read (history)
    nbytes

messages == <<data, control, current>>
peer == <<sent, whole, part, nframes, nbytes>>
history == <<delivered, peer>>
vars == <<mstate, needed, header, messages, ec, history>>

\* PING stands for the three control opcodes, RESERVED for the reserved ones.
Opcode == {"TEXT", "BINARY", "CONTINUATION", "PING", "RESERVED"}
IsControl(op) == op = "PING"

\* The length field: in the basic header, or behind it in 16 or 64 bits.
LengthCode == {"7bit", "16bit", "64bit"}

\* Bytes by their role in a code point of one or two bytes; unmasking with a wrong key
\* garbles them.
Byte == {"ascii", "lead", "cont"}
Unmasked == Byte \cup {"garbled"}

\* A message of the processor, with the state of its validator and its place in the
\* masking key, and a message as the peer means it.
Held == [op : Opcode, payload : Seq(Unmasked), utf : {"accept", "more", "reject"},
         key : Nat \X Nat]
Meant == [op : Opcode, payload : Seq(Byte), fragments : Nat \ {0}]

ASSUME NoMsgAssumption == NoMsg \notin Held /\ NoMsg \notin Meant

SizesOf(code) == CASE code = "7bit" -> 0..Basic
                   [] code = "16bit" -> 0..Extended
                   [] code = "64bit" -> 0..Width - 1

ZeroHeader == [fin |-> FALSE, op |-> "CONTINUATION", rsv |-> FALSE, masked |-> FALSE,
               code |-> "7bit", size |-> 0]

Init ==
    /\ mstate = "HEADER_BASIC" /\ needed = 2 /\ header = ZeroHeader
    /\ data = NoMsg /\ control = NoMsg /\ current = "data"
    /\ ec = "none"
    /\ delivered = <<>>
    /\ sent = <<>> /\ whole = <<>> /\ part = NoMsg /\ nframes = 0 /\ nbytes = 0

-----------------------------------------------------------------------------
(* The headers. *)

reset_headers ==
    /\ mstate' = "HEADER_BASIC"
    /\ needed' = 2
    /\ header' = ZeroHeader

\* Mutant of validate_incoming_basic_header: a data frame may begin inside a message.
BasicHeaderLax(h, newMsg) ==
    /\ IsControl(h.op) => h.code = "7bit" /\ h.fin
    /\ ~h.rsv /\ h.op # "RESERVED" /\ h.masked
    /\ newMsg => h.op # "CONTINUATION"

\* validate_incoming_basic_header; each of its errors is a protocol_error.
BasicHeaderOk(h, newMsg) ==
    /\ IsControl(h.op) => h.code = "7bit" /\ h.fin
    /\ ~h.rsv /\ h.op # "RESERVED" /\ h.masked
    /\ newMsg => h.op # "CONTINUATION"
    /\ ~newMsg => IsControl(h.op) \/ h.op = "CONTINUATION"

\* copy_basic_header_bytes takes one byte or two; the first byte alone ...
FirstByte(fin, op, rsv) ==
    /\ mstate = "HEADER_BASIC" /\ needed = 2 /\ nframes < MaxFrames
    /\ header' = [header EXCEPT !.fin = fin, !.op = op, !.rsv = rsv]
    /\ needed' = 1
    /\ UNCHANGED <<mstate, messages, ec, history>>

\* ... and the second, in the same buffer or in the next.
SecondByte(masked, code) ==
    /\ mstate = "HEADER_BASIC" /\ needed = 1
    /\ header' = [header EXCEPT !.masked = masked, !.code = code]
    /\ \/ /\ BasicHeaderOk(header', data = NoMsg)
          /\ mstate' = "HEADER_EXTENDED"
          /\ needed' = 4 + (CASE code = "7bit" -> 0 [] code = "16bit" -> 2 [] code = "64bit" -> 8)
          /\ UNCHANGED ec
       \/ /\ ~BasicHeaderOk(header', data = NoMsg)
          /\ ec' = "protocol_error"
          /\ needed' = 0
          /\ UNCHANGED mstate
    /\ UNCHANGED <<messages, history>>

\* The masking key of the frame that is being read, at some position: keys of different
\* frames have nothing in common, a key comes round every four bytes.
Key(position) == <<nframes, position % 4>>

\* msg_metadata: an empty payload, the frame's key and a new validator.
Metadata(op) == [op |-> op, payload |-> <<>>, utf |-> "accept", key |-> Key(0)]

StartControl ==
    /\ control' = Metadata(header.op)
    /\ current' = "control"
    /\ mstate' = "APPLICATION"
    /\ UNCHANGED <<data, ec>>

\* The announced size of the message; the sum is a size_t.
TooBig(size) ==
    IF data = NoMsg THEN size > MaxMessage
    ELSE (Len(data.payload) + size) % Width > MaxMessage

StartData ==
    /\ data' = Metadata(header.op)
    /\ current' = "data"
    /\ mstate' = "APPLICATION"
    /\ UNCHANGED <<control, ec>>

\* Mutant of ContinueData: the message keeps the key of its first frame.
ContinueDataOldKey ==
    /\ current' = "data"
    /\ mstate' = "APPLICATION"
    /\ UNCHANGED <<data, control, ec>>

\* "Each frame starts a new masking key. All other state remains between frames."
ContinueData ==
    /\ data' = [data EXCEPT !.key = Key(0)]
    /\ current' = "data"
    /\ mstate' = "APPLICATION"
    /\ UNCHANGED <<control, ec>>

\* An error leaves consume; m_state is APPLICATION by then, unless the header itself was
\* wrong.
Refuse(status) ==
    /\ ec' = status
    /\ UNCHANGED messages

\* validate_incoming_extended_header: a size that a shorter code would have held.
NonMinimal(code, size) ==
    \/ code = "16bit" /\ size <= Basic
    \/ code = "64bit" /\ size <= Extended

\* The extended header with the length and the key.  non_minimal_encoding has no close
\* status of its own in to_ws.  Only a size_t of 32 bits makes validate_incoming_extended_header
\* refuse a size with requires_64bit (hybi13.hpp:945-948); here every size is a size_t.
ExtendedHeader(size) ==
    /\ mstate = "HEADER_EXTENDED"
    /\ header' = [header EXCEPT !.size = size]
    /\ needed' = size
    /\ \/ /\ NonMinimal(header.code, size)
          /\ Refuse("internal_endpoint_error")
          /\ UNCHANGED mstate
       \/ /\ ~NonMinimal(header.code, size)
          /\ \/ IsControl(header.op) /\ StartControl
             \/ /\ ~IsControl(header.op) /\ TooBig(size)
                /\ Refuse("message_too_big")
                /\ mstate' = "APPLICATION"
             \/ ~IsControl(header.op) /\ ~TooBig(size) /\ data = NoMsg /\ StartData
             \/ ~IsControl(header.op) /\ ~TooBig(size) /\ data # NoMsg /\ ContinueData
    /\ UNCHANGED history

-----------------------------------------------------------------------------
(* The payload. *)

\* byte_mask_circ, on a byte the peer masked with the frame's key.
Unmask(b, key) == IF key = Key(Len(sent)) THEN b ELSE "garbled"

\* utf8_validator::decode
DecodeUtf(utf, b) ==
    CASE utf = "accept" /\ b = "ascii" -> "accept"
      [] utf = "accept" /\ b = "lead" -> "more"
      [] utf = "more" /\ b = "cont" -> "accept"
      [] OTHER -> "reject"

\* One byte of process_payload_bytes, for the message m.
Process(m, b) ==
    LET byte == Unmask(b, m.key)
    IN  [op |-> m.op,
         payload |-> Append(m.payload, byte),
         utf |-> IF m.op = "TEXT" THEN DecodeUtf(m.utf, byte) ELSE m.utf,
         key |-> <<m.key[1], (m.key[2] + 1) % 4>>]

Current == IF current = "control" THEN control ELSE data

\* invalid_utf8 returns before m_bytes_needed is counted down.
Payload(b) ==
    /\ mstate = "APPLICATION" /\ needed > 0 /\ nbytes < MaxBytes
    /\ sent' = Append(sent, b)
    /\ nbytes' = nbytes + 1
    /\ data' = IF current = "data" THEN Process(data, b) ELSE data
    /\ control' = IF current = "control" THEN Process(control, b) ELSE control
    /\ UNCHANGED <<mstate, header, current, delivered, whole, part, nframes>>
    /\ \/ /\ Current'.utf # "reject"
          /\ needed' = needed - 1
          /\ UNCHANGED ec
       \/ /\ Current'.utf = "reject"
          /\ ec' = "invalid_payload"
          /\ UNCHANGED needed

\* What the protocol says of a frame, kept beside the code: it is a message of its own, or
\* adds its payload to the message m.
WithFrame(m) ==
    IF m = NoMsg THEN [op |-> header.op, payload |-> sent, fragments |-> 1]
    ELSE [op |-> m.op, payload |-> m.payload \o sent, fragments |-> m.fragments + 1]

FrameRead ==
    /\ \/ /\ IsControl(header.op)
          /\ whole' = Append(whole, WithFrame(NoMsg))
          /\ UNCHANGED part
       \/ /\ ~IsControl(header.op) /\ header.fin
          /\ whole' = Append(whole, WithFrame(part))
          /\ part' = NoMsg
       \/ /\ ~IsControl(header.op) /\ ~header.fin
          /\ part' = WithFrame(part)
          /\ UNCHANGED whole
    /\ sent' = <<>>
    /\ nframes' = nframes + 1
    /\ UNCHANGED <<delivered, nbytes>>

FragmentEnds ==
    /\ mstate = "APPLICATION" /\ needed = 0 /\ ~header.fin
    /\ reset_headers
    /\ FrameRead
    /\ UNCHANGED <<messages, ec>>

\* Mutant of EndsBadly: the validator is not asked for completeness.
NeverEndsBadly == FALSE

\* finalize_message asks for the opcode of the last frame, not for the message's.
EndsBadly == header.op = "TEXT" /\ Current.utf # "accept"

\* finalize_message
MessageEnds ==
    /\ mstate = "APPLICATION" /\ needed = 0 /\ header.fin
    /\ \/ /\ ~EndsBadly
          /\ mstate' = "READY"
          /\ FrameRead
          /\ UNCHANGED ec
       \/ /\ EndsBadly
          /\ ec' = "invalid_payload"
          /\ UNCHANGED <<mstate, history>>
    /\ UNCHANGED <<needed, header, messages>>

\* handle_read_frame takes the message and processes or dispatches it.
get_message ==
    /\ mstate = "READY"
    /\ delivered' = Append(delivered, [op |-> Current.op, payload |-> Current.payload])
    /\ data' = IF current = "data" THEN NoMsg ELSE data
    /\ control' = IF current = "control" THEN NoMsg ELSE control
    /\ reset_headers
    /\ UNCHANGED <<current, ec, peer>>

\* handle_read_frame closes the connection after an error and reads no more.
Next ==
    /\ ec = "none"
    /\ \/ \E fin, rsv \in BOOLEAN, op \in Opcode : FirstByte(fin, op, rsv)
       \/ \E masked \in BOOLEAN, code \in LengthCode : SecondByte(masked, code)
       \/ \E size \in SizesOf(header.code) : ExtendedHeader(size)
       \/ \E b \in Byte : Payload(b)
       \/ FragmentEnds
       \/ MessageEnds
       \/ get_message

Spec == Init /\ [][Next]_vars

-----------------------------------------------------------------------------
(* What the peer means. *)

\* The data message under way, as far as it has come.
TextSoFar ==
    LET m == WithFrame(part) IN IF m.op = "TEXT" THEN m.payload ELSE <<>>

\* A prefix of a valid text: continuation bytes exactly behind lead bytes.
ValidPrefix(text) ==
    \A i \in 1..Len(text) : text[i] = "cont" <=> i > 1 /\ text[i - 1] = "lead"

Complete(text) == text = <<>> \/ text[Len(text)] # "lead"

\* A header the protocol allows, inside a message or between two.
InOrder(h, inside) ==
    /\ h.op # "RESERVED" /\ ~h.rsv /\ h.masked
    /\ IF IsControl(h.op) THEN h.fin /\ h.size <= Basic /\ h.code = "7bit"
       ELSE h.op = "CONTINUATION" <=> inside

\* The shortest of the three length codes that hold the size.
Shortest(h) == /\ h.size <= Basic => h.code = "7bit"
               /\ h.size <= Extended => h.code # "64bit"

Sum == (IF part = NoMsg THEN 0 ELSE Len(part.payload)) + header.size

-----------------------------------------------------------------------------
(* Properties *)

\* The messages handed on are those the peer's frames mean, whole and in order, however the
\* stream is split, whatever control frames come between the fragments and with a new
\* masking key for every frame.
Reassembled ==
    /\ Len(whole) = Len(delivered) + IF mstate = "READY" THEN 1 ELSE 0
    /\ \A i \in 1..Len(delivered) :
          delivered[i].op = whole[i].op /\ delivered[i].payload = whole[i].payload

\* The connection is closed for a frame exactly when the stream breaks the protocol there,
\* with the status to_ws has for the reason: protocol_error for fragments out of order,
\* message_too_big beyond m_max_message_size, invalid_payload for text that is not UTF-8, and
\* internal_endpoint_error for a length in more bytes than it needs, which to_ws does not know.
\* The size is only judged modulo the width of size_t for a message of several frames.
RefusedRightly ==
    LET reading == mstate = "APPLICATION" /\ ~IsControl(header.op)
        inOrder == InOrder(header, part # NoMsg)
    IN  /\ ec = "protocol_error" => ~inOrder
        /\ mstate \in {"HEADER_EXTENDED", "APPLICATION"} => inOrder
        /\ ec = "message_too_big" => Sum > MaxMessage
        /\ reading /\ ec # "message_too_big" =>
              Sum <= MaxMessage \/ (part # NoMsg /\ Sum >= Width)
        /\ ec = "internal_endpoint_error" => ~Shortest(header)
        /\ mstate = "APPLICATION" => Shortest(header)
        /\ ec = "invalid_payload" => ~ValidPrefix(TextSoFar) \/ ~Complete(TextSoFar)
        /\ reading /\ ec = "none" => ValidPrefix(TextSoFar)

\* No text is handed on that is not UTF-8, and none that ends inside a code point unless it
\* came in fragments: finalize_message, which is to "ensure that text messages end on a
\* valid UTF8 code point" (hybi13.hpp:536), does not ask then.
TextsValid ==
    \A i \in 1..Len(delivered) :
        LET m == delivered[i] IN
        m.op = "TEXT" =>
            ValidPrefix(m.payload) /\ (Complete(m.payload) \/ whole[i].fragments > 1)

=============================================================================
