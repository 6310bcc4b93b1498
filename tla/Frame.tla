-------------------------------- MODULE Frame --------------------------------
(***************************************************************************)
(* The layout of a frame on the wire (frame.hpp) and the codes of a close  *)
(* frame (close.hpp). Headers are sequences of bytes. A payload is its     *)
(* first and last bytes where they matter and, in between, what the caller *)
(* passed: its size and whether it is UTF-8.                               *)
(***************************************************************************)
EXTENDS Integers, Sequences

Data(size, utf8) == [size |-> size, utf8 |-> utf8]
NoData == Data(0, TRUE)
Payload(head, data, tail) == [head |-> head, data |-> data, tail |-> tail]
SizeOf(payload) == Len(payload.head) + payload.data.size + Len(payload.tail)

text == 1
close == 8
ping == 9
pong == 10
is_control(opcode) == opcode >= 8

payload_size_basic == 125
payload_size_extended == 65535
close_reason_size == 123

Zeros(n) == [i \in 1..n |-> 0]

\* htonll: a size in eight bytes, which is what size_t has.
BigEndian(size) ==
    LET b1 == size \div 256  b2 == b1 \div 256  b3 == b2 \div 256  b4 == b3 \div 256
        b5 == b4 \div 256  b6 == b5 \div 256  b7 == b6 \div 256
    IN <<b7 % 256, b6 % 256, b5 % 256, b4 % 256, b3 % 256, b2 % 256, b1 % 256, size % 256>>

\* The sizes that eight bytes hold.
IsSize(size) ==
    LET b1 == size \div 256  b2 == b1 \div 256  b3 == b2 \div 256  b4 == b3 \div 256
        b5 == b4 \div 256  b6 == b5 \div 256  b7 == b6 \div 256
    IN size \in Nat /\ b7 < 256

-------------------------------------------------------------------------------
(* Writing a header. *)

\* Mutant of basic_header: the largest basic size is announced as an extended one.
ExtendedFrom125(opcode, size, fin, mask) ==
    << (IF fin THEN 128 ELSE 0) + (opcode % 16),
       (IF mask THEN 128 ELSE 0)
       + (IF size < payload_size_basic THEN size ELSE IF size <= payload_size_extended THEN 126 ELSE 127) >>

\* No reserved bit is set: there is no compression.
basic_header(opcode, size, fin, mask) ==
    << (IF fin THEN 128 ELSE 0) + (opcode % 16),
       (IF mask THEN 128 ELSE 0)
       + (IF size <= payload_size_basic THEN size ELSE IF size <= payload_size_extended THEN 126 ELSE 127) >>

\* The constructor and copy_payload: the size in as many bytes as it takes, then zeros.
extended_header(size) ==
    LET skipped == IF size <= payload_size_basic THEN 8 ELSE IF size <= payload_size_extended THEN 6 ELSE 0
    IN SubSeq(BigEndian(size), skipped + 1, 8) \o Zeros(4 + skipped)

get_masked(h) == h[2] >= 128
get_basic_size(h) == h[2] % 128

get_masking_key_offset(h) ==
    IF get_basic_size(h) = 126 THEN 2 ELSE IF get_basic_size(h) = 127 THEN 8 ELSE 0

get_header_len(h) == 2 + get_masking_key_offset(h) + (IF get_masked(h) THEN 4 ELSE 0)

prepare_header(h, e) == h \o SubSeq(e, 1, get_header_len(h) - 2)

-------------------------------------------------------------------------------
(* Reading a header. *)

get_fin(h) == h[1] >= 128
get_opcode(h) == h[1] % 16

get_extended_size(e) == 256 * e[1] + e[2]

get_jumbo_size(e) ==
    256 * (256 * (256 * (256 * (256 * (256 * (256 * e[1] + e[2]) + e[3]) + e[4]) + e[5]) + e[6]) + e[7]) + e[8]

get_payload_size(h, e) ==
    IF get_basic_size(h) <= payload_size_basic THEN get_basic_size(h)
    ELSE IF get_basic_size(h) = 126 THEN get_extended_size(e) ELSE get_jumbo_size(e)

-------------------------------------------------------------------------------
(* Close codes. *)

blank == 0
normal == 1000
protocol_error == 1002
no_status == 1005
internal_endpoint_error == 1011

reserved(code) == code \in 1016..2999 \/ code = 1004
invalid(code) == code <= 999 \/ code >= 5000 \/ code \in {no_status, 1006, 1015}
terminal(code) == code \in {protocol_error, 1007, 1008, 1009, internal_endpoint_error}

\* Both bytes of a code as htons and ntohs write and read them.
CodeBytes(code) == <<code \div 256, code % 256>>

\* The code of a close payload and whether it is an error.
extract_code(payload) ==
    LET code == 256 * payload.head[1] + payload.head[2]
    IN CASE SizeOf(payload) = 0 -> [code |-> no_status, error |-> FALSE]
         [] SizeOf(payload) = 1 -> [code |-> protocol_error, error |-> TRUE]
         [] OTHER -> [code |-> code, error |-> invalid(code) \/ reserved(code)]

extract_reason(payload) == [reason |-> payload.data, error |-> ~payload.data.utf8]

===============================================================================
