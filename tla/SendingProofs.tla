---------------------------- MODULE SendingProofs ----------------------------
(***************************************************************************)
(* Proofs about what a connection writes, for every size that eight bytes  *)
(* hold and every code of two.  First the layout: a header reads back      *)
(* (HeaderReadsBack), so each frame says what it was meant to (Good).      *)
(* Then the invariant about the order: what a step may do to it is one     *)
(* lemma for each kind of step (SilentStep, OpenStep, ClosingStep,         *)
(* LateStep), and each action is one of them.                              *)
(***************************************************************************)
EXTENDS Sending, SequenceTheorems, FiniteSetTheorems, TLAPS

\* A quotient and its remainder.
LEMMA Divided ==
    ASSUME NEW n \in Nat
    PROVE  n \div 256 \in Nat /\ n % 256 \in 0..255 /\ n % 256 = n - 256 * (n \div 256)
  OBVIOUS

\* ntohll reads what htonll has written.
LEMMA JumboReadsBack ==
    ASSUME NEW size, IsSize(size)
    PROVE  /\ BigEndian(size) \in Seq(0..255) /\ Len(BigEndian(size)) = 8
           /\ get_jumbo_size(BigEndian(size)) = size
           /\ size <= payload_size_extended =>
                256 * BigEndian(size)[7] + BigEndian(size)[8] = size
<1> DEFINE b1 == size \div 256  b2 == b1 \div 256  b3 == b2 \div 256  b4 == b3 \div 256
           b5 == b4 \div 256  b6 == b5 \div 256  b7 == b6 \div 256
           r0 == size % 256  r1 == b1 % 256  r2 == b2 % 256  r3 == b3 % 256
           r4 == b4 % 256  r5 == b5 % 256  r6 == b6 % 256  r7 == b7 % 256
<1>1. size \in Nat /\ b7 < 256
  BY DEF IsSize
<1>2. BigEndian(size) = <<r7, r6, r5, r4, r3, r2, r1, r0>>
  BY DEF BigEndian
<1>3. /\ b1 \in Nat /\ r0 \in 0..255 /\ r0 = size - 256 * b1
      /\ b2 \in Nat /\ r1 \in 0..255 /\ r1 = b1 - 256 * b2
      /\ b3 \in Nat /\ r2 \in 0..255 /\ r2 = b2 - 256 * b3
      /\ b4 \in Nat /\ r3 \in 0..255 /\ r3 = b3 - 256 * b4
      /\ b5 \in Nat /\ r4 \in 0..255 /\ r4 = b4 - 256 * b5
      /\ b6 \in Nat /\ r5 \in 0..255 /\ r5 = b5 - 256 * b6
      /\ b7 \in Nat /\ r6 \in 0..255 /\ r6 = b6 - 256 * b7
  BY <1>1, Divided
<1>4. r7 = b7
  BY <1>1, <1>3
<1> HIDE DEF b1, b2, b3, b4, b5, b6, b7, r0, r1, r2, r3, r4, r5, r6, r7
<1>5. BigEndian(size) \in Seq(0..255) /\ Len(BigEndian(size)) = 8
  BY <1>1, <1>2, <1>3, <1>4
<1>6. /\ 256 * r7 + r6 = b6 /\ 256 * b6 + r5 = b5 /\ 256 * b5 + r4 = b4 /\ 256 * b4 + r3 = b3
      /\ 256 * b3 + r2 = b2 /\ 256 * b2 + r1 = b1 /\ 256 * b1 + r0 = size
  BY <1>1, <1>3, <1>4
<1>7. get_jumbo_size(BigEndian(size)) = size
  BY <1>2, <1>6 DEF get_jumbo_size
<1>8. ASSUME size <= payload_size_extended
      PROVE  256 * r1 + r0 = size
  <2>1. b1 < 256
    BY <1>1, <1>3, <1>8 DEF payload_size_extended
  <2>2. b2 = 0
    BY <2>1, <1>3
  <2> QED
    BY <2>2, <1>3, <1>6
<1>9. BigEndian(size)[7] = r1 /\ BigEndian(size)[8] = r0
  BY <1>2
<1> QED
  BY <1>5, <1>7, <1>8, <1>9

\* What extended_header holds for each of the three forms of a size.
LEMMA ExtendedHeader ==
    ASSUME NEW size, IsSize(size)
    PROVE  LET x == extended_header(size)
           IN /\ Len(x) = 12
              /\ size > payload_size_basic /\ size <= payload_size_extended => 256 * x[1] + x[2] = size
              /\ size > payload_size_extended => get_jumbo_size(x) = size
<1> DEFINE big == BigEndian(size)
           x == extended_header(size)
<1>1. size \in Nat
  BY DEF IsSize
<1>2. /\ big \in Seq(0..255) /\ Len(big) = 8 /\ get_jumbo_size(big) = size
      /\ size <= payload_size_extended => 256 * big[7] + big[8] = size
  BY JumboReadsBack
<1>3. CASE size <= payload_size_basic
  <2>1. x = SubSeq(big, 9, 8) \o Zeros(12)
    BY <1>3 DEF extended_header
  <2> HIDE DEF big, x
  <2>2. Len(x) = 12
    BY <2>1, <1>2 DEF Zeros
  <2> QED
    BY <2>2, <1>1, <1>3 DEF x, payload_size_basic, payload_size_extended
<1>4. CASE size > payload_size_basic /\ size <= payload_size_extended
  <2>1. x = SubSeq(big, 7, 8) \o Zeros(10)
    BY <1>1, <1>4 DEF extended_header, payload_size_basic, payload_size_extended
  <2> HIDE DEF big, x
  <2>2. Len(x) = 12
    BY <2>1, <1>2 DEF Zeros
  <2>3. x[1] = big[7] /\ x[2] = big[8]
    BY <2>1, <1>2 DEF Zeros
  <2> QED
    BY <2>2, <2>3, <1>1, <1>2, <1>4 DEF x, payload_size_basic, payload_size_extended
<1>5. CASE size > payload_size_extended
  <2>1. x = SubSeq(big, 1, 8) \o Zeros(4)
    BY <1>1, <1>5 DEF extended_header, payload_size_basic, payload_size_extended
  <2> HIDE DEF big, x
  <2>2. Len(x) = 12
    BY <2>1, <1>2 DEF Zeros
  <2>3. \A i \in 1..8 : x[i] = big[i]
    BY <2>1, <1>2 DEF Zeros
  <2>4. get_jumbo_size(x) = get_jumbo_size(big)
    BY <2>3 DEF get_jumbo_size
  <2> QED
    BY <2>2, <2>4, <1>1, <1>2, <1>5 DEF x, payload_size_basic, payload_size_extended
<1> QED
  BY <1>1, <1>3, <1>4, <1>5 DEF payload_size_basic, payload_size_extended

\* A peer reads of a header what was written, in as many bytes as it has.
LEMMA HeaderReadsBack ==
    ASSUME NEW opcode \in {text, close, pong}, NEW size, IsSize(size)
    PROVE  LET out == prepare_header(basic_header(opcode, size, TRUE, FALSE), extended_header(size))
               h == SubSeq(out, 1, 2)
               e == Padded(SubSeq(out, 3, Len(out)))
           IN /\ get_fin(h) /\ ~get_masked(h)
              /\ get_opcode(h) = opcode
              /\ get_header_len(h) = Len(out)
              /\ get_payload_size(h, e) = size
              /\ size <= payload_size_basic => Len(out) = 2
<1> DEFINE b == basic_header(opcode, size, TRUE, FALSE)
           x == extended_header(size)
           n == IF size <= payload_size_basic THEN 0 ELSE IF size <= payload_size_extended THEN 2 ELSE 8
           out == prepare_header(b, x)
           h == SubSeq(out, 1, 2)
           tail == SubSeq(out, 3, Len(out))
           e == Padded(tail)
<1> SUFFICES /\ get_fin(h) /\ ~get_masked(h)
             /\ get_opcode(h) = opcode
             /\ get_header_len(h) = Len(out)
             /\ get_payload_size(h, e) = size
             /\ size <= payload_size_basic => Len(out) = 2
  OBVIOUS
<1>1. size \in Nat /\ n \in {0, 2, 8}
  BY DEF IsSize
<1>2. /\ b = <<b[1], b[2]>>
      /\ b[1] = 128 + opcode
      /\ b[2] = IF size <= payload_size_basic THEN size ELSE IF size <= payload_size_extended THEN 126 ELSE 127
  BY <1>1 DEF basic_header, text, close, pong
<1>3. Len(x) = 12
  BY ExtendedHeader
<1> DEFINE b1 == b[1]
           b2 == b[2]
<1> HIDE DEF b, x
<1>4. get_masking_key_offset(b) = n /\ ~get_masked(b)
  BY <1>1, <1>2 DEF get_masking_key_offset, get_masked, get_basic_size, payload_size_basic, payload_size_extended
<1>5. get_header_len(b) = 2 + n
  BY <1>1, <1>4 DEF get_header_len
<1> HIDE DEF n
<1>6. out = <<b1, b2>> \o SubSeq(x, 1, n)
  <2>1. out = b \o SubSeq(x, 1, n)
    BY <1>1, <1>5 DEF prepare_header
  <2> QED
    BY <2>1, <1>2
<1> HIDE DEF out, b1, b2
<1>7. /\ Len(out) = 2 + n
      /\ out[1] = b1 /\ out[2] = b2
      /\ \A i \in 1..n : out[2 + i] = x[i]
  <2>1. CASE n = 0
    BY <2>1, <1>3, <1>6
  <2>2. CASE n = 2
    BY <2>2, <1>3, <1>6
  <2>3. CASE n = 8
    BY <2>3, <1>3, <1>6
  <2> QED
    BY <2>1, <2>2, <2>3, <1>1
<1>8. h[1] = b[1] /\ h[2] = b[2]
  BY <1>1, <1>7 DEF b1, b2
<1>9. Len(tail) = n /\ \A i \in 1..n : tail[i] = out[2 + i]
  BY <1>1, <1>7
<1> HIDE DEF h, tail
<1>10. \A i \in 1..n : e[i] = x[i]
  <2>1. e = tail \o Zeros(12 - n)
    BY <1>9 DEF Padded
  <2>2. \A i \in 1..n : e[i] = tail[i]
    BY <2>1, <1>1, <1>9 DEF Zeros
  <2> QED
    BY <2>2, <1>7, <1>9, <1>1
<1> HIDE DEF e
<1>11. /\ get_fin(h) /\ ~get_masked(h) /\ get_opcode(h) = opcode
       /\ get_basic_size(h) = b[2]
       /\ get_header_len(h) = 2 + n
  <2>1. get_fin(h) /\ get_opcode(h) = opcode
    BY <1>2, <1>8 DEF get_fin, get_opcode, text, close, pong
  <2>2. ~get_masked(h) /\ get_basic_size(h) = b[2]
    BY <1>1, <1>2, <1>8 DEF get_masked, get_basic_size, payload_size_basic, payload_size_extended
  <2>3. get_header_len(h) = get_header_len(b)
    BY <1>8 DEF get_header_len, get_masking_key_offset, get_masked, get_basic_size
  <2> QED
    BY <2>1, <2>2, <2>3, <1>5
<1>12. get_payload_size(h, e) = size
  <2>1. CASE size <= payload_size_basic
    BY <2>1, <1>1, <1>2, <1>11 DEF get_payload_size
  <2>2. CASE size > payload_size_basic /\ size <= payload_size_extended
    <3>1. n = 2 /\ get_basic_size(h) = 126
      BY <2>2, <1>1, <1>2, <1>11 DEF n, payload_size_basic
    <3>2. 256 * x[1] + x[2] = size
      BY <2>2, ExtendedHeader DEF x
    <3> QED
      BY <3>1, <3>2, <1>10 DEF get_payload_size, get_extended_size, payload_size_basic
  <2>3. CASE size > payload_size_extended
    <3>1. n = 8 /\ get_basic_size(h) = 127
      BY <2>3, <1>1, <1>2, <1>11 DEF n, payload_size_basic, payload_size_extended
    <3>2. get_jumbo_size(x) = size
      BY <2>3, ExtendedHeader DEF x
    <3>3. get_jumbo_size(e) = get_jumbo_size(x)
      BY <3>1, <1>10 DEF get_jumbo_size
    <3> QED
      BY <3>1, <3>2, <3>3 DEF get_payload_size, payload_size_basic
  <2> QED
    BY <2>1, <2>2, <2>3, <1>1 DEF payload_size_basic, payload_size_extended
<1>13. size <= payload_size_basic => n = 0
  BY DEF n
<1> QED
  BY <1>1, <1>7, <1>11, <1>12, <1>13

LEMMA SmallSize ==
    ASSUME NEW n \in Nat, n <= payload_size_basic
    PROVE  IsSize(n)
<1>1. n \in Nat /\ n \div 256 = 0 /\ 0 \div 256 = 0
  BY DEF payload_size_basic
<1> QED
  BY <1>1 DEF IsSize

\* The two bytes of a code.
LEMMA CodeReadsBack ==
    ASSUME NEW code \in Nat
    PROVE  256 * CodeBytes(code)[1] + CodeBytes(code)[2] = code
<1> DEFINE q == code \div 256
           r == code % 256
<1>1. q \in Nat /\ r \in 0..255 /\ r = code - 256 * q
  BY Divided
<1>2. CodeBytes(code)[1] = q /\ CodeBytes(code)[2] = r
  BY DEF CodeBytes
<1> HIDE DEF q, r
<1> QED
  BY <1>1, <1>2

-------------------------------------------------------------------------------
(* What one frame is to say. *)

\* A frame on the wire says what it was meant to.
Good(frame, meaning) ==
    /\ IF processor = 0 THEN Says00(frame, meaning) ELSE Says(frame, meaning)
    /\ is_control(meaning.opcode) /\ processor # 0 => Len(frame.header) = 2
    /\ meaning.opcode = text => meaning.data.utf8
    /\ processor # 0 /\ meaning.opcode = close => Legal(frame.payload)

FrameIn(out, t) == [header |-> out.header, payload |-> out.payload, terminal |-> t]

\* The head of the payload of a frame.
HeadOf(opcode, code) == IF opcode = close /\ code # no_status THEN CodeBytes(code) ELSE <<>>

LEMMA FrameSays ==
    ASSUME NEW opcode \in {text, close, pong}, NEW data, NEW code, NEW t,
           IsSize(SizeOf(Payload(HeadOf(opcode, code), data, <<>>)))
    PROVE  LET payload == Payload(HeadOf(opcode, code), data, <<>>)
               frame == FrameIn(FrameOf(opcode, payload), t)
           IN /\ Says(frame, Meaning(opcode, data, code))
              /\ frame.payload = payload
              /\ SizeOf(payload) <= payload_size_basic => Len(frame.header) = 2
<1> DEFINE payload == Payload(HeadOf(opcode, code), data, <<>>)
           out == prepare_header(basic_header(opcode, SizeOf(payload), TRUE, FALSE),
                                 extended_header(SizeOf(payload)))
           frame == FrameIn(FrameOf(opcode, payload), t)
<1>1. frame.header = out /\ frame.payload = payload
  BY DEF FrameIn, FrameOf, Prepared
<1>2. /\ get_fin(SubSeq(out, 1, 2)) /\ ~get_masked(SubSeq(out, 1, 2))
      /\ get_opcode(SubSeq(out, 1, 2)) = opcode
      /\ get_header_len(SubSeq(out, 1, 2)) = Len(out)
      /\ get_payload_size(SubSeq(out, 1, 2), Padded(SubSeq(out, 3, Len(out)))) = SizeOf(payload)
      /\ SizeOf(payload) <= payload_size_basic => Len(out) = 2
  BY HeaderReadsBack
<1> HIDE DEF out, frame
<1>3. Meaning(opcode, data, code).opcode = opcode /\ Meaning(opcode, data, code).data = data
      /\ Meaning(opcode, data, code).code = code
  BY DEF Meaning
<1>4. Says(frame, Meaning(opcode, data, code))
  BY <1>1, <1>2, <1>3 DEF Says, HeadOf
<1> QED
  BY <1>1, <1>2, <1>4 DEF frame

\* The frames of send and of a pong, unless they are refused.
LEMMA DataFrame ==
    ASSUME NEW data, IsSize(data.size), NEW t, data.utf8 \in BOOLEAN,
           ~prepare_data_frame(text, data).error
    PROVE  Good(FrameIn(prepare_data_frame(text, data), t), Meaning(text, data, no_status))
<1> DEFINE out == prepare_data_frame(text, data)
           meaning == Meaning(text, data, no_status)
<1>1. data.utf8 /\ out = IF processor = 0 THEN Prepared(<<0>>, Payload(<<>>, data, <<255>>))
                         ELSE FrameOf(text, Payload(<<>>, data, <<>>))
  BY DEF prepare_data_frame, prepare_data_frame00, Refusal
<1>2. /\ meaning.opcode = text /\ meaning.data = data
      /\ ~is_control(text) /\ text # close
  BY DEF Meaning, is_control, text, close
<1>3. CASE processor = 0
  BY <1>1, <1>2, <1>3 DEF Good, Says00, FrameIn, Prepared, Payload, Meaning, text, close
<1>4. CASE processor # 0
  <2>1. HeadOf(text, no_status) = <<>> /\ data.size \in Nat
    BY DEF HeadOf, text, close, IsSize
  <2>2. SizeOf(Payload(HeadOf(text, no_status), data, <<>>)) = data.size
    BY <2>1 DEF SizeOf, Payload
  <2>3. Says(FrameIn(out, t), meaning)
    BY <1>1, <1>4, <2>1, <2>2, FrameSays
  <2> QED
    BY <1>1, <1>2, <1>4, <2>3 DEF Good
<1> QED
  BY <1>3, <1>4

LEMMA PongFrame ==
    ASSUME NEW data, data.size \in Nat, data.size <= payload_size_basic, NEW t, processor # 0
    PROVE  /\ ~prepare_pong(data).error
           /\ Good(FrameIn(prepare_pong(data), t), Meaning(pong, data, no_status))
<1> DEFINE payload == Payload(<<>>, data, <<>>)
<1>1. HeadOf(pong, no_status) = <<>> /\ SizeOf(payload) = data.size
  BY DEF HeadOf, SizeOf, Payload, payload_size_basic, pong, close
<1>2. prepare_pong(data) = prepare_control(pong, payload)
  BY DEF prepare_pong
<1> HIDE DEF payload
<1>3. /\ SizeOf(payload) \in Nat /\ SizeOf(payload) <= payload_size_basic
      /\ IsSize(SizeOf(payload))
  BY <1>1, SmallSize DEF payload_size_basic
<1>6. prepare_pong(data) = FrameOf(pong, payload)
  BY <1>2, <1>3 DEF prepare_control, is_control, pong, payload_size_basic
<1>4. ~FrameOf(pong, payload).error
  BY DEF FrameOf, Prepared
<1>5. /\ Says(FrameIn(FrameOf(pong, payload), t), Meaning(pong, data, no_status))
      /\ Len(FrameIn(FrameOf(pong, payload), t).header) = 2
  BY <1>1, <1>3, FrameSays DEF payload, payload_size_basic
<1> QED
  BY <1>4, <1>5, <1>6 DEF Good, Meaning, pong, text, close

\* The frame of a close whose code and reason can be sent.
LEMMA CloseFrame ==
    ASSUME NEW code \in Nat, NEW reason, reason.size \in Nat, NEW t, processor # 0,
           ~prepare_close(code, reason).error
    PROVE  /\ Good(FrameIn(prepare_close(code, reason), t), Meaning(close, reason, code))
           /\ prepare_close(code, reason).payload = Payload(HeadOf(close, code), reason, <<>>)
<1> DEFINE payload == Payload(HeadOf(close, code), reason, <<>>)
           out == prepare_close(code, reason)
<1> HIDE DEF payload
<1>1. /\ out = prepare_control(close, payload)
      /\ ~reserved(code) /\ (invalid(code) => code = no_status)
      /\ code = no_status => reason.size = 0
      /\ reason.size <= payload_size_basic - 2
  BY DEF prepare_close, Refusal, HeadOf, payload_size_basic, payload
<1>2. /\ payload.head = HeadOf(close, code) /\ payload.data = reason
      /\ SizeOf(payload) = Len(HeadOf(close, code)) + reason.size
  BY DEF SizeOf, Payload, payload
<1>3. Len(HeadOf(close, code)) = IF code = no_status THEN 0 ELSE 2
  BY DEF HeadOf, CodeBytes
<1>4. SizeOf(payload) \in Nat /\ SizeOf(payload) <= payload_size_basic
  BY <1>1, <1>2, <1>3 DEF payload_size_basic
<1>5. out = FrameOf(close, payload)
  BY <1>1, <1>4 DEF prepare_control, is_control, close, payload_size_basic
<1>6. Legal(payload)
  <2>1. CASE code = no_status
    BY <2>1, <1>1, <1>2, <1>3, <1>4 DEF Legal, extract_code, payload_size_basic
  <2>2. CASE code # no_status
    <3>1. SizeOf(payload) = 2 + reason.size /\ payload.head = CodeBytes(code)
      BY <2>2, <1>2, <1>3 DEF HeadOf
    <3>2. 256 * payload.head[1] + payload.head[2] = code
      BY <3>1, CodeReadsBack
    <3>3. extract_code(payload) = [code |-> code, error |-> invalid(code) \/ reserved(code)]
      BY <3>1, <3>2 DEF extract_code
    <3>4. invalid(code) \in BOOLEAN /\ reserved(code) \in BOOLEAN
      BY DEF invalid, reserved
    <3>5. ~extract_code(payload).error
      BY <2>2, <3>3, <3>4, <1>1
    <3> QED
      BY <3>5, <1>4 DEF Legal
  <2> QED
    BY <2>1, <2>2
<1> HIDE DEF payload, out
<1>7. /\ Says(FrameIn(FrameOf(close, payload), t), Meaning(close, reason, code))
      /\ FrameIn(FrameOf(close, payload), t).payload = payload
      /\ Len(FrameIn(FrameOf(close, payload), t).header) = 2
  <2>1. IsSize(SizeOf(payload)) /\ SizeOf(payload) <= payload_size_basic
    BY <1>4, SmallSize DEF payload_size_basic
  <2> QED
    BY <2>1, FrameSays DEF payload
<1>8. FrameOf(close, payload).payload = payload
  BY DEF FrameOf, Prepared
<1> QED
  BY <1>5, <1>6, <1>7, <1>8 DEF Good, Meaning, close, text, payload, out

\* Version 0 closes with two bytes, whatever is asked for.
LEMMA CloseFrame00 ==
    ASSUME processor = 0, NEW code, NEW reason, NEW data, NEW c, NEW t
    PROVE  /\ ~prepare_close(code, reason).error
           /\ Good(FrameIn(prepare_close(code, reason), t), Meaning(close, data, c))
<1>1. prepare_close(code, reason) = Prepared(<<>>, Payload(<<255, 0>>, NoData, <<>>))
  BY DEF prepare_close, prepare_close00
<1>2. <<>> \o <<255, 0>> = <<255, 0>> /\ Len(<<255, 0>>) = 2
  OBVIOUS
<1> DEFINE frame == FrameIn(prepare_close(code, reason), t)
           meaning == Meaning(close, data, c)
<1>3. /\ frame.header = <<>> /\ frame.payload.head = <<255, 0>>
      /\ SizeOf(frame.payload) = 2
      /\ meaning.opcode = close
  <2>1. /\ frame.header = <<>> /\ frame.payload = Payload(<<255, 0>>, NoData, <<>>)
        /\ meaning.opcode = close
    BY <1>1 DEF FrameIn, Prepared, Meaning
  <2> HIDE DEF frame, meaning
  <2>2. frame.payload.head = <<255, 0>> /\ frame.payload.tail = <<>> /\ frame.payload.data.size = 0
    BY <2>1 DEF Payload, NoData, Data
  <2>3. Len(frame.payload.head) = 2 /\ Len(frame.payload.tail) = 0
    BY <2>2
  <2>4. SizeOf(frame.payload) = 2
    BY <2>2, <2>3 DEF SizeOf
  <2> QED
    BY <2>1, <2>2, <2>4
<1> HIDE DEF frame, meaning
<1>4. Good(frame, meaning)
  BY <1>2, <1>3 DEF Good, Says00, close, text
<1> QED
  BY <1>1, <1>4 DEF Prepared, frame, meaning

\* A close frame of the peer: without a code, with half of one, or with one.
LEMMA PeerClose ==
    ASSUME NEW payload \in ClosePayloads
    PROVE  LET code == extract_code(payload)
           IN /\ SizeOf(payload) \in Nat /\ SizeOf(payload) <= payload_size_basic
              /\ payload.data.size \in Nat /\ payload.data.utf8 \in BOOLEAN
              /\ code.error \in BOOLEAN
              /\ Legal(payload) <=> ~code.error
              /\ SizeOf(payload) = 0 => code.code = no_status /\ payload.data = NoData
              /\ ~code.error /\ SizeOf(payload) # 0 =>
                    /\ code.code \in Nat /\ code.code # no_status
                    /\ ~invalid(code.code) /\ ~reserved(code.code)
                    /\ payload.data.size <= payload_size_basic - 2
                    /\ payload = Payload(CodeBytes(code.code), payload.data, <<>>)
<1>1. CASE payload = Payload(<<>>, NoData, <<>>)
  <2>1. SizeOf(payload) = 0 /\ payload.data = NoData
    BY <1>1 DEF SizeOf, Payload, NoData, Data
  <2>2. extract_code(payload) = [code |-> no_status, error |-> FALSE]
    BY <2>1 DEF extract_code
  <2>3. /\ extract_code(payload).code = no_status
        /\ extract_code(payload).error \in BOOLEAN /\ ~extract_code(payload).error
    BY <2>2
  <2>4. payload.data.size = 0 /\ payload.data.utf8 \in BOOLEAN
    BY <2>1 DEF NoData, Data
  <2>5. Legal(payload) <=> ~extract_code(payload).error
    BY <2>1, <2>3 DEF Legal, payload_size_basic
  <2> QED
    BY <2>1, <2>3, <2>4, <2>5 DEF payload_size_basic
<1>2. CASE payload = Payload(<<3>>, NoData, <<>>)
  <2>1. SizeOf(payload) = 1 /\ payload.data = NoData
    BY <1>2 DEF SizeOf, Payload, NoData, Data
  <2>2. extract_code(payload) = [code |-> protocol_error, error |-> TRUE]
    BY <2>1 DEF extract_code
  <2>3. /\ extract_code(payload).code = protocol_error
        /\ extract_code(payload).error \in BOOLEAN /\ extract_code(payload).error
    BY <2>2
  <2>4. payload.data.size = 0 /\ payload.data.utf8 \in BOOLEAN
    BY <2>1 DEF NoData, Data
  <2>5. Legal(payload) <=> ~extract_code(payload).error
    BY <2>1, <2>3 DEF Legal, payload_size_basic
  <2> QED
    BY <2>1, <2>3, <2>4, <2>5 DEF payload_size_basic
<1>3. CASE \E c \in Codes, size \in {0, 1, close_reason_size}, utf8 \in BOOLEAN :
              payload = Payload(CodeBytes(c), Data(size, utf8), <<>>)
  <2>1. PICK c \in Codes, size \in {0, 1, close_reason_size}, utf8 \in BOOLEAN :
              payload = Payload(CodeBytes(c), Data(size, utf8), <<>>)
    BY <1>3
  <2>2. c \in Nat
    BY SendingAssumption
  <2>3. /\ payload.head = CodeBytes(c) /\ payload.data = Data(size, utf8)
        /\ payload.data.size = size /\ payload.data.utf8 = utf8
        /\ SizeOf(payload) = 2 + size
    BY <2>1 DEF SizeOf, Payload, Data, CodeBytes, close_reason_size
  <2>4. 256 * payload.head[1] + payload.head[2] = c
    BY <2>2, <2>3, CodeReadsBack
  <2>5. size \in Nat /\ size <= payload_size_basic - 2 /\ SizeOf(payload) \in Nat
        /\ SizeOf(payload) >= 2 /\ SizeOf(payload) <= payload_size_basic
    BY <2>3 DEF close_reason_size, payload_size_basic
  <2>6. extract_code(payload) = [code |-> c, error |-> invalid(c) \/ reserved(c)]
    BY <2>4, <2>5 DEF extract_code
  <2>7. invalid(c) \in BOOLEAN /\ reserved(c) \in BOOLEAN /\ invalid(no_status)
    BY DEF invalid, reserved
  <2>8. ~extract_code(payload).error => ~invalid(c) /\ ~reserved(c) /\ c # no_status
    BY <2>6, <2>7
  <2>9. Legal(payload) <=> ~extract_code(payload).error
    BY <2>5 DEF Legal, payload_size_basic
  <2> QED
    BY <2>1, <2>2, <2>3, <2>5, <2>6, <2>7, <2>8, <2>9 DEF payload_size_basic
<1> QED
  BY <1>1, <1>2, <1>3 DEF ClosePayloads

-------------------------------------------------------------------------------
(* The inductive invariant. *)

\* The close frames written, the wrong ones of the peer, and those of them that came when a
\* close frame had been written.
Closes == {i \in DOMAIN told : told[i].opcode = close}
Wrong(payload) == ~Legal(payload) \/ ~payload.data.utf8
Late == {i \in DOMAIN heard : Wrong(heard[i].payload) /\ heard[i].phase = "closing"}

IsSequence(s) == Len(s) \in Nat /\ DOMAIN s = 1..Len(s)

Histories ==
    /\ IsSequence(wire) /\ IsSequence(told) /\ IsSequence(heard)
    /\ Len(wire) = Len(told)
    /\ \A i \in DOMAIN heard :
          heard[i].payload \in ClosePayloads /\ heard[i].phase \in {"open", "closing"}

\* Nothing is written before the handshake is over, and no close while the connection is open.
Phases ==
    /\ phase \in {"reading", "responding", "open", "closing", "closed"}
    /\ phase \in {"reading", "responding"} => wire = <<>> /\ told = <<>>
    /\ phase \in {"reading", "responding", "open"} => heard = <<>> /\ Closes = {}

AllGood == \A i \in DOMAIN told : Good(wire[i], told[i])

ClosesLast == \A i \in Closes : \A j \in DOMAIN told : j > i => j \in Closes

ClosesCounted == Cardinality(Closes) <= 1 + Cardinality(Late)

\* The frame answers the peer's close.
Answers(frame, meaning, asked) ==
    /\ Wrong(asked) => meaning.code = protocol_error
    /\ ~Wrong(asked) /\ SizeOf(asked) = 0 => meaning.code = normal /\ meaning.data.size = 0
    /\ ~Wrong(asked) /\ SizeOf(asked) # 0 => frame.payload = asked

FirstClose(k) == k \in Closes /\ \A j \in Closes : k <= j

OpenAnswered ==
    \A i \in DOMAIN heard : heard[i].phase = "open" =>
        \E k \in Closes : FirstClose(k) /\ Answers(wire[k], told[k], heard[i].payload)

IInv == Histories /\ Phases /\ AllGood /\ ClosesLast /\ ClosesCounted /\ OpenAnswered

LEMMA Responding ==
    ASSUME NEW answer, write_http_response(answer)
    PROVE  phase' = "responding"
  BY DEF write_http_response

\* What a handler of the handshake does to the phase and the processor.
LEMMA HandshakeStep ==
    ASSUME Next
    PROVE  /\ phase \in {"reading", "responding", "open"}
           /\ phase' \in {"reading", "responding", "open", "closing", "closed"}
           /\ phase = "reading" => phase' \in {"reading", "responding"}
           /\ phase # "reading" => processor' = processor /\ phase' \notin {"reading", "responding"}
           /\ phase' = "closing" => processor = 0
<1>1. ASSUME NEW n, ReadHandshake(n)
      PROVE  phase = "reading" /\ phase' \in {"reading", "responding"}
  <2> DEFINE data == SubSeq(stream, 1, n)
             r == consume(request, data)
  <2>1. phase = "reading" /\ HandleRead(r, data)
    BY <1>1 DEF ReadHandshake
  <2> HIDE DEF r, data
  <2>2. CASE Refuse(r, processor, Refused(r.error))
    BY <2>1, <2>2, Responding DEF Refuse
  <2>3. CASE Complete(r, SubSeq(data, r.processed + 1, Len(data)), is_websocket_handshake(r))
    <3>1. ASSUME NEW left, NEW req, NEW version, NEW websocket, Processed(req, left, version, websocket)
          PROVE  phase' = "responding"
      BY <3>1, Responding DEF Processed, process_handshake_request, Conclude
    <3>2. ASSUME NEW version, NEW answer, Refuse(r, version, answer)
          PROVE  phase' = "responding"
      BY <3>2, Responding DEF Refuse
    <3> QED
      BY <2>1, <2>3, <3>1, <3>2 DEF Complete, Initialized
  <2> QED
    BY <2>1, <2>2, <2>3 DEF HandleRead
<1>2. ASSUME NEW data, Frames(data)
      PROVE  phase' \in {"open", "closing"} /\ (phase' = "closing" => processor = 0)
  BY <1>2 DEF Frames
<1>3. ASSUME NEW n, ReadFrame(n)
      PROVE  /\ phase = "open" /\ processor' = processor
             /\ phase' \in {"open", "closing"} /\ (phase' = "closing" => processor = 0)
  BY <1>2, <1>3 DEF ReadFrame, http
<1>4. ASSUME Responded
      PROVE  /\ phase = "responding" /\ processor' = processor
             /\ phase' \in {"open", "closing", "closed"} /\ (phase' = "closing" => processor = 0)
  BY <1>2, <1>4 DEF Responded, http
<1> QED
  BY <1>1, <1>3, <1>4 DEF Next

-------------------------------------------------------------------------------
(* What a step may do to the invariant. *)

\* What a frame says does not change while the connection's version does not.
LEMMA GoodLasts ==
    ASSUME processor' = processor, NEW frame, NEW meaning, Good(frame, meaning)
    PROVE  Good(frame, meaning)'
  BY DEF Good

\* Nothing is written and nothing heard.
LEMMA SilentStep ==
    ASSUME IInv, UNCHANGED <<wire, told, heard>>,
           processor' = processor \/ phase \in {"reading", "responding"},
           phase' \in {"reading", "responding", "open", "closing", "closed"},
           phase' \in {"reading", "responding"} => phase \in {"reading", "responding"},
           phase' = "open" => phase \in {"reading", "responding", "open"}
    PROVE  IInv'
<1> USE DEF IInv
<1>1. Histories'
  BY DEF Histories, IsSequence
<1>2. Closes' = Closes /\ Late' = Late
  BY DEF Closes, Late
<1>3. Phases'
  BY <1>2 DEF Phases
<1>4. AllGood'
  <2>1. CASE processor' = processor
    BY <2>1, GoodLasts DEF AllGood
  <2>2. CASE phase \in {"reading", "responding"}
    BY <2>2 DEF Phases, AllGood
  <2> QED
    BY <2>1, <2>2
<1>5. ClosesLast' /\ ClosesCounted' /\ OpenAnswered'
  BY <1>2 DEF ClosesLast, ClosesCounted, OpenAnswered, FirstClose
<1> QED
  BY <1>1, <1>3, <1>4, <1>5

\* A frame is written: those before it stay, and it is the last.
LEMMA FrameWritten ==
    ASSUME Histories, NEW frame, NEW meaning,
           wire' = Append(wire, frame), told' = Append(told, meaning)
    PROVE  /\ IsSequence(wire)' /\ IsSequence(told)' /\ Len(wire') = Len(told')
           /\ Len(told') = Len(told) + 1
           /\ DOMAIN told' = DOMAIN told \cup {Len(told) + 1}
           /\ \A i \in DOMAIN told : told'[i] = told[i] /\ wire'[i] = wire[i]
           /\ told'[Len(told) + 1] = meaning /\ wire'[Len(told) + 1] = frame
  BY DEF Histories, IsSequence

\* After that every frame is good if the last one is.
LEMMA GoodWritten ==
    ASSUME IInv, processor' = processor, NEW frame, NEW meaning, Good(frame, meaning),
           wire' = Append(wire, frame), told' = Append(told, meaning)
    PROVE  AllGood'
<1>1. /\ DOMAIN told' = DOMAIN told \cup {Len(told) + 1}
      /\ \A i \in DOMAIN told : told'[i] = told[i] /\ wire'[i] = wire[i]
      /\ told'[Len(told) + 1] = meaning /\ wire'[Len(told) + 1] = frame
  BY FrameWritten DEF IInv
<1>2. \A i \in DOMAIN told : Good(wire[i], told[i])
  BY DEF IInv, AllGood
<1>3. \A f, m : Good(f, m) => (processor' = processor => Good(f, m)')
  BY DEF Good
<1>4. ASSUME NEW i \in DOMAIN told'
      PROVE  (processor' = 0 \/ processor' # 0) /\ Good(wire'[i], told'[i])
  <2>1. CASE i \in DOMAIN told
    BY <2>1, <1>1, <1>2
  <2>2. CASE i = Len(told) + 1
    BY <2>2, <1>1
  <2> QED
    BY <2>1, <2>2, <1>1, <1>4
<1> QED
  BY <1>3, <1>4 DEF AllGood, Good

\* A message or a pong is written while the connection is open.
LEMMA OpenStep ==
    ASSUME IInv, phase = "open", phase' = "open", heard' = heard, processor' = processor,
           NEW frame, NEW meaning, Good(frame, meaning), meaning.opcode # close,
           wire' = Append(wire, frame), told' = Append(told, meaning)
    PROVE  IInv'
<1>1. Histories /\ Phases
  BY DEF IInv
<1>2. /\ IsSequence(wire)' /\ IsSequence(told)' /\ Len(wire') = Len(told')
      /\ DOMAIN told' = DOMAIN told \cup {Len(told) + 1}
      /\ \A i \in DOMAIN told : told'[i] = told[i] /\ wire'[i] = wire[i]
      /\ told'[Len(told) + 1] = meaning
  BY <1>1, FrameWritten
<1>3. Histories'
  BY <1>1, <1>2 DEF Histories, IsSequence
<1>4. Closes' = {} /\ heard' = <<>>
  BY <1>1, <1>2 DEF Phases, Closes
<1>5. Phases'
  BY <1>4 DEF Phases
<1>6. AllGood'
  BY GoodWritten
<1>7. ClosesLast' /\ OpenAnswered'
  BY <1>4 DEF ClosesLast, OpenAnswered
<1>8. ClosesCounted'
  <2>1. Late' = {}
    BY <1>4 DEF Late
  <2> QED
    BY <1>4, <2>1, FS_EmptySet DEF ClosesCounted
<1> QED
  BY <1>3, <1>5, <1>6, <1>7, <1>8 DEF IInv

\* The first close frame is written, with or without a close of the peer.
LEMMA ClosingStep ==
    ASSUME IInv, phase \in {"responding", "open"}, phase' = "closing", processor' = processor,
           NEW frame, NEW meaning, Good(frame, meaning), meaning.opcode = close,
           wire' = Append(wire, frame), told' = Append(told, meaning),
           NEW asked \in ClosePayloads,
           \/ heard' = heard
           \/ heard' = Append(heard, [payload |-> asked, phase |-> "open"])
              /\ Answers(frame, meaning, asked)
    PROVE  IInv'
<1>1. Histories /\ Phases /\ heard = <<>> /\ Closes = {}
  BY DEF IInv, Phases
<1> DEFINE n == Len(told) + 1
<1>2. /\ IsSequence(wire)' /\ IsSequence(told)' /\ Len(wire') = Len(told')
      /\ Len(told') = n /\ n \in Nat /\ n \notin DOMAIN told
      /\ DOMAIN told' = DOMAIN told \cup {n} /\ DOMAIN told' = 1..n
      /\ \A i \in DOMAIN told : told'[i] = told[i] /\ wire'[i] = wire[i]
      /\ told'[n] = meaning /\ wire'[n] = frame
  BY <1>1, FrameWritten DEF Histories, IsSequence
<1> HIDE DEF n
<1>3. /\ IsSequence(heard)'
      /\ \A i \in DOMAIN heard' :
            /\ heard'[i].payload \in ClosePayloads /\ heard'[i].phase = "open"
            /\ Answers(frame, meaning, heard'[i].payload)
  <2>1. CASE heard' = <<>>
    BY <2>1 DEF IsSequence
  <2>2. CASE heard' = <<[payload |-> asked, phase |-> "open"]>> /\ Answers(frame, meaning, asked)
    BY <2>2 DEF IsSequence
  <2> QED
    BY <1>1, <2>1, <2>2
<1>4. Histories'
  BY <1>2, <1>3 DEF Histories
<1>5. Closes' = {n}
  BY <1>1, <1>2 DEF Closes
<1>6. Late' = {}
  BY <1>3 DEF Late
<1>7. Phases'
  BY DEF Phases
<1>8. AllGood'
  BY GoodWritten
<1>9. ClosesLast'
  BY <1>2, <1>5 DEF ClosesLast
<1>10. ClosesCounted'
  <2>1. Cardinality(Closes') = 1
    BY <1>5, FS_Singleton
  <2>2. Cardinality(Late') = 0
    BY <1>6, FS_EmptySet
  <2> QED
    BY <2>1, <2>2 DEF ClosesCounted
<1>11. OpenAnswered'
  BY <1>2, <1>3, <1>5 DEF OpenAnswered, FirstClose
<1> QED
  BY <1>4, <1>7, <1>8, <1>9, <1>10, <1>11 DEF IInv

\* A close of the peer behind a close frame: it is refused again if it is wrong, and otherwise
\* nothing is written.
LEMMA LateStep ==
    ASSUME IInv, phase = "closing", phase' \in {"closing", "closed"}, processor' = processor,
           NEW asked \in ClosePayloads,
           heard' = Append(heard, [payload |-> asked, phase |-> "closing"]),
           NEW frame, NEW meaning,
           \/ UNCHANGED <<wire, told>>
           \/ /\ Wrong(asked)
              /\ Good(frame, meaning) /\ meaning.opcode = close
              /\ wire' = Append(wire, frame) /\ told' = Append(told, meaning)
    PROVE  IInv'
<1>1. Histories /\ AllGood /\ ClosesLast /\ ClosesCounted /\ OpenAnswered
  BY DEF IInv
<1> DEFINE n == Len(told) + 1
           m == Len(heard) + 1
<1>2. /\ IsSequence(heard)' /\ Len(heard') = m /\ m \in Nat /\ m \notin DOMAIN heard
      /\ DOMAIN heard' = DOMAIN heard \cup {m}
      /\ \A i \in DOMAIN heard : heard'[i] = heard[i]
      /\ heard'[m] = [payload |-> asked, phase |-> "closing"]
      /\ Len(heard) \in Nat /\ DOMAIN heard = 1..Len(heard)
  BY <1>1 DEF Histories, IsSequence
<1>3. /\ IsSequence(told) /\ Len(told) \in Nat /\ DOMAIN told = 1..Len(told)
      /\ n \in Nat /\ n \notin DOMAIN told /\ (\A i \in DOMAIN told : i < n)
  BY <1>1 DEF Histories, IsSequence
<1> HIDE DEF n, m
<1>4. /\ IsFiniteSet(Late) /\ Cardinality(Late) \in Nat
      /\ IsFiniteSet(Closes) /\ Cardinality(Closes) \in Nat
  <2>1. Late \in SUBSET (1..Len(heard)) /\ Closes \in SUBSET (1..Len(told))
    BY <1>2, <1>3 DEF Late, Closes
  <2>2. IsFiniteSet(1..Len(heard)) /\ IsFiniteSet(1..Len(told))
    BY <1>2, <1>3, FS_Interval
  <2> QED
    BY <2>1, <2>2, FS_Subset, FS_CardinalityType
<1>5. /\ Late' = IF Wrong(asked) THEN Late \cup {m} ELSE Late
      /\ m \notin Late
  <2>1. \A i : i \in DOMAIN heard' <=> i \in DOMAIN heard \/ i = m
    BY <1>2
  <2>2. heard'[m].payload = asked /\ heard'[m].phase = "closing"
    BY <1>2
  <2> QED
    BY <1>2, <2>1, <2>2 DEF Late
<1>6. /\ Cardinality(Late') = Cardinality(Late) + IF Wrong(asked) THEN 1 ELSE 0
      /\ Cardinality(Late') \in Nat
  <2>1. CASE Wrong(asked)
    <3>1. Late' = Late \cup {m} /\ m \notin Late
      BY <1>5, <2>1
    <3>2. Cardinality(Late \cup {m}) = Cardinality(Late) + 1
      BY <1>4, <3>1, FS_AddElement
    <3> QED
      BY <1>4, <2>1, <3>1, <3>2
  <2>2. CASE ~Wrong(asked)
    BY <1>4, <1>5, <2>2
  <2> QED
    BY <2>1, <2>2
<1>7. \A i \in DOMAIN heard' :
          /\ heard'[i].payload \in ClosePayloads /\ heard'[i].phase \in {"open", "closing"}
          /\ heard'[i].phase = "open" => i \in DOMAIN heard /\ heard'[i] = heard[i]
  <2>1. heard'[m].payload = asked /\ heard'[m].phase = "closing"
    BY <1>2
  <2> QED
    BY <1>1, <1>2, <2>1 DEF Histories
<1>8. Phases'
  BY DEF Phases
<1>9. CASE UNCHANGED <<wire, told>>
  <2>1. Histories'
    BY <1>1, <1>2, <1>7, <1>9 DEF Histories, IsSequence
  <2>2. Closes' = Closes
    BY <1>9 DEF Closes
  <2>3. AllGood'
    BY <1>1, <1>9, GoodLasts DEF AllGood
  <2>4. ClosesLast'
    BY <1>1, <1>9, <2>2 DEF ClosesLast
  <2>5. ClosesCounted'
    BY <1>1, <1>4, <1>6, <2>2 DEF ClosesCounted
  <2>6. OpenAnswered'
    BY <1>1, <1>7, <1>9, <2>2 DEF OpenAnswered, FirstClose
  <2> QED
    BY <1>8, <2>1, <2>3, <2>4, <2>5, <2>6 DEF IInv
<1>10. CASE /\ Wrong(asked)
            /\ Good(frame, meaning) /\ meaning.opcode = close
            /\ wire' = Append(wire, frame) /\ told' = Append(told, meaning)
  <2>1. /\ IsSequence(wire)' /\ IsSequence(told)' /\ Len(wire') = Len(told')
        /\ DOMAIN told' = DOMAIN told \cup {n}
        /\ \A i \in DOMAIN told : told'[i] = told[i] /\ wire'[i] = wire[i]
        /\ told'[n] = meaning /\ wire'[n] = frame
    BY <1>1, <1>10, FrameWritten DEF n
  <2>2. Histories'
    BY <1>2, <1>7, <2>1 DEF Histories
  <2>3. Closes' = Closes \cup {n} /\ n \notin Closes /\ Closes \subseteq DOMAIN told
    BY <1>3, <1>10, <2>1 DEF Closes
  <2>4. AllGood'
    BY <1>10, GoodWritten
  <2>5. ClosesLast'
    BY <1>1, <1>3, <2>1, <2>3 DEF ClosesLast
  <2>6. Cardinality(Closes') = Cardinality(Closes) + 1
    BY <1>4, <2>3, FS_AddElement
  <2>7. ClosesCounted'
    BY <1>1, <1>4, <1>6, <1>10, <2>6 DEF ClosesCounted
  <2>8. \A k \in Closes : wire'[k] = wire[k] /\ told'[k] = told[k] /\ (FirstClose(k) => FirstClose(k)')
    BY <1>3, <2>1, <2>3 DEF FirstClose
  <2>9. OpenAnswered'
    BY <1>1, <1>7, <2>3, <2>8 DEF OpenAnswered
  <2> QED
    BY <1>8, <2>2, <2>4, <2>5, <2>7, <2>9 DEF IInv
<1> QED
  BY <1>9, <1>10

-------------------------------------------------------------------------------
(* The steps. *)

LEMMA InitInv ==
    ASSUME SendingInit
    PROVE  IInv
<1>1. /\ wire = <<>> /\ told = <<>> /\ heard = <<>> /\ phase = "reading"
  BY DEF SendingInit, Init
<1>2. Closes = {} /\ Late = {}
  BY <1>1 DEF Closes, Late
<1>3. Histories /\ Phases
  BY <1>1, <1>2 DEF Histories, IsSequence, Phases
<1>4. AllGood /\ ClosesLast /\ OpenAnswered
  BY <1>1, <1>2 DEF AllGood, ClosesLast, OpenAnswered
<1>5. ClosesCounted
  BY <1>2, FS_EmptySet DEF ClosesCounted
<1> QED
  BY <1>3, <1>4, <1>5 DEF IInv

LEMMA SendStep ==
    ASSUME IInv, NEW size \in Sizes, NEW utf8 \in BOOLEAN, send(Data(size, utf8))
    PROVE  IInv'
<1> DEFINE data == Data(size, utf8)
           out == prepare_data_frame(text, data)
<1>1. /\ phase = "open" /\ phase' = "open" /\ heard' = heard /\ processor' = processor
      /\ IF out.error THEN UNCHANGED <<wire, told>>
         ELSE write_push(out, FALSE, Meaning(text, data, no_status))
  BY DEF send, Talks, others, http
<1>2. IsSize(data.size) /\ data.utf8 \in BOOLEAN
  BY SendingAssumption DEF Data
<1> HIDE DEF data
<1>3. CASE out.error
  BY <1>1, <1>3, SilentStep
<1>4. CASE ~out.error
  <2>1. Good(FrameIn(out, FALSE), Meaning(text, data, no_status))
    BY <1>2, <1>4, DataFrame
  <2>2. /\ wire' = Append(wire, FrameIn(out, FALSE))
        /\ told' = Append(told, Meaning(text, data, no_status))
    BY <1>1, <1>4 DEF write_push, FrameIn
  <2>3. Meaning(text, data, no_status).opcode # close
    BY DEF Meaning, text, close
  <2> QED
    BY <1>1, <2>1, <2>2, <2>3, OpenStep
<1> QED
  BY <1>3, <1>4

LEMMA PingStep ==
    ASSUME IInv, NEW size \in Sizes, NEW utf8 \in BOOLEAN, size <= payload_size_basic,
           PingReceived(Data(size, utf8))
    PROVE  IInv'
<1> DEFINE data == Data(size, utf8)
           out == prepare_pong(data)
<1>1. /\ phase = "open" /\ phase' = "open" /\ heard' = heard /\ processor' = processor
      /\ processor # 0
      /\ IF out.error THEN UNCHANGED <<wire, told>>
         ELSE write_push(out, FALSE, Meaning(pong, data, no_status))
  BY DEF PingReceived, Talks, others, http
<1>2. data.size \in Nat /\ data.size <= payload_size_basic
  BY SendingAssumption DEF Data, IsSize
<1> HIDE DEF data
<1>3. ~out.error /\ Good(FrameIn(out, FALSE), Meaning(pong, data, no_status))
  BY <1>1, <1>2, PongFrame
<1>4. /\ wire' = Append(wire, FrameIn(out, FALSE))
      /\ told' = Append(told, Meaning(pong, data, no_status))
  BY <1>1, <1>3 DEF write_push, FrameIn
<1>5. Meaning(pong, data, no_status).opcode # close
  BY DEF Meaning, pong, close
<1> QED
  BY <1>1, <1>3, <1>4, <1>5, OpenStep

\* A close frame with a code and a reason of the application's own.
LEMMA CloseStep ==
    ASSUME IInv, phase = "open", heard' = heard, processor' = processor,
           NEW code \in LocalCodes, NEW reason, reason.size \in Nat, NEW t,
           send_close_frame(code, reason, FALSE, t)
    PROVE  IInv'
<1> DEFINE out == prepare_close(code, reason)
<1>1. code \in Nat /\ code # blank
  BY DEF LocalCodes, protocol_error, internal_endpoint_error, blank
<1> DEFINE info == closing_info(code, reason, FALSE, m_remote_close_code', m_remote_close_reason')
<1>2. info.code = code /\ info.reason = reason
  BY <1>1 DEF closing_info
<1>3. IF out.error THEN UNCHANGED <<wire, told, phase>>
      ELSE /\ wire' = Append(wire, FrameIn(out, t))
           /\ told' = Append(told, Meaning(close, reason, code))
           /\ phase' = "closing"
  <2>1. IF prepare_close(info.code, info.reason).error THEN UNCHANGED <<wire, told, phase>>
        ELSE /\ wire' = Append(wire, FrameIn(prepare_close(info.code, info.reason), t))
             /\ told' = Append(told, Meaning(close, info.reason, info.code))
             /\ phase' = "closing"
    BY DEF send_close_frame, write_push, FrameIn
  <2> QED
    BY <1>2, <2>1
<1>4. CASE out.error
  BY <1>3, <1>4, SilentStep
<1>5. CASE ~out.error
  <2>1. Good(FrameIn(out, t), Meaning(close, reason, code))
    BY <1>1, <1>5, CloseFrame, CloseFrame00
  <2>3. Meaning(close, reason, code).opcode = close
    BY DEF Meaning
  <2>4. Payload(<<>>, NoData, <<>>) \in ClosePayloads
    BY DEF ClosePayloads
  <2> QED
    BY <1>3, <1>5, <2>1, <2>3, <2>4, ClosingStep
<1> QED
  BY <1>4, <1>5

LEMMA HandshakingStep ==
    ASSUME IInv, Handshaking
    PROVE  IInv'
<1>1. /\ phase \in {"reading", "responding", "open"}
      /\ phase' \in {"reading", "responding", "open", "closing", "closed"}
      /\ phase = "reading" => phase' \in {"reading", "responding"}
      /\ phase # "reading" => processor' = processor /\ phase' \notin {"reading", "responding"}
      /\ phase' = "closing" => processor = 0
  BY HandshakeStep DEF Handshaking
<1>2. heard' = heard
  BY DEF Handshaking
<1>3. CASE phase' = "closing"
  <2> DEFINE out == prepare_close(protocol_error, Data(1, TRUE))
             meaning == Meaning(close, NoData, protocol_error)
             t == terminal(protocol_error)
  <2>1. wire' = Append(wire, FrameIn(out, t)) /\ told' = Append(told, meaning)
    BY <1>3 DEF Handshaking, write_push, FrameIn
  <2>2. Good(FrameIn(out, t), meaning)
    BY <1>1, <1>3, CloseFrame00
  <2>3. meaning.opcode = close
    BY DEF Meaning
  <2>4. Payload(<<>>, NoData, <<>>) \in ClosePayloads
    BY DEF ClosePayloads
  <2> QED
    BY <1>1, <1>2, <1>3, <2>1, <2>2, <2>3, <2>4, ClosingStep
<1>4. CASE phase' # "closing"
  <2>1. UNCHANGED <<wire, told>>
    BY <1>4 DEF Handshaking
  <2> QED
    BY <1>1, <1>2, <1>4, <2>1, SilentStep
<1> QED
  BY <1>3, <1>4

\* A legal code with a reason that fits is not refused.
LEMMA Acknowledged ==
    ASSUME processor # 0, NEW code \in Nat, NEW reason, reason.size \in Nat,
           ~invalid(code), ~reserved(code), reason.size <= payload_size_basic - 2
    PROVE  LET frame == FrameIn(prepare_close(code, reason), TRUE)
           IN /\ ~prepare_close(code, reason).error
              /\ Good(frame, Meaning(close, reason, code))
              /\ frame.payload = Payload(CodeBytes(code), reason, <<>>)
<1> DEFINE payload == Payload(CodeBytes(code), reason, <<>>)
<1>1. SizeOf(payload) = 2 + reason.size
  BY DEF SizeOf, Payload, CodeBytes
<1>2. code # no_status
  BY DEF invalid
<1> HIDE DEF payload
<1>3. prepare_close(code, reason) = prepare_control(close, payload)
  BY <1>2 DEF prepare_close, payload, payload_size_basic
<1>4. prepare_control(close, payload) = FrameOf(close, payload)
  BY <1>1 DEF prepare_control, is_control, close, payload_size_basic
<1>5. ~prepare_close(code, reason).error
  BY <1>3, <1>4 DEF FrameOf, Prepared
<1> QED
  BY <1>2, <1>5, CloseFrame DEF FrameIn, HeadOf

LEMMA CloseReceivedStep ==
    ASSUME IInv, NEW payload \in ClosePayloads, CloseReceived(payload)
    PROVE  IInv'
<1> DEFINE code == extract_code(payload)
           reason == extract_reason(payload)
<1>1. /\ phase \in {"open", "closing"} /\ processor # 0 /\ processor' = processor
      /\ heard' = Append(heard, [payload |-> payload, phase |-> phase])
      /\ m_remote_close_code' = code.code
      /\ m_remote_close_reason' = IF code.error THEN m_remote_close_reason ELSE reason.reason
  BY DEF CloseReceived, Talks, others, http
<1>2. /\ SizeOf(payload) \in Nat /\ payload.data.size \in Nat
      /\ code.error \in BOOLEAN /\ payload.data.utf8 \in BOOLEAN
      /\ Legal(payload) <=> ~code.error
      /\ SizeOf(payload) = 0 => code.code = no_status /\ payload.data = NoData
      /\ ~code.error /\ SizeOf(payload) # 0 =>
            /\ code.code \in Nat /\ code.code # no_status
            /\ ~invalid(code.code) /\ ~reserved(code.code)
            /\ payload.data.size <= payload_size_basic - 2
            /\ payload = Payload(CodeBytes(code.code), payload.data, <<>>)
  BY PeerClose
<1>3. reason.reason = payload.data /\ reason.error = ~payload.data.utf8
  BY DEF extract_reason
<1>4. Wrong(payload) <=> code.error \/ reason.error
  BY <1>2, <1>3 DEF Wrong
<1>5. \/ /\ Wrong(payload)
         /\ send_close_ack(protocol_error, Data(IF code.error THEN 18 ELSE 20, TRUE))
      \/ ~Wrong(payload) /\ phase = "open" /\ send_close_ack(blank, NoData)
      \/ /\ phase = "closing" /\ phase' \in {"closing", "closed"}
         /\ UNCHANGED <<wire, told>>
  BY <1>2, <1>3, <1>4 DEF CloseReceived
<1> HIDE DEF code, reason
<1>6. CASE /\ Wrong(payload)
           /\ send_close_ack(protocol_error, Data(IF code.error THEN 18 ELSE 20, TRUE))
  <2> DEFINE r == Data(IF code.error THEN 18 ELSE 20, TRUE)
             frame == FrameIn(prepare_close(protocol_error, r), TRUE)
             meaning == Meaning(close, r, protocol_error)
             info == closing_info(protocol_error, r, TRUE, m_remote_close_code', m_remote_close_reason')
  <2>1. r.size \in Nat /\ r.size <= payload_size_basic - 2
    BY DEF Data, payload_size_basic
  <2> HIDE DEF r
  <2>2. protocol_error \in Nat /\ ~invalid(protocol_error) /\ ~reserved(protocol_error)
    BY DEF protocol_error, invalid, reserved, no_status
  <2>3. info.code = protocol_error /\ info.reason = r
    BY DEF closing_info, protocol_error, blank
  <2>8. IF prepare_close(info.code, info.reason).error THEN UNCHANGED <<wire, told, phase>>
        ELSE /\ wire' = Append(wire, FrameIn(prepare_close(info.code, info.reason), TRUE))
             /\ told' = Append(told, Meaning(close, info.reason, info.code))
             /\ phase' = "closing"
    BY <1>6 DEF send_close_ack, send_close_frame, write_push, FrameIn, r
  <2> HIDE DEF info
  <2>4. /\ Good(frame, meaning)
        /\ wire' = Append(wire, frame) /\ told' = Append(told, meaning) /\ phase' = "closing"
    BY <1>1, <2>1, <2>2, <2>3, <2>8, Acknowledged
  <2>5. meaning.opcode = close /\ meaning.code = protocol_error
    BY DEF Meaning
  <2> HIDE DEF frame, meaning
  <2>6. CASE phase = "open"
    <3>1. Answers(frame, meaning, payload)
      BY <1>6, <2>5 DEF Answers
    <3> QED
      BY <1>1, <2>4, <2>5, <2>6, <3>1, ClosingStep
  <2>7. CASE phase = "closing"
    BY <1>1, <1>6, <2>4, <2>5, <2>7, LateStep
  <2> QED
    BY <1>1, <2>6, <2>7
<1>7. CASE ~Wrong(payload) /\ phase = "open" /\ send_close_ack(blank, NoData)
  <2> DEFINE c == IF SizeOf(payload) = 0 THEN normal ELSE code.code
             r == payload.data
             frame == FrameIn(prepare_close(c, r), TRUE)
             meaning == Meaning(close, r, c)
             info == closing_info(blank, NoData, TRUE, m_remote_close_code', m_remote_close_reason')
  <2>1. ~code.error /\ m_remote_close_code' = code.code /\ m_remote_close_reason' = payload.data
    BY <1>1, <1>2, <1>3, <1>4, <1>7
  <2>2. NoData.size = 0
    BY DEF NoData, Data
  <2>3. c \in Nat /\ ~invalid(c) /\ ~reserved(c)
    BY <1>2, <2>1 DEF normal, invalid, reserved, no_status
  <2>4. r.size \in Nat /\ r.size <= payload_size_basic - 2 /\ (SizeOf(payload) = 0 => r.size = 0)
    BY <1>2, <2>1, <2>2 DEF payload_size_basic
  <2>5. info.code = c /\ info.reason = r
    BY <1>2, <2>1 DEF closing_info, blank
  <2> HIDE DEF c, r
  <2>9. IF prepare_close(info.code, info.reason).error THEN UNCHANGED <<wire, told, phase>>
        ELSE /\ wire' = Append(wire, FrameIn(prepare_close(info.code, info.reason), TRUE))
             /\ told' = Append(told, Meaning(close, info.reason, info.code))
             /\ phase' = "closing"
    BY <1>7 DEF send_close_ack, send_close_frame, write_push, FrameIn
  <2> HIDE DEF info
  <2>6. /\ Good(frame, meaning) /\ frame.payload = Payload(CodeBytes(c), r, <<>>)
        /\ wire' = Append(wire, frame) /\ told' = Append(told, meaning) /\ phase' = "closing"
    BY <1>1, <2>3, <2>4, <2>5, <2>9, Acknowledged
  <2>7. meaning.opcode = close /\ meaning.code = c /\ meaning.data = r
    BY DEF Meaning
  <2> HIDE DEF frame, meaning
  <2>8. Answers(frame, meaning, payload)
    BY <1>2, <1>7, <2>1, <2>4, <2>6, <2>7 DEF Answers, c, r
  <2> QED
    BY <1>1, <1>7, <2>6, <2>7, <2>8, ClosingStep
<1>8. CASE phase = "closing" /\ phase' \in {"closing", "closed"} /\ UNCHANGED <<wire, told>>
  BY <1>1, <1>8, LateStep
<1> QED
  BY <1>5, <1>6, <1>7, <1>8

LEMMA NextInv ==
    ASSUME IInv, [SendingNext]_allvars
    PROVE  IInv'
<1>1. CASE Handshaking
  BY <1>1, HandshakingStep
<1>2. ASSUME NEW size \in Sizes, NEW utf8 \in BOOLEAN, send(Data(size, utf8))
      PROVE  IInv'
  BY <1>2, SendStep
<1>3. ASSUME NEW size \in Sizes, NEW utf8 \in BOOLEAN, NEW code \in LocalCodes,
             Close(code, Data(size, utf8))
      PROVE  IInv'
  <2> DEFINE reason == Data(size, utf8)
  <2>1. phase = "open" /\ heard' = heard /\ processor' = processor
    BY <1>3 DEF Close, Talks, others, http
  <2>2. reason.size \in Nat
    BY SendingAssumption DEF Data, IsSize
  <2>3. \A u : Data(close_reason_size, u).size \in Nat
    BY DEF Data, close_reason_size
  <2>4. \/ send_close_frame(code, reason, FALSE, terminal(code))
        \/ \E u \in BOOLEAN : send_close_frame(code, Data(close_reason_size, u), FALSE, terminal(code))
    BY <1>3 DEF Close
  <2> HIDE DEF reason
  <2>5. CASE send_close_frame(code, reason, FALSE, terminal(code))
    BY <2>1, <2>2, <2>5, CloseStep
  <2>6. ASSUME NEW u \in BOOLEAN,
               send_close_frame(code, Data(close_reason_size, u), FALSE, terminal(code))
        PROVE  IInv'
    BY <2>1, <2>3, <2>6, CloseStep
  <2> QED
    BY <2>4, <2>5, <2>6
<1>4. ASSUME NEW size \in Sizes, NEW utf8 \in BOOLEAN, size <= payload_size_basic,
             PingReceived(Data(size, utf8))
      PROVE  IInv'
  BY <1>4, PingStep
<1>5. ASSUME NEW payload \in ClosePayloads, CloseReceived(payload)
      PROVE  IInv'
  BY <1>5, CloseReceivedStep
<1>6. CASE UNCHANGED allvars
  <2>1. UNCHANGED <<wire, told, heard, phase, processor>>
    BY <1>6 DEF allvars, vars, sending, http
  <2> QED
    BY <2>1, SilentStep DEF IInv, Phases
<1> QED
  BY <1>1, <1>2, <1>3, <1>4, <1>5, <1>6 DEF SendingNext

LEMMA InvariantHolds == SendingSpec => []IInv
<1> QED
  BY InitInv, NextInv, PTL DEF SendingSpec

\* Whatever the peer and the application do, a peer that reads the wire finds each frame of
\* send_close_frame, send and process_control_frame with what it was meant to say, however
\* large the message and whatever the code.
THEOREM WireIsRead == SendingSpec => []WireReadsBack
<1>1. ASSUME IInv
      PROVE  WireReadsBack
  <2>1. /\ Len(wire) = Len(told) /\ DOMAIN wire = DOMAIN told
        /\ \A i \in DOMAIN told : Good(wire[i], told[i])
    BY <1>1 DEF IInv, Histories, IsSequence, AllGood
  <2> QED
    BY <2>1 DEF WireReadsBack, Good
<1> QED
  BY <1>1, InvariantHolds, PTL

\* process_control_frame and close between them: one close frame, the last, which answers what
\* the peer's close says.
THEOREM ClosesAnswered == SendingSpec => []CloseAnswered
<1>1. ASSUME IInv
      PROVE  CloseAnswered
  <2> DEFINE wrong == {i \in DOMAIN heard : ~Legal(heard[i].payload) \/ ~heard[i].payload.data.utf8}
             late == {i \in wrong : heard[i].phase = "closing"}
  <2>1. /\ DOMAIN wire = DOMAIN told /\ DOMAIN told = 1..Len(told) /\ Len(told) \in Nat
        /\ \A i \in DOMAIN told : Good(wire[i], told[i])
        /\ phase = "open" => heard = <<>> /\ Closes = {}
        /\ ClosesLast /\ ClosesCounted /\ OpenAnswered
    BY <1>1 DEF IInv, Histories, IsSequence, Phases, AllGood
  <2>2. late = Late
    BY DEF Late, Wrong
  <2>3. \A i \in DOMAIN heard : i \in wrong <=> Wrong(heard[i].payload)
    BY DEF Wrong
  <2>4. processor # 0 => \A i \in Closes : Legal(wire[i].payload)
    BY <2>1 DEF Closes, Good
  <2>5. \A i \in Closes : \A j \in DOMAIN wire : j > i => j \in Closes
    BY <2>1 DEF ClosesLast
  <2>6. Cardinality(Closes) <= 1 + Cardinality(late)
    BY <2>1, <2>2 DEF ClosesCounted
  <2> HIDE DEF wrong
  <2>7. ASSUME NEW i \in DOMAIN heard, heard[i].phase = "open"
        PROVE  LET answer == told[Min(Closes)]
                   asked == heard[i].payload
               IN /\ Closes # {}
                  /\ i \in wrong => answer.code = protocol_error
                  /\ i \notin wrong /\ SizeOf(asked) = 0 => answer.code = normal /\ answer.data.size = 0
                  /\ i \notin wrong /\ SizeOf(asked) # 0 => wire[Min(Closes)].payload = asked
    <3>1. PICK k \in Closes : FirstClose(k) /\ Answers(wire[k], told[k], heard[i].payload)
      BY <2>1, <2>7 DEF OpenAnswered
    <3>2. Min(Closes) = k
      <4>1. k \in Int /\ \A j \in Closes : j \in Int /\ k <= j
        BY <2>1, <3>1 DEF Closes, FirstClose
      <4>2. Min(Closes) \in Closes /\ \A j \in Closes : Min(Closes) <= j
        BY <3>1, <4>1 DEF Min
      <4>3. Min(Closes) \in Int /\ k <= Min(Closes) /\ Min(Closes) <= k
        BY <4>1, <4>2
      <4> QED
        BY <4>1, <4>3
    <3> QED
      BY <2>3, <2>7, <3>1, <3>2 DEF Answers
  <2> QED
    BY <2>1, <2>4, <2>5, <2>6, <2>7 DEF CloseAnswered, Closes, wrong
<1> QED
  BY <1>1, InvariantHolds, PTL

===============================================================================
