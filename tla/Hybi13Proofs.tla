---------------------------- MODULE Hybi13Proofs ----------------------------
(***************************************************************************)
(* Proofs about Hybi13, for every limit, width and number of frames and    *)
(* bytes.  The inductive invariant says what m_data_msg and m_control_msg  *)
(* hold while the connection reads: the messages that the frames so far    *)
(* mean (Holds), the key at the position of the frame under way (Keyed)    *)
(* and the state the validator must be in (Validated).                     *)
(***************************************************************************)
EXTENDS Hybi13, SequenceTheorems, TLAPS

HeaderType == [fin : BOOLEAN, op : Opcode, rsv : BOOLEAN, masked : BOOLEAN,
               code : LengthCode, size : Nat]

TypeOK ==
    /\ mstate \in {"HEADER_BASIC", "HEADER_EXTENDED", "APPLICATION", "READY"}
    /\ needed \in Nat
    /\ header \in HeaderType
    /\ data \in Held \cup {NoMsg}
    /\ control \in Held \cup {NoMsg}
    /\ current \in {"data", "control"}
    /\ ec \in {"none", "protocol_error", "internal_endpoint_error", "message_too_big",
               "invalid_payload"}
    /\ delivered \in Seq([op : Opcode, payload : Seq(Unmasked)])
    /\ sent \in Seq(Byte)
    /\ whole \in Seq(Meant)
    /\ part \in Meant \cup {NoMsg}
    /\ nframes \in Nat
    /\ nbytes \in Nat

\* The validator of a text has seen a valid prefix; of other messages it has seen nothing.
Validated(m) ==
    IF m.op = "TEXT"
    THEN ValidPrefix(m.payload) /\ m.utf = IF Complete(m.payload) THEN "accept" ELSE "more"
    ELSE m.utf = "accept"

\* The message m of the code is the message p of the peer.
Holds(m, p) ==
    /\ m \in Held
    /\ m.op = p.op /\ m.payload = p.payload
    /\ Validated(m)

Keyed(m) == m.key = Key(Len(sent))

\* Outside the frames of a data message m_data_msg is what has come of it.
Between ==
    IF part = NoMsg THEN data = NoMsg ELSE Holds(data, part)

EndsWhole(p) == p.op = "TEXT" => Complete(p.payload) \/ p.fragments > 1

InHeader ==
    mstate \in {"HEADER_BASIC", "HEADER_EXTENDED"} =>
        sent = <<>> /\ header.size = 0 /\ Between

InExtended ==
    mstate = "HEADER_EXTENDED" => BasicHeaderOk(header, data = NoMsg)

InPayload ==
    mstate = "APPLICATION" =>
        IF IsControl(header.op)
        THEN current = "control" /\ Holds(control, WithFrame(NoMsg)) /\ Keyed(control) /\ Between
        ELSE current = "data" /\ Holds(data, WithFrame(part)) /\ Keyed(data)

InReady ==
    mstate = "READY" =>
        /\ sent = <<>> /\ whole # <<>>
        /\ Holds(Current, whole[Len(whole)]) /\ EndsWhole(whole[Len(whole)])
        /\ IF current = "control" THEN Between ELSE part = NoMsg

Reading == ec = "none" => InHeader /\ InExtended /\ InPayload /\ InReady

Inv == TypeOK /\ Reading /\ Reassembled /\ RefusedRightly /\ TextsValid

-----------------------------------------------------------------------------
(* Lemmas. *)

\* The payload grows by the byte that was sent.
LEMMA SentByte ==
    ASSUME NEW s \in Seq(Byte), NEW t \in Seq(Byte), NEW b \in Byte
    PROVE  Append(s \o t, b) = s \o Append(t, b)
<1>1. s \o t \in Seq(Byte)
    BY ConcatProperties
<1>2. <<b>> \in Seq(Byte)
    OBVIOUS
<1>3. Append(t, b) = t \o <<b>> /\ Append(s \o t, b) = (s \o t) \o <<b>>
    BY <1>1, AppendIsConcat
<1> QED BY <1>2, <1>3, ConcatAssociative

\* The validator rejects a byte exactly when the text with it is no prefix of a valid one.
LEMMA NextByte ==
    ASSUME NEW text \in Seq(Byte), NEW b \in Byte, NEW utf,
           ValidPrefix(text), utf = IF Complete(text) THEN "accept" ELSE "more"
    PROVE  IF DecodeUtf(utf, b) = "reject" THEN ~ValidPrefix(Append(text, b))
           ELSE /\ ValidPrefix(Append(text, b))
                /\ DecodeUtf(utf, b) = IF Complete(Append(text, b)) THEN "accept" ELSE "more"
<1> DEFINE T == Append(text, b)
           n == Len(text)
<1>1. /\ n \in Nat /\ Len(T) = n + 1 /\ T[n + 1] = b /\ T # <<>>
      /\ \A i \in 1..n : T[i] = text[i]
      /\ n = 0 <=> text = <<>>
    OBVIOUS
<1>2. Complete(T) <=> b # "lead"
    BY <1>1 DEF Complete
<1>3. Complete(text) <=> ~(n > 0 /\ T[n] = "lead")
    BY <1>1 DEF Complete
<1>4. ValidPrefix(T) <=> (b = "cont" <=> n > 0 /\ T[n] = "lead")
    <2>1. \A i \in 1..n : T[i] = "cont" <=> i > 1 /\ T[i - 1] = "lead"
        BY <1>1 DEF ValidPrefix
    <2> HIDE DEF T
    <2> QED BY <2>1, <1>1 DEF ValidPrefix
<1> QED BY <1>2, <1>3, <1>4 DEF DecodeUtf, Byte

\* The size judged modulo the width.
LEMMA Modulo ==
    ASSUME NEW a \in Nat, a < Width
    PROVE  a % Width = a
BY LimitsAssumption, SMTT(30)

LEMMA ModuloLess ==
    ASSUME NEW a \in Nat
    PROVE  a % Width \in Nat /\ a % Width <= a
BY LimitsAssumption, Modulo, SMTT(30)

-----------------------------------------------------------------------------
(* The headers. *)

LEMMA InitInv == Init => Inv
<1> SUFFICES ASSUME Init PROVE Inv
    OBVIOUS
<1>1. TypeOK
    BY LimitsAssumption DEF Init, TypeOK, HeaderType, ZeroHeader, Opcode, LengthCode
<1>2. Reading
    BY DEF Init, Reading, InHeader, InExtended, InPayload, InReady, Between, ZeroHeader
<1>3. Reassembled /\ RefusedRightly /\ TextsValid
    BY DEF Init, Reassembled, RefusedRightly, TextsValid
<1> QED BY <1>1, <1>2, <1>3 DEF Inv

\* Before the message is READY nothing more is handed on.
LEMMA NothingDelivered ==
    ASSUME Inv, UNCHANGED <<delivered, whole>>, mstate # "READY", mstate' # "READY"
    PROVE  Reassembled' /\ TextsValid'
BY DEF Inv, Reassembled, TextsValid

LEMMA FirstByteInv ==
    ASSUME Inv, ec = "none", NEW fin \in BOOLEAN, NEW rsv \in BOOLEAN, NEW op \in Opcode,
           FirstByte(fin, op, rsv)
    PROVE  Inv'
<1> USE DEF Inv, FirstByte, messages, history, peer
<1>1. TypeOK'
    BY DEF TypeOK, HeaderType
<1>2. header'.size = header.size
    BY DEF TypeOK, HeaderType
<1>3. Reading'
    BY <1>2 DEF Reading, InHeader, InExtended, InPayload, InReady, Between, Holds, Validated
<1>4. RefusedRightly'
    BY DEF RefusedRightly
<1> QED BY <1>1, <1>3, <1>4, NothingDelivered

LEMMA SecondByteInv ==
    ASSUME Inv, ec = "none", NEW masked \in BOOLEAN, NEW code \in LengthCode,
           SecondByte(masked, code)
    PROVE  Inv'
<1> USE DEF Inv, SecondByte, messages, history, peer
<1>1. TypeOK'
    <2>1. header' \in HeaderType
        BY DEF TypeOK, HeaderType
    <2>2. needed' \in Nat
        BY DEF LengthCode
    <2> QED BY <2>1, <2>2 DEF TypeOK
<1>2. header'.size = 0 /\ sent' = <<>> /\ Between /\ Between'
    BY DEF TypeOK, HeaderType, Reading, InHeader, Between, Holds, Validated
<1>3. mstate' \in {"HEADER_BASIC", "HEADER_EXTENDED"}
    OBVIOUS
<1>4. Reading'
    BY <1>2, <1>3 DEF Reading, InHeader, InExtended, InPayload, InReady
<1>5. (data = NoMsg) <=> (part = NoMsg)
    BY <1>2, NoMsgAssumption DEF Between, Holds
<1>6. RefusedRightly'
    <2>1. BasicHeaderOk(header', data = NoMsg) <=> InOrder(header', part # NoMsg)
        BY <1>2, <1>5, LimitsAssumption DEF BasicHeaderOk, InOrder, IsControl
    <2> QED BY <2>1, <1>1, <1>3 DEF RefusedRightly, TypeOK
<1> QED BY <1>1, <1>3, <1>4, <1>6, NothingDelivered

LEMMA NewMessage ==
    ASSUME TypeOK, NEW op \in Opcode, NEW p, p.op = op, p.payload = <<>>
    PROVE  Holds(Metadata(op), p)
<1>1. Metadata(op) \in Held
    <2>2. <<>> \in Seq(Unmasked)
        OBVIOUS
    <2>3. Key(0) \in Nat \X Nat
        BY DEF Key, TypeOK
    <2> QED BY <2>2, <2>3 DEF Metadata, Held
<1>2. ValidPrefix(<<>>) /\ Complete(<<>>)
    BY DEF ValidPrefix, Complete
<1> QED BY <1>1, <1>2 DEF Holds, Metadata, Validated

LEMMA ExtendedHeaderInv ==
    ASSUME Inv, ec = "none", NEW size \in SizesOf(header.code), ExtendedHeader(size)
    PROVE  Inv'
<1> USE DEF Inv, ExtendedHeader, NonMinimal, messages, history, peer
<1>1. size \in Nat /\ (header.code = "7bit" => size <= Basic) /\ header.code \in LengthCode
    BY LimitsAssumption DEF SizesOf, TypeOK, HeaderType, LengthCode
<1>2. /\ header' \in HeaderType /\ header'.size = size
      /\ header'.op = header.op /\ header.op \in Opcode
      /\ header'.fin = header.fin /\ header'.rsv = header.rsv
      /\ header'.masked = header.masked /\ header'.code = header.code
    BY <1>1 DEF TypeOK, HeaderType
<1>3. sent = <<>> /\ Between /\ BasicHeaderOk(header, data = NoMsg)
    BY DEF Reading, InHeader, InExtended
<1>4. (data = NoMsg) <=> (part = NoMsg)
    BY <1>3, NoMsgAssumption DEF Between, Holds
<1>5. InOrder(header', part # NoMsg)
    BY <1>1, <1>2, <1>3, <1>4 DEF BasicHeaderOk, InOrder, IsControl, Opcode
<1>5a. mstate' = "APPLICATION" <=> Shortest(header')
    <2>1. mstate' = "APPLICATION" <=> ~NonMinimal(header.code, size)
        BY DEF StartControl, StartData, ContinueData
    <2>2. Shortest(header') <=> ~NonMinimal(header.code, size)
        BY <1>1, <1>2, LimitsAssumption DEF Shortest, LengthCode
    <2> QED BY <2>1, <2>2
<1>6. Between' \/ data' # data
    BY <1>3 DEF Between, Holds, Validated
<1>7. CASE Refuse("internal_endpoint_error") /\ UNCHANGED mstate
    <2>1. TypeOK' /\ Reading'
        BY <1>1, <1>2, <1>7 DEF TypeOK, Reading, Refuse
    <2>2. RefusedRightly'
        BY <1>5, <1>5a, <1>7 DEF RefusedRightly, Refuse, InOrder, IsControl
    <2> QED BY <2>1, <2>2, <1>7, NothingDelivered
<1>8. CASE IsControl(header.op) /\ StartControl
    <2>1. Holds(control', WithFrame(NoMsg)') /\ Keyed(control)'
        <3>1. Holds(Metadata(header.op), WithFrame(NoMsg)')
            BY <1>2, <1>3, NewMessage DEF WithFrame
        <3> QED BY <3>1, <1>3, <1>8 DEF StartControl, Holds, Validated, Keyed, Metadata, Key
    <2>2. TypeOK'
        BY <2>1, <1>1, <1>2, <1>8 DEF TypeOK, StartControl, Holds
    <2>3. Reading'
        BY <2>1, <1>2, <1>6, <1>8
           DEF Reading, InHeader, InExtended, InPayload, InReady, StartControl, IsControl
    <2>4. RefusedRightly'
        BY <1>2, <1>5, <1>5a, <1>8 DEF RefusedRightly, StartControl, IsControl, InOrder
    <2> QED BY <2>2, <2>3, <2>4, <1>8, NothingDelivered DEF StartControl
<1>9. CASE ~IsControl(header.op) /\ TooBig(size) /\ Refuse("message_too_big")
           /\ mstate' = "APPLICATION"
    <2>1. TypeOK' /\ Reading'
        BY <1>1, <1>2, <1>9 DEF TypeOK, Reading, Refuse
    <2>2. Sum' > MaxMessage
        <3>1. CASE data = NoMsg
            BY <3>1, <1>1, <1>2, <1>4, <1>9, LimitsAssumption DEF TooBig, Sum
        <3>2. CASE data # NoMsg
            <4>1. Len(part.payload) \in Nat /\ Len(data.payload) = Len(part.payload)
                BY <3>2, <1>3, <1>4 DEF Between, Holds, TypeOK, Meant
            <4>2. Sum' = Len(data.payload) + size
                BY <3>2, <4>1, <1>2, <1>4 DEF Sum
            <4>3. (Len(data.payload) + size) % Width > MaxMessage
                BY <3>2, <1>9 DEF TooBig
            <4> DEFINE a == Len(data.payload) + size
            <4>4. a \in Nat
                BY <4>1, <1>1
            <4>5. a % Width \in Nat /\ a % Width <= a
                BY <4>4, ModuloLess
            <4> HIDE DEF a
            <4> QED BY <4>2, <4>3, <4>4, <4>5, LimitsAssumption DEF a
        <3> QED BY <3>1, <3>2
    <2>3. RefusedRightly'
        BY <2>2, <1>5, <1>5a, <1>9 DEF RefusedRightly, Refuse
    <2> QED BY <2>1, <2>3, <1>9, NothingDelivered
<1>10. CASE ~IsControl(header.op) /\ ~TooBig(size)
            /\ ((data = NoMsg /\ StartData) \/ (data # NoMsg /\ ContinueData))
    <2>1. mstate' = "APPLICATION" /\ ec' = "none" /\ current' = "data" /\ control' = control
        BY <1>10 DEF StartData, ContinueData
    <2>2. Holds(data', WithFrame(part)') /\ Keyed(data)'
        <3>1. CASE data = NoMsg /\ StartData
            <4>1. Holds(Metadata(header.op), WithFrame(part)')
                BY <3>1, <1>2, <1>3, <1>4, NewMessage DEF WithFrame
            <4> QED BY <4>1, <3>1, <1>3 DEF StartData, Holds, Validated, Keyed, Metadata, Key
        <3>2. CASE data # NoMsg /\ ContinueData
            <4>1. Holds(data, part) /\ part \in Meant
                BY <3>2, <1>3, <1>4 DEF Between, TypeOK
            <4>2. WithFrame(part)'.op = part.op /\ WithFrame(part)'.payload = part.payload
                <5>1. part.payload \o <<>> = part.payload
                    BY <4>1, ConcatEmptySeq DEF Meant
                <5> QED BY <5>1, <3>2, <1>3, <1>4 DEF WithFrame
            <4>3. Key(0) \in Nat \X Nat
                BY DEF Key, TypeOK
            <4>4. /\ data' \in Held /\ data'.op = data.op /\ data'.payload = data.payload
                  /\ data'.utf = data.utf /\ data'.key = Key(0)
                BY <4>1, <4>3, <3>2 DEF Holds, Held, ContinueData
            <4>5. Key(0)' = Key(0) /\ sent' = <<>>
                BY <1>3 DEF Key
            <4>6. Keyed(data)'
                BY <4>4, <4>5 DEF Keyed, Key
            <4> QED BY <4>1, <4>2, <4>4, <4>6 DEF Holds, Validated
        <3> QED BY <3>1, <3>2, <1>10
    <2>3. TypeOK'
        BY <2>1, <2>2, <1>1, <1>2 DEF TypeOK, Holds
    <2>4. Reading'
        BY <2>1, <2>2, <1>2, <1>10 DEF Reading, InHeader, InExtended, InPayload, InReady, IsControl
    <2>5. Sum' <= MaxMessage \/ (part # NoMsg /\ Sum' >= Width)
        <3>1. CASE data = NoMsg
            BY <3>1, <1>1, <1>2, <1>4, <1>10, LimitsAssumption DEF TooBig, Sum
        <3>2. CASE data # NoMsg
            <4>1. Len(part.payload) \in Nat /\ Len(data.payload) = Len(part.payload)
                BY <3>2, <1>3, <1>4 DEF Between, Holds, TypeOK, Meant
            <4>2. Sum' = Len(data.payload) + size
                BY <3>2, <4>1, <1>2, <1>4 DEF Sum
            <4>3. ~((Len(data.payload) + size) % Width > MaxMessage)
                BY <3>2, <1>10 DEF TooBig
            <4> DEFINE a == Len(data.payload) + size
            <4>4. a \in Nat
                BY <4>1, <1>1
            <4>5. a < Width => a % Width = a
                BY <4>4, Modulo
            <4> HIDE DEF a
            <4> QED BY <4>2, <4>3, <4>4, <4>5, <3>2, <1>4, LimitsAssumption DEF a
        <3> QED BY <3>1, <3>2
    <2>6. ValidPrefix(TextSoFar)'
        BY <2>2 DEF TextSoFar, Holds, Validated, ValidPrefix
    <2>7. RefusedRightly'
        BY <2>1, <2>5, <2>6, <1>5, <1>5a DEF RefusedRightly
    <2> QED BY <2>1, <2>3, <2>4, <2>7, NothingDelivered
<1>11. \/ Refuse("internal_endpoint_error") /\ UNCHANGED mstate
       \/ IsControl(header.op) /\ StartControl
       \/ ~IsControl(header.op) /\ TooBig(size) /\ Refuse("message_too_big")
          /\ mstate' = "APPLICATION"
       \/ ~IsControl(header.op) /\ ~TooBig(size)
          /\ ((data = NoMsg /\ StartData) \/ (data # NoMsg /\ ContinueData))
    BY Zenon
<1> QED BY <1>7, <1>8, <1>9, <1>10, <1>11, Zenon

-----------------------------------------------------------------------------
(* The payload. *)

\* A byte is unmasked with the right key, appended and validated.
LEMMA ProcessByte ==
    ASSUME TypeOK, NEW b \in Byte, NEW m \in Held, NEW text \in Seq(Byte),
           m.payload = text, Validated(m), Keyed(m)
    PROVE  /\ Process(m, b) \in Held
           /\ Process(m, b).op = m.op
           /\ Process(m, b).payload = Append(text, b)
           /\ Process(m, b).key = Key(Len(sent) + 1)
           /\ IF Process(m, b).utf = "reject"
              THEN m.op = "TEXT" /\ ~ValidPrefix(Append(text, b))
              ELSE Validated(Process(m, b))
<1> DEFINE n == Process(m, b)
<1>1. Unmask(b, m.key) = b
    BY DEF Unmask, Keyed
<1>2. /\ n.op = m.op
      /\ n.payload = Append(text, b)
      /\ n.utf = IF m.op = "TEXT" THEN DecodeUtf(m.utf, b) ELSE m.utf
      /\ n.key = <<m.key[1], (m.key[2] + 1) % 4>>
    BY <1>1 DEF Process
<1>3. n.key = Key(Len(sent) + 1) /\ n.key \in Nat \X Nat
    <2>1. Len(sent) \in Nat /\ nframes \in Nat
        BY DEF TypeOK
    <2> DEFINE l == Len(sent)
    <2> HIDE DEF l
    <2>2. ((l % 4) + 1) % 4 = (l + 1) % 4 /\ (l + 1) % 4 \in Nat
        BY <2>1 DEF l
    <2>3. m.key = <<nframes, l % 4>>
        BY DEF Keyed, Key, l
    <2> QED BY <1>2, <2>1, <2>2, <2>3 DEF Key, l
<1>4. n \in Held
    <2>1. Append(text, b) \in Seq(Unmasked)
        <3>1. Append(m.payload, b) \in Seq(Unmasked)
            BY AppendProperties DEF Held, Unmasked
        <3> QED BY <3>1
    <2>2. n.utf \in {"accept", "more", "reject"} /\ n.op \in Opcode
        BY <1>2 DEF DecodeUtf, Held
    <2>3. n = [op |-> n.op, payload |-> n.payload, utf |-> n.utf, key |-> n.key]
        BY DEF Process
    <2> HIDE DEF n
    <2> QED BY <1>2, <1>3, <2>1, <2>2, <2>3 DEF Held
<1>5. IF n.utf = "reject" THEN m.op = "TEXT" /\ ~ValidPrefix(Append(text, b))
      ELSE Validated(n)
    <2>1. CASE m.op = "TEXT"
        <3>1. ValidPrefix(text) /\ m.utf = IF Complete(text) THEN "accept" ELSE "more"
            BY <2>1 DEF Validated
        <3> HIDE DEF n
        <3> QED BY <2>1, <3>1, <1>2, NextByte DEF Validated
    <2>2. CASE m.op # "TEXT"
        <3> HIDE DEF n
        <3> QED BY <2>2, <1>2 DEF Validated
    <2> QED BY <2>1, <2>2
<1> QED BY <1>2, <1>3, <1>4, <1>5

\* The peer's side of the same byte.
LEMMA WithByte ==
    ASSUME TypeOK, NEW b \in Byte, sent' = Append(sent, b), NEW p \in Meant \cup {NoMsg}
    PROVE  /\ WithFrame(p).payload \in Seq(Byte)
           /\ p # NoMsg => p.payload \o sent' = Append(p.payload \o sent, b)
<1>1. CASE p = NoMsg
    BY <1>1 DEF WithFrame, TypeOK
<1>2. CASE p # NoMsg
    <2>1. p.payload \in Seq(Byte) /\ sent \in Seq(Byte)
        BY <1>2 DEF Meant, TypeOK
    <2>2. p.payload \o sent \in Seq(Byte)
        BY <2>1, ConcatProperties
    <2>3. p.payload \o Append(sent, b) = Append(p.payload \o sent, b)
        BY <2>1, SentByte
    <2>4. WithFrame(p).payload = p.payload \o sent
        BY <1>2 DEF WithFrame
    <2> QED BY <2>2, <2>3, <2>4
<1> QED BY <1>1, <1>2

LEMMA PayloadInv ==
    ASSUME Inv, ec = "none", NEW b \in Byte, Payload(b)
    PROVE  Inv'
<1> USE DEF Inv, Payload
<1>1. /\ mstate' = "APPLICATION" /\ mstate = "APPLICATION"
      /\ sent' = Append(sent, b) /\ header' = header /\ current' = current
      /\ delivered' = delivered /\ whole' = whole /\ part' = part /\ nframes' = nframes
    OBVIOUS
<1>2. /\ sent \in Seq(Byte) /\ sent' \in Seq(Byte) /\ Len(sent') = Len(sent) + 1
      /\ header \in HeaderType /\ header.op \in Opcode
      /\ nbytes' \in Nat /\ needed' \in Nat
      /\ ec' \in {"none", "invalid_payload"}
    BY <1>1, AppendProperties DEF TypeOK, HeaderType
<1>3. Key(Len(sent) + 1) = Key(Len(sent))'
    BY <1>1, <1>2 DEF Key
<1>4. CASE IsControl(header.op)
    <2>1. /\ current = "control" /\ Holds(control, WithFrame(NoMsg)) /\ Keyed(control)
          /\ Between
        BY <1>1, <1>4 DEF Reading, InPayload
    <2>2. control.payload = sent /\ control.op = header.op /\ control \in Held
          /\ control.op # "TEXT" /\ Validated(control)
        BY <2>1, <1>4 DEF Holds, WithFrame, IsControl
    <2>3. control' = Process(control, b) /\ data' = data
        BY <2>1
    <2>4. /\ control' \in Held /\ control'.op = control.op
          /\ control'.payload = Append(sent, b) /\ control'.key = Key(Len(sent) + 1)
          /\ control'.utf # "reject" /\ Validated(control')
        BY <2>1, <2>2, <2>3, <1>2, ProcessByte
    <2>5. Current' = control' /\ ec' = "none"
        BY <2>1, <2>4, <1>1 DEF Current
    <2>6. Holds(control, WithFrame(NoMsg))' /\ Keyed(control)'
        BY <2>2, <2>4, <1>1, <1>3 DEF Holds, WithFrame, Keyed, Validated
    <2>7. Between'
        BY <2>1, <2>3, <1>1 DEF Between, Holds, Validated
    <2>8. TypeOK'
        BY <2>3, <2>4, <1>1, <1>2 DEF TypeOK
    <2>9. Reading'
        BY <2>1, <2>6, <2>7, <1>1, <1>4 DEF Reading, InHeader, InExtended, InPayload, InReady
    <2>10. RefusedRightly'
        BY <2>5, <1>1, <1>4 DEF RefusedRightly, InOrder, IsControl
    <2> QED BY <2>8, <2>9, <2>10, <1>1, NothingDelivered
<1>5. CASE ~IsControl(header.op)
    <2>1. /\ current = "data" /\ Holds(data, WithFrame(part)) /\ Keyed(data)
        BY <1>1, <1>5 DEF Reading, InPayload
    <2>2. part \in Meant \cup {NoMsg}
        BY DEF TypeOK
    <2> DEFINE text == WithFrame(part).payload
    <2>3. text \in Seq(Byte)
        BY <2>2, <1>1, WithByte
    <2>4. data.payload = text /\ data.op = WithFrame(part).op /\ data \in Held
          /\ Validated(data)
        BY <2>1 DEF Holds
    <2>5. data' = Process(data, b) /\ control' = control
        BY <2>1
    <2>6. /\ data' \in Held /\ data'.op = data.op
          /\ data'.payload = Append(text, b) /\ data'.key = Key(Len(sent) + 1)
          /\ IF data'.utf = "reject" THEN data.op = "TEXT" /\ ~ValidPrefix(Append(text, b))
             ELSE Validated(data')
        <3> HIDE DEF text
        <3> QED BY <2>1, <2>3, <2>4, <2>5, <1>2, ProcessByte
    <2>7. Current' = data'
        BY <2>1, <1>1 DEF Current
    <2>8. WithFrame(part)'.payload = Append(text, b) /\ WithFrame(part)'.op = data.op
        BY <2>2, <2>4, <1>1, <1>2, WithByte DEF WithFrame
    <2>9. Keyed(data)'
        BY <2>6, <1>3 DEF Keyed
    <2>10. ec' = "none" => Holds(data, WithFrame(part))'
        BY <2>6, <2>7, <2>8 DEF Holds, Validated
    <2>11. TypeOK'
        BY <2>5, <2>6, <1>1, <1>2 DEF TypeOK
    <2>12. Reading'
        BY <2>1, <2>9, <2>10, <1>1, <1>5 DEF Reading, InHeader, InExtended, InPayload, InReady
    <2>13. RefusedRightly'
        <3>1. ec' = "invalid_payload" => ~ValidPrefix(TextSoFar)'
            BY <2>6, <2>7, <2>8, <1>2 DEF TextSoFar, ValidPrefix
        <3>2. ec' = "none" => ValidPrefix(TextSoFar)'
            BY <2>10 DEF TextSoFar, Holds, Validated, ValidPrefix
        <3>3. InOrder(header, part # NoMsg) /\ (Sum <= MaxMessage \/ (part # NoMsg /\ Sum >= Width))
            BY <1>1, <1>5 DEF RefusedRightly
        <3>4. Sum' = Sum
            BY <1>1 DEF Sum
        <3> QED BY <3>1, <3>2, <3>3, <3>4, <1>1, <1>2 DEF RefusedRightly
    <2> QED BY <2>11, <2>12, <2>13, <1>1, NothingDelivered
<1> QED BY <1>4, <1>5

-----------------------------------------------------------------------------
(* The end of a frame and of a message. *)

\* What the frame means, with or without the message before it.
LEMMA FrameMeant ==
    ASSUME TypeOK, NEW p \in Meant \cup {NoMsg}
    PROVE  WithFrame(p) \in Meant
<1>1. sent \in Seq(Byte) /\ header.op \in Opcode
    BY DEF TypeOK, HeaderType
<1>2. CASE p = NoMsg
    BY <1>1, <1>2 DEF WithFrame, Meant
<1>3. CASE p # NoMsg
    <2>1. p.payload \o sent \in Seq(Byte) /\ p.op \in Opcode /\ p.fragments + 1 \in Nat \ {0}
        BY <1>1, <1>3, ConcatProperties DEF Meant
    <2> QED BY <1>3, <2>1 DEF WithFrame, Meant
<1> QED BY <1>2, <1>3

LEMMA ResetHeaders ==
    ASSUME reset_headers
    PROVE  /\ mstate' = "HEADER_BASIC" /\ needed' \in Nat
           /\ header' \in HeaderType /\ header'.size = 0
BY DEF reset_headers, ZeroHeader, HeaderType, Opcode, LengthCode

LEMMA FragmentEndsInv ==
    ASSUME Inv, ec = "none", FragmentEnds
    PROVE  Inv'
<1> USE DEF Inv, FragmentEnds, messages
<1>1. /\ mstate = "APPLICATION" /\ ~header.fin /\ mstate' = "HEADER_BASIC" /\ ec' = "none"
      /\ needed' \in Nat /\ header' \in HeaderType /\ header'.size = 0
      /\ data' = data /\ control' = control /\ current' = current
    BY ResetHeaders
<1>2. ~IsControl(header.op)
    BY <1>1 DEF RefusedRightly, InOrder
<1>3. /\ part' = WithFrame(part) /\ whole' = whole /\ delivered' = delivered
      /\ sent' = <<>> /\ nframes' = nframes + 1 /\ nbytes' = nbytes
    BY <1>1, <1>2 DEF FrameRead
<1>4. part' \in Meant /\ part' # NoMsg
    BY <1>3, FrameMeant, NoMsgAssumption DEF TypeOK
<1>5. Holds(data, WithFrame(part))
    BY <1>1, <1>2 DEF Reading, InPayload
<1>6. Between'
    BY <1>1, <1>3, <1>4, <1>5 DEF Between, Holds, Validated
<1>7. TypeOK'
    BY <1>1, <1>3, <1>4 DEF TypeOK
<1>8. Reading'
    BY <1>1, <1>3, <1>6 DEF Reading, InHeader, InExtended, InPayload, InReady
<1>9. RefusedRightly'
    BY <1>1 DEF RefusedRightly
<1> QED BY <1>1, <1>3, <1>7, <1>8, <1>9, NothingDelivered

LEMMA AppendWhole ==
    ASSUME NEW p \in Meant, whole \in Seq(Meant), whole' = Append(whole, p)
    PROVE  /\ whole' \in Seq(Meant) /\ whole' # <<>>
           /\ Len(whole) \in Nat /\ Len(whole') = Len(whole) + 1
           /\ whole'[Len(whole')] = p
           /\ \A i \in 1..Len(whole) : whole'[i] = whole[i]
BY AppendProperties, LenProperties

LEMMA MessageEndsInv ==
    ASSUME Inv, ec = "none", MessageEnds
    PROVE  Inv'
<1> USE DEF Inv, MessageEnds, messages
<1>1. /\ mstate = "APPLICATION" /\ header.fin
      /\ needed' = needed /\ header' = header
      /\ data' = data /\ control' = control /\ current' = current
    OBVIOUS
<1>2. CASE EndsBadly /\ ec' = "invalid_payload" /\ UNCHANGED <<mstate, history>>
    <2>1. TypeOK' /\ Reading'
        BY <1>1, <1>2 DEF TypeOK, Reading, history, peer
    <2>2. header.op = "TEXT" /\ ~IsControl(header.op) /\ current = "data"
          /\ Holds(data, WithFrame(part)) /\ data.utf # "accept"
        BY <1>1, <1>2 DEF EndsBadly, Reading, InPayload, IsControl, Current
    <2>3. part = NoMsg
        BY <1>1, <2>2 DEF RefusedRightly, InOrder
    <2>4. ~Complete(TextSoFar)
        BY <2>2, <2>3 DEF Holds, Validated, TextSoFar, WithFrame
    <2>5. TextSoFar' = TextSoFar
        BY <1>1, <1>2 DEF TextSoFar, WithFrame, history, peer
    <2>6. ~Complete(TextSoFar)'
        BY <2>4, <2>5 DEF Complete
    <2>7. InOrder(header, part # NoMsg) /\ (Sum <= MaxMessage \/ (part # NoMsg /\ Sum >= Width))
        BY <1>1, <2>2 DEF RefusedRightly
    <2>8. Sum' = Sum /\ part' = part
        BY <1>1, <1>2 DEF Sum, history, peer
    <2>9. RefusedRightly'
        BY <1>1, <1>2, <2>6, <2>7, <2>8 DEF RefusedRightly
    <2> QED BY <1>1, <1>2, <2>1, <2>9, NothingDelivered DEF history, peer
<1>3. CASE ~EndsBadly /\ mstate' = "READY" /\ FrameRead /\ UNCHANGED ec
    <2>1. delivered' = delivered /\ sent' = <<>> /\ nframes' = nframes + 1 /\ nbytes' = nbytes
        BY <1>3 DEF FrameRead
    <2>2. PICK p \in Meant :
             /\ whole' = Append(whole, p)
             /\ Holds(Current, p) /\ EndsWhole(p)
             /\ IF current = "control" THEN Between /\ part' = part ELSE part' = NoMsg
        <3>1. CASE IsControl(header.op)
            <4>1. whole' = Append(whole, WithFrame(NoMsg)) /\ part' = part
                BY <1>3, <3>1 DEF FrameRead
            <4>2. WithFrame(NoMsg) \in Meant
                BY FrameMeant
            <4>3. current = "control" /\ Holds(control, WithFrame(NoMsg)) /\ Between
                BY <1>1, <3>1 DEF Reading, InPayload
            <4>4. EndsWhole(WithFrame(NoMsg))
                BY <3>1 DEF EndsWhole, WithFrame, IsControl
            <4> QED BY <4>1, <4>2, <4>3, <4>4 DEF Current
        <3>2. CASE ~IsControl(header.op)
            <4>1. whole' = Append(whole, WithFrame(part)) /\ part' = NoMsg
                BY <1>1, <1>3, <3>2 DEF FrameRead
            <4>2. WithFrame(part) \in Meant
                BY FrameMeant DEF TypeOK
            <4>3. current = "data" /\ Holds(data, WithFrame(part))
                BY <1>1, <3>2 DEF Reading, InPayload
            <4>4. EndsWhole(WithFrame(part))
                <5>1. CASE part = NoMsg
                    <6>1. WithFrame(part).op = "TEXT" => data.utf = "accept"
                        BY <5>1, <1>3, <4>3 DEF EndsBadly, WithFrame, Current
                    <6> QED BY <6>1, <4>3 DEF EndsWhole, Holds, Validated
                <5>2. CASE part # NoMsg
                    BY <5>2 DEF EndsWhole, WithFrame, TypeOK, Meant
                <5> QED BY <5>1, <5>2
            <4> QED BY <4>1, <4>2, <4>3, <4>4 DEF Current
        <3> QED BY <3>1, <3>2
    <2>3. /\ whole' \in Seq(Meant) /\ whole' # <<>>
          /\ Len(whole) \in Nat /\ Len(whole') = Len(whole) + 1
          /\ whole'[Len(whole')] = p
          /\ \A i \in 1..Len(whole) : whole'[i] = whole[i]
        BY <2>2, AppendWhole DEF TypeOK
    <2>4. TypeOK'
        BY <1>1, <1>3, <2>1, <2>2, <2>3 DEF TypeOK
    <2>5. Holds(Current, whole[Len(whole)])' /\ EndsWhole(whole[Len(whole)])'
        BY <1>1, <2>2, <2>3 DEF Holds, Validated, Current, EndsWhole
    <2>6. IF current = "control" THEN Between' ELSE part' = NoMsg
        BY <1>1, <2>2 DEF Between, Holds, Validated
    <2>7. Reading'
        BY <1>1, <1>3, <2>1, <2>3, <2>5, <2>6
           DEF Reading, InHeader, InExtended, InPayload, InReady
    <2>8. Len(delivered) \in Nat /\ Len(whole) = Len(delivered)
        BY <1>1 DEF Reassembled, TypeOK
    <2>9. Reassembled' /\ TextsValid'
        BY <1>3, <2>1, <2>3, <2>8 DEF Reassembled, TextsValid
    <2>10. RefusedRightly'
        BY <1>3 DEF RefusedRightly
    <2> QED BY <2>4, <2>7, <2>9, <2>10
<1> QED BY <1>2, <1>3, Zenon

LEMMA GetMessageInv ==
    ASSUME Inv, ec = "none", get_message
    PROVE  Inv'
<1> USE DEF Inv, get_message, peer
<1>1. /\ mstate = "READY" /\ mstate' = "HEADER_BASIC" /\ ec' = "none"
      /\ needed' \in Nat /\ header' \in HeaderType /\ header'.size = 0
      /\ sent' = sent /\ whole' = whole /\ part' = part
      /\ nframes' = nframes /\ nbytes' = nbytes /\ current' = current
      /\ data' = (IF current = "data" THEN NoMsg ELSE data)
      /\ control' = (IF current = "control" THEN NoMsg ELSE control)
    BY ResetHeaders
<1> DEFINE n == Len(whole)
           message == [op |-> Current.op, payload |-> Current.payload]
<1>2. /\ sent = <<>> /\ Holds(Current, whole[n]) /\ EndsWhole(whole[n])
      /\ IF current = "control" THEN Between ELSE part = NoMsg
    BY <1>1 DEF Reading, InReady
<1>3. message \in [op : Opcode, payload : Seq(Unmasked)]
    BY <1>2 DEF Holds, Held
<1>4. delivered' = Append(delivered, message) /\ n = Len(delivered) + 1 /\ Len(delivered) \in Nat
    BY <1>1 DEF Reassembled, TypeOK
<1>5. /\ delivered' \in Seq([op : Opcode, payload : Seq(Unmasked)])
      /\ Len(delivered') = n /\ delivered'[n] = message
      /\ \A i \in 1..n - 1 : delivered'[i] = delivered[i]
    <2> HIDE DEF message
    <2> QED BY <1>3, <1>4, AppendProperties DEF TypeOK
<1>6. Between'
    BY <1>1, <1>2 DEF Between, Holds, Validated, TypeOK
<1>7. TypeOK'
    BY <1>1, <1>5 DEF TypeOK
<1>8. Reading'
    BY <1>1, <1>2, <1>6 DEF Reading, InHeader, InExtended, InPayload, InReady
<1>9. Reassembled'
    <2>1. message.op = whole[n].op /\ message.payload = whole[n].payload
        BY <1>2 DEF Holds
    <2>2. \A i \in 1..n - 1 :
             delivered[i].op = whole[i].op /\ delivered[i].payload = whole[i].payload
        BY <1>4 DEF Reassembled
    <2> HIDE DEF n, message
    <2>3. \A i \in 1..n : delivered'[i].op = whole[i].op /\ delivered'[i].payload = whole[i].payload
        BY <2>1, <2>2, <1>4, <1>5
    <2> QED BY <2>3, <1>1, <1>4, <1>5 DEF Reassembled, n
<1>10. TextsValid'
    <2>1. message.op = "TEXT" =>
             ValidPrefix(message.payload) /\ (Complete(message.payload) \/ whole[n].fragments > 1)
        BY <1>2 DEF Holds, Validated, EndsWhole
    <2>2. \A i \in 1..n - 1 : delivered[i].op = "TEXT" =>
             /\ ValidPrefix(delivered[i].payload)
             /\ Complete(delivered[i].payload) \/ whole[i].fragments > 1
        BY <1>4 DEF TextsValid
    <2> HIDE DEF n, message
    <2>3. \A i \in 1..n : delivered'[i].op = "TEXT" =>
             /\ ValidPrefix(delivered'[i].payload)
             /\ Complete(delivered'[i].payload) \/ whole[i].fragments > 1
        BY <2>1, <2>2, <1>4, <1>5
    <2> QED BY <2>3, <1>1, <1>5 DEF TextsValid, ValidPrefix, Complete
<1>11. RefusedRightly'
    BY <1>1 DEF RefusedRightly
<1> QED BY <1>7, <1>8, <1>9, <1>10, <1>11

-----------------------------------------------------------------------------
(* The theorems. *)

LEMMA Invariant == Spec => []Inv
<1>1. Init => Inv
    BY InitInv
<1>2. Inv /\ [Next]_vars => Inv'
    <2> SUFFICES ASSUME Inv, [Next]_vars PROVE Inv'
        OBVIOUS
    <2>1. CASE UNCHANGED vars
        <3>1. /\ UNCHANGED <<mstate, needed, header, data, control, current, ec>>
              /\ UNCHANGED <<delivered, sent, whole, part, nframes, nbytes>>
            BY <2>1 DEF vars, messages, history, peer
        <3>2. TypeOK' /\ Reading'
            BY <3>1 DEF Inv, TypeOK, Reading, InHeader, InExtended, InPayload, InReady, Between,
                        Holds, Validated, Keyed, Key, WithFrame, EndsWhole, Current
        <3>3. Reassembled' /\ TextsValid'
            BY <3>1 DEF Inv, Reassembled, TextsValid
        <3>4. RefusedRightly'
            BY <3>1 DEF Inv, RefusedRightly, Sum, TextSoFar, WithFrame
        <3> QED BY <3>2, <3>3, <3>4 DEF Inv
    <2>2. CASE Next
        <3> USE <2>2 DEF Next
        <3>0. ec = "none"
            OBVIOUS
        <3>1. CASE \E fin, rsv \in BOOLEAN, op \in Opcode : FirstByte(fin, op, rsv)
            BY <3>0, <3>1, FirstByteInv
        <3>2. CASE \E masked \in BOOLEAN, code \in LengthCode : SecondByte(masked, code)
            BY <3>0, <3>2, SecondByteInv
        <3>3. CASE \E size \in SizesOf(header.code) : ExtendedHeader(size)
            BY <3>0, <3>3, ExtendedHeaderInv
        <3>4. CASE \E b \in Byte : Payload(b)
            BY <3>0, <3>4, PayloadInv
        <3>5. CASE FragmentEnds
            BY <3>0, <3>5, FragmentEndsInv
        <3>6. CASE MessageEnds
            BY <3>0, <3>6, MessageEndsInv
        <3>7. CASE get_message
            BY <3>0, <3>7, GetMessageInv
        <3> QED BY <3>1, <3>2, <3>3, <3>4, <3>5, <3>6, <3>7
    <2> QED BY <2>1, <2>2
<1> QED BY <1>1, <1>2, PTL DEF Spec

\* Whatever control frames come between the fragments and however the stream is cut, what
\* get_message hands on is what the peer's frames mean, whole and in order.
THEOREM MessagesReassembled == Spec => []Reassembled
<1>1. Inv => Reassembled
    BY DEF Inv
<1> QED BY <1>1, Invariant, PTL

\* consume() fails exactly where the stream breaks the protocol, and with the right status;
\* only a sum of lengths that wraps around in size_t escapes.
THEOREM RefusalsJustified == Spec => []RefusedRightly
<1>1. Inv => RefusedRightly
    BY DEF Inv
<1> QED BY <1>1, Invariant, PTL

\* A text handed on is UTF-8, and one that came in a single frame is complete.
THEOREM TextsAreValid == Spec => []TextsValid
<1>1. Inv => TextsValid
    BY DEF Inv
<1> QED BY <1>1, Invariant, PTL

=============================================================================
