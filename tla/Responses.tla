------------------------------- MODULE Responses -------------------------------
(***************************************************************************)
(* What clients are told: the texts TangoProcessor builds from the data of *)
(* Tango devices, for the periodic update of the server mode, for answers  *)
(* to commands, attribute and pipe requests, and for events. The options a *)
(* request or a property gave for its names travel beside the request and  *)
(* are looked up by the name the device answers with. A TaskInfo does not  *)
(* change between the request and the answer, which are one action here.   *)
(*                                                                         *)
(* A datum is abstracted to its type class, format, quality, the number of *)
(* values read and set, and what its strings or numbers look like as text. *)
(***************************************************************************)
EXTENDS StringProc

CONSTANTS Dev,          \* devices of the group
          Datum,        \* what reading an attribute can return
          CommandData,  \* what a command can return
          Pipe,         \* what reading a pipe can return: sequences of elements
          Asked,        \* lists of names as a client writes them
          Precisions,   \* precision keys of requests
          Configs,      \* what a gateway is made with: the old version of answers or not, the
                        \* properties Attributes and PipeName
          IntMax,       \* the greatest int
          FewData, FewPipes \* the data and pipes tried where several names or devices answer

\* A name as it may be written.
Name(names) == [name : names, options : Seq(Option \cup {Niter})]

\* Type classes: "number" stands for the integers and DEV_ENUM, "float" for both floating types.
DatumType == {"boolean", "number", "float", "string", "state", "uchar", "encoded"}
Format == {"SCALAR", "SPECTRUM", "IMAGE", "UNKNOWN"}
Quality == {"VALID", "INVALID", "ALARM"}

\* A DeviceAttribute: the values it carries are the read ones followed by the set ones; dimY of
\* what is no IMAGE is whatever the memory of a MyAttributeData holds. For a number, "quotes"
\* says that it is not finite.
DatumRecord == [type : DatumType, format : Format, quality : Quality, content : Content,
                dimX : Nat, dimY : Int, set : Nat]

ElementKind == {"float", "number", "string", "floats", "state", "void", "unsupported"}
Element == [name : Attr, kind : ElementKind, content : Content]

CommandType == {"void", "boolean", "number", "float", "string", "state", "numbers", "floats",
                "strings", "unsupported"}

\* The property Attributes may ask for all attributes.
AllAttrs == "__all_attrs__"

\* How many values the dimensions give, an image without a second one being one row.
Product(d) == d.dimX * (IF d.dimY = 0 THEN 1 ELSE d.dimY)

IsInt(i) == -IntMax - 1 <= i /\ i <= IntMax

ASSUME DevAssumption == IsFiniteSet(Dev)
ASSUME IntAssumption == IntMax \in Nat
ASSUME DatumAssumption ==
    /\ Datum \cup FewData \subseteq DatumRecord
    /\ \A d \in Datum \cup FewData : /\ d.format = "IMAGE" => d.dimY \in Nat /\ IsInt(Product(d))
                                     /\ d.format = "SCALAR" => d.set <= 1
    /\ \E d \in Datum : d.quality = "INVALID"
ASSUME CommandAssumption == CommandData \subseteq [type : CommandType, content : Content, count : Nat]
ASSUME PipeAssumption == Pipe \cup FewPipes \subseteq Seq(Element)
ASSUME AskedAssumption == Asked \subseteq Seq(Name(Attr))
ASSUME ConfigAssumption ==
    Configs \subseteq [old : BOOLEAN, attributes : Seq(Name(Attr \cup {AllAttrs})), pipe : Seq(Name(Attr))]

VARIABLES old,        \* _isOldVersionOfJson
          attributes, \* _attributes
          precisions, \* _precisionOptsOfAttrs
          hasPipe,    \* _pipeName is not empty
          pipePrecisions, \* _precisionOptsOfPipe
          wanted,     \* history: the precision the properties ask for, by name
          text,       \* the text that is about to be handed to send or send_all
          about,      \* history: what this text is about
          crashed     \* a null or past-the-end pointer was used

conf == <<old, attributes, precisions, hasPipe, pipePrecisions, wanted>>
vars == <<conf, text, about, crashed>>

\* attrs: the attributes a text shows, each with its datum; pipes: the pipes it shows; want: the
\* precisions asked for each name of the ones and of the others; fit: JSON can hold all of this the way the code writes it.
About(attrs, pipes, want, fit) == [attrs |-> attrs, pipes |-> pipes, want |-> want, fit |-> fit]
NoWish == [attrs |-> <<>>, pipe |-> <<>>]
Exactly(options) == [n \in DOMAIN options |-> {options[n]}]
NoAnswer == About(<<>>, <<>>, NoWish, TRUE)

-------------------------------------------------------------------------------
(* One value, one list of values. *)

\* _dataValueToStr of a floating number and _outForFloat.
FloatToStr(content, of, opt) == IF content = "quotes" THEN Broken ELSE Value(of, opt)

\* _dataValueToStr
DataValueToStr(type, content, of, opt, isJsonString) ==
    CASE type = "float" -> FloatToStr(content, of, opt)
      [] type = "string" -> IF isJsonString THEN Bare(content, of) ELSE Quoted(content, of)
      [] OTHER -> Value(of, "")

\* _dataArrayToStr between brackets
DataArrayToStr(type, content, ofs, opt, isJsonString) ==
    LBracket
      \o Listed([i \in DOMAIN ofs |-> DataValueToStr(type, content, ofs[i], opt, isJsonString)])
      \o RBracket

\* Names of the values of attribute n: the i-th one read or set.
Values(n, part, count) == [i \in 1..count |-> <<n, part, i>>]

ReadCount(d) ==
    CASE d.format = "SCALAR" -> 1
      [] d.format = "SPECTRUM" -> d.dimX
      [] OTHER -> Product(d)

\* extractTempl: operator >> takes both parts of a list; extract_set the second one.
Extracted(n, d) == Values(n, "read", ReadCount(d)) \o Values(n, "set", d.set)

\* A mistake: nothing is cut off.
KeptAsExtracted(n, d) == Extracted(n, d)

\* The product of two ints; one that is too large is undefined, and wraps in what is built.
AsInt(i) == ((i + IntMax + 1) % (2 * IntMax + 2)) - IntMax - 1

\* What is left of it by the size the dimensions give. The comparison of vector::size with an
\* int is one of unsigned numbers, the loop over DEV_UCHAR one of signed numbers.
Kept(n, d) ==
    LET all == Extracted(n, d)
        size == AsInt(Product(d))
    IN  IF size < 0 THEN (IF d.type = "uchar" THEN <<>> ELSE all)
        ELSE IF size < Len(all) THEN SubSeq(all, 1, size) ELSE all

\* The dimensions _devAttrToStrTmpl writes first.
Dimensions(d) ==
    Optional(d.format \in {"SPECTRUM", "IMAGE"}, Field("dimX") \o Comma)
      \o Optional(d.format = "IMAGE", Field("dimY") \o Comma)

SetPart(n, d, opt, isJsonString) ==
    LET set == Values(n, "set", d.set)
    IN  IF d.type = "uchar" \/ (d.type = "state" /\ d.format = "SCALAR") THEN <<>>
        ELSE IF d.format = "SCALAR"
        THEN Optional(d.set = 1, Comma \o Key("set")
                                   \o DataValueToStr(d.type, d.content, <<n, "set", 1>>, opt, isJsonString))
        ELSE Optional(d.set > 0, Comma \o Key("set")
                                   \o DataArrayToStr(d.type, d.content, set, opt, isJsonString))

\* _deviceAttributeToStr. Without a value get_type is -1; a format Tango does not know gets a key
\* and no value.
DeviceAttributeToStr(n, d, opt, isJsonString) ==
    CASE d.type = "encoded" \/ d.quality = "INVALID" -> Field("data")
      [] OTHER ->
            Dimensions(d) \o Key("data")
              \o CASE d.format = "SCALAR" ->
                        DataValueToStr(d.type, d.content, <<n, "read", 1>>, opt, isJsonString)
                          \o SetPart(n, d, opt, isJsonString)
                   [] d.format \in {"SPECTRUM", "IMAGE"} ->
                        DataArrayToStr(d.type, d.content, Kept(n, d), opt, isJsonString)
                          \o SetPart(n, d, opt, isJsonString)
                   [] OTHER -> <<>>

\* _generateJsonForAttribute
GenerateJsonForAttribute(n, d, opt) ==
    Key(n) \o LBrace \o Optional(d.quality # "VALID", Field("qual") \o Comma)
      \o DeviceAttributeToStr(n, d, opt, FALSE) \o RBrace

\* _generateJsonForAttrList
GenerateJsonForAttrList(names, data, opts) ==
    LBrace \o Listed([i \in DOMAIN names |->
                         GenerateJsonForAttribute(names[i], data[i], Precision(opts, names[i]))])
      \o RBrace


\* JSON holds the datum the way it is written.
FitDatum(d) == \/ d.type = "encoded" \/ d.quality = "INVALID"
               \/ /\ d.format # "UNKNOWN"
                  /\ d.type = "float" => d.content # "quotes"
                  /\ d.type = "string" => d.content = "plain"

-------------------------------------------------------------------------------
(* Pipes: the elements are extracted in order, and >> takes the next one that was not. *)

ShownElement(el, opt) ==
    CASE el.kind = "floats" -> DataArrayToStr("float", el.content, << <<el.name, "pipe", 1>> >>, opt, FALSE)
      [] el.kind = "state" -> Value(<<el.name, "pipe", 1>>, "")
      [] OTHER -> DataValueToStr(el.kind, el.content, <<el.name, "pipe", 1>>, opt, FALSE)

\* What was written, how many elements were extracted, and whether an exception goes up.
SoFar(written, extracted, raised) == [text |-> written, extracted |-> extracted, raised |-> raised]

\* _extractFromPipe: what it does not support is not extracted, so that >> meets it again and
\* fails; _extractFromPipeTmpl shows this in words, a DEV_STATE lets it go up.
ExtractFromPipe(acc, pipe, i, opts) ==
    LET el == pipe[i]
        next == pipe[acc.extracted + 1]
        key == acc.text \o Optional(i > 1, Comma) \o Key(el.name)
        extracts == el.kind \notin {"void", "unsupported"} /\ el.kind = next.kind
    IN  CASE acc.raised -> acc
          [] ~acc.raised /\ extracts ->
                SoFar(key \o ShownElement(next, Precision(opts, el.name)), acc.extracted + 1, FALSE)
          [] ~acc.raised /\ ~extracts /\ el.kind = "state" -> SoFar(key, acc.extracted, TRUE)
          [] OTHER -> SoFar(key \o Plain, acc.extracted, FALSE)

\* _generateJsonForPipe
GenerateJsonForPipe(pipe, opts) ==
    LET upTo[i \in 0..Len(pipe)] ==
            IF i = 0 THEN SoFar(LBrace, 0, FALSE)
            ELSE ExtractFromPipe(upTo[i - 1], pipe, i, opts)
        all == upTo[Len(pipe)]
    IN  SoFar(all.text \o Optional(~all.raised, RBrace), all.extracted, all.raised)

\* A pipe that was read, or the descriptions of the DevFailed reading it raised.
Piped(p) == [read |-> TRUE, elements |-> p, errors |-> <<>>]
PipeFailed(errors) == [read |-> FALSE, elements |-> <<>>, errors |-> errors]

\* The try blocks around it: what had been written by then stays written.
PipeOrErrors(p, opts) ==
    LET shown == GenerateJsonForPipe(p.elements, opts)
    IN  IF ~p.read THEN QuotedList(p.errors)
        ELSE shown.text \o Optional(shown.raised, QuotedList(<<"plain">>))

FitErrors(errors) == \A i \in DOMAIN errors : errors[i] = "plain"

\* No DEV_STATE behind what was not extracted, and all strings and numbers are fit.
FitPipe(p) ==
    /\ \A i \in DOMAIN p.elements :
          /\ p.elements[i].kind \in {"float", "floats"} => p.elements[i].content # "quotes"
          /\ p.elements[i].kind = "string" => p.elements[i].content = "plain"
          /\ p.elements[i].kind = "state" =>
                \A j \in 1..i : p.elements[j].kind \notin {"void", "unsupported"}
    /\ FitErrors(p.errors)

-------------------------------------------------------------------------------
(* The results of commands. *)

ElementType(type) == CASE type = "floats" -> "float" [] type = "strings" -> "string" [] OTHER -> "number"

\* _generateJsonFromDeviceData: a command's value is called by the name "argout" here.
GenerateJsonFromDeviceData(r, opt, isJsonString) ==
    CASE r.type \in {"void", "state", "unsupported"} -> Plain
      [] r.type \in {"numbers", "floats", "strings"} ->
            DataArrayToStr(ElementType(r.type), r.content, Values("argout", "result", r.count), opt, isJsonString)
      [] OTHER -> DataValueToStr(r.type, r.content, <<"argout", "result", 1>>, opt, isJsonString)

FitResult(r, isJsonString) ==
    /\ r.type \in {"float", "floats"} => r.content # "quotes"
    /\ r.type \in {"string", "strings"} => r.content = (IF isJsonString THEN "json" ELSE "plain")

-------------------------------------------------------------------------------
(* How a text begins: _generateHeadForJson. *)

HeadOfUpdate == LBrace \o Field("event") \o Comma \o Field("type_req") \o Comma \o Key("data")

HeadOfPipe(hasDevice, hasId) ==
    LBrace \o Field("event") \o Comma \o Field("type_req") \o Comma
      \o Optional(hasDevice, Field("device_name") \o Comma)
      \o Optional(hasId, Field("id_req") \o Comma) \o Key("data")

\* The object around the value in the old version of answers. A mistake first: its inner brace
\* is opened for every device of a group and closed only for GROUP.
OldPartForAnyGroup(t) ==
    CASE t.kind = "command" ->
            LBrace \o Field("command_name") \o Comma
              \o Optional(t.sog # "GROUP", Field("device_name") \o Comma) \o Key("argout")
              \o Optional(t.sog # "SINGLE", LBrace \o Key("device_name"))
      [] t.kind = "read_attr" -> LBrace \o Key("device_name")
      [] OTHER -> <<>>

OldPart(t) ==
    CASE t.kind = "command" ->
            LBrace \o Field("command_name") \o Comma
              \o Optional(t.sog # "GROUP", Field("device_name") \o Comma) \o Key("argout")
              \o Optional(t.sog = "GROUP", LBrace \o Key("device_name"))
      [] t.kind = "read_attr" -> LBrace \o Key("device_name")
      [] OTHER -> <<>>

HeadOfTask(t, useOldVersion) ==
    LBrace \o Field("event") \o Comma \o Field("type_req") \o Comma
      \o Optional(~useOldVersion, Field("device_name") \o Comma
                    \o Optional(t.kind = "command", Field("command_name") \o Comma))
      \o Optional(t.kind = "write_attr", Field("attr_name") \o Comma)
      \o Optional(t.hasId, Field("id_req") \o Comma)
      \o Key(IF t.kind = "write_attr" THEN "resp" ELSE "data")
      \o Optional(useOldVersion, OldPart(t))

-------------------------------------------------------------------------------
(* The properties Attributes and PipeName, read once when the gateway is made. *)

HasAllAttrs(list) == \E i \in DOMAIN list : list[i].name = AllAttrs

\* getListOfAllAttributes as GroupOrDeviceForWs calls it: its own, for the method is not virtual.
ListOfAllAttributes == <<>>

\* _ifUsingAllAttrsOpt looks each name with options up in that list and writes to what it finds.
PastTheEnd(list) == /\ HasAllAttrs(list)
                    /\ \E i \in DOMAIN list : list[i].name # AllAttrs /\ list[i].options # <<>>

ListToRead(list) == IF HasAllAttrs(list) THEN ListOfAllAttributes ELSE list

\* What becomes of the options of a list, entry after entry.
OptionsOf(list) ==
    LET upTo[i \in 0..Len(list)] ==
            IF i = 0 THEN <<>> ELSE WithOption(upTo[i - 1], list[i])
    IN  upTo[Len(list)]

\* initAttr: each name once.
InitAttr(list) ==
    LET read == ListToRead(list)
        names[i \in 0..Len(read)] ==
            IF i = 0 THEN <<>>
            ELSE IF Contains(names[i - 1], read[i].name) THEN names[i - 1]
            ELSE Append(names[i - 1], read[i].name)
    IN  [names |-> names[Len(read)], opts |-> OptionsOf(read)]

\* initPipe: the first entry is the pipe, the others are its elements with their options.
InitPipe(list) == IF list = <<>> THEN <<>> ELSE OptionsOf(Tail(list))

\* The precision a property asks for: the first option any entry of the name has.
OptionsFor(n, list) ==
    FlattenSeq([i \in DOMAIN list |-> IF list[i].name = n THEN list[i].options ELSE <<>>])
Wanted(list) == [n \in {list[i].name : i \in DOMAIN list} |-> {PrecisionOf(OptionsFor(n, list))}]

Init ==
    /\ \E c \in Configs :
       LET list == c.attributes
           pipe == c.pipe
       IN /\ old = c.old
          /\ attributes = InitAttr(list).names
          /\ precisions = InitAttr(list).opts
          /\ crashed = PastTheEnd(list)
          /\ hasPipe = (pipe # <<>>)
          /\ pipePrecisions = InitPipe(pipe)
          /\ wanted = [attrs |-> Wanted(list), pipe |-> IF pipe = <<>> THEN <<>> ELSE Wanted(Tail(pipe))]
    /\ text = <<>>
    /\ about = NoAnswer

\* Texts are built and sent one at a time.
Ready == ~crashed /\ text = <<>>

Say(t, a) == /\ text' = t
             /\ about' = a
             /\ UNCHANGED <<conf, crashed>>

\* send or send_all takes the text.
Sent == /\ text # <<>>
        /\ text' = <<>>
        /\ about' = NoAnswer
        /\ UNCHANGED <<conf, crashed>>

-------------------------------------------------------------------------------
(* The periodic update of the server mode: processUpdate. *)

\* Lists of data for names; several names are tried with few data.
DataFor(names) == [DOMAIN names -> IF Len(names) > 1 THEN FewData ELSE Datum]

Attrs(names, data) == [i \in DOMAIN names |-> [name |-> names[i], datum |-> data[i]]]
FitData(data) == \A i \in DOMAIN data : FitDatum(data[i])

PipePart(p) == Optional(hasPipe, Comma \o Key("pipe") \o PipeOrErrors(p, pipePrecisions))

\* processUpdate of a device
UpdateDevice ==
    /\ Ready
    /\ \E data \in DataFor(attributes), p \in {Piped(q) : q \in FewPipes} \cup {PipeFailed(<<"plain">>)} :
          Say(HeadOfUpdate \o GenerateJsonForAttrList(attributes, data, precisions)
                \o PipePart(p) \o RBrace,
              About(Attrs(attributes, data), IF hasPipe THEN <<p>> ELSE <<>>, wanted,
                    FitData(data) /\ (hasPipe => FitPipe(p))))

\* for_update_data when the device was not made or reading its attributes raises.
UpdateFails ==
    /\ Ready
    /\ \E message \in Content :
          Say(ExceptionStringOut(Error({"type_req", "device_name"}, message, <<>>)),
              About(<<>>, <<>>, NoWish, message = "plain"))

\* What the devices of the group have to say: data and a pipe, either without the other, as they
\* are read in two loops, or neither.
Unavailable == [read |-> FALSE, data |-> <<>>, pipe |-> PipeFailed(<<"plain", "plain">>)]
DeviceOutcome ==
    LET pipes == {Piped(q) : q \in FewPipes} \cup {PipeFailed(<<"plain">>)}
    IN  {Unavailable} \cup [read : {FALSE}, data : {<<>>}, pipe : pipes]
                      \cup [read : {TRUE}, data : [DOMAIN attributes -> FewData], pipe : pipes]

DeviceAttrs(o) == IF o.read THEN GenerateJsonForAttrList(attributes, o.data, precisions) ELSE Plain

\* The devices of the group, in the order of its list.
Devs == SetToSeq(Dev)

GroupData(outcomes) ==
    LBrace \o Listed([i \in DOMAIN Devs |-> Key(Devs[i]) \o DeviceAttrs(outcomes[Devs[i]])]) \o RBrace

GroupPipes(outcomes) ==
    LBrace \o Listed([i \in DOMAIN Devs |->
                          Key(Devs[i]) \o PipeOrErrors(outcomes[Devs[i]].pipe, pipePrecisions)])
      \o RBrace

AttrsShown(o) == IF o.read THEN Attrs(attributes, o.data) ELSE <<>>
FitOutcome(o) == FitData(o.data) /\ (hasPipe => FitPipe(o.pipe))
FitGroup(outcomes) == \A i \in DOMAIN Devs : FitOutcome(outcomes[Devs[i]])

\* processUpdate of a group
UpdateGroup ==
    /\ Ready
    /\ \E outcomes \in [Dev -> DeviceOutcome] :
          Say(HeadOfUpdate \o GroupData(outcomes)
                \o Optional(hasPipe, Comma \o Key("pipe") \o GroupPipes(outcomes)) \o RBrace,
              About(FlattenSeq([i \in DOMAIN Devs |-> AttrsShown(outcomes[Devs[i]])]),
                    IF hasPipe THEN [i \in DOMAIN Devs |-> outcomes[Devs[i]].pipe] ELSE <<>>,
                    wanted, FitGroup(outcomes)))

\* get_device answers 0 for a device that cannot be reached, and read_attributes is called on it.
UpdateGroupCrashes ==
    /\ Ready
    /\ crashed' = TRUE
    /\ UNCHANGED <<conf, text, about>>

-------------------------------------------------------------------------------
(* Answers to the requests of one client: a request with its options, and its answer. *)

Sog == {"SINGLE", "SINGLE_FROM_GROUP", "GROUP"}
Task(kind, sog, hasId) == [kind |-> kind, sog |-> sog, hasId |-> hasId]

\* What the documentation promises for the i-th of the names; who writes a name twice is promised
\* either.
Promised(names, key, i) ==
    CASE key.form = "VALUE" -> key.list[1]
      [] key.form = "ARRAY" -> IF i <= Len(key.list) THEN key.list[i] ELSE Default
      [] key.form = "OBJECT" -> Precision(key.object, names[i].name)
      [] OTHER -> PrecisionOf(names[i].options)

WishFor(names, key) ==
    [n \in {names[i].name : i \in DOMAIN names} |->
        {Promised(names, key, i) : i \in {j \in DOMAIN names : names[j].name = n}}]

\* A device does not know a name that still carries its options.
UnknownName == CHOOSE d \in Datum : d.quality = "INVALID"
Answered(names, data) ==
    [i \in DOMAIN names |-> IF names[i].options = <<>> THEN data[i] ELSE UnknownName]

\* processAttrRead, read_attributes_reply and processAttrReadResponse
AttrReadResponse ==
    /\ Ready
    /\ \E names \in Asked, key \in Precisions :
       \E data \in DataFor(names) :
          LET cut == CutNames(names, key)
              shown == [i \in DOMAIN cut |-> cut[i].name]
              got == Answered(cut, data)
          IN  Say(HeadOfTask(Task("read_attr", "SINGLE", TRUE), old)
                    \o GenerateJsonForAttrList(shown, got, ListPrecisions(names, key))
                    \o Optional(old, RBrace) \o RBrace,
                  About(Attrs(shown, got), <<>>, [attrs |-> WishFor(names, key), pipe |-> <<>>],
                        FitData(got)))

\* processAttrWrite, write_attribute_reply and processAttrWriteResponse
AttrWriteResponse ==
    /\ Ready
    /\ \E hasId \in BOOLEAN :
          Say(HeadOfTask(Task("write_attr", "SINGLE", hasId), FALSE) \o Plain \o RBrace, NoAnswer)

\* processCommand, command_inout_reply and processCommandResponse
CommandResponse ==
    /\ Ready
    /\ \E names \in Asked, key \in Precisions, sog \in Sog, r \in CommandData, jsonout \in BOOLEAN :
          /\ Len(names) = 1
          /\ Say(HeadOfTask(Task("command", sog, TRUE), old)
                   \o GenerateJsonFromDeviceData(r, CommandPrecision(names[1], key), jsonout)
                   \o Optional(old, RBrace \o Optional(sog = "GROUP", RBrace)) \o RBrace,
                 About(<<>>, <<>>, NoWish, FitResult(r, jsonout)))

\* Any refusal: a combination of what an ErrorInfo can hold.
Refusal ==
    /\ Ready
    /\ \E given \in SUBSET {"type_req", "id_req", "device_name"}, message \in Content \cup {"none"},
          messages \in {<<>>, <<"plain">>, <<"plain", "quotes">>},
          responses \in {<<>>, <<TRUE>>, <<FALSE, TRUE>>} :
          Say(ExceptionStringOut(
                 [Error(given, message, messages) EXCEPT !.errorResponses = responses]),
              About(<<>>, <<>>, NoWish,
                    IF message = "none" THEN FitErrors(messages) ELSE message = "plain"))

\* Answers without Tango data: eventreq_off and _rem_dev, eventreq_add_dev, change_user_smpl.
Acknowledgement ==
    /\ Ready
    /\ \E hasId \in BOOLEAN, responses \in {<<TRUE>>, <<FALSE, TRUE>>}, login \in Content :
          \/ Say(SuccessRespOut(hasId), NoAnswer)
          \/ Say(ResponseStringOutForEventSub(hasId, responses), NoAnswer)
          \/ Say(ResponseStringOut(hasId, login), About(<<>>, <<>>, NoWish, login = "plain"))

\* sendRequest_UserStatus
UserStatus ==
    /\ Ready
    /\ \E login \in Content :
          Say(LBrace \o Field("event") \o Comma \o Field("type_req") \o Comma \o Key("data") \o LBrace
                \o Field("status") \o Comma \o Key("username") \o Quoted(login, Own)
                \o RBrace \o RBrace,
              About(<<>>, <<>>, NoWish, login = "plain"))

-------------------------------------------------------------------------------
(* Pipe requests. *)

\* processPipeRead of one device; what is raised while the pipe is shown makes a refusal.
PipeResponse ==
    /\ Ready
    /\ \E p \in Pipe, key \in Precisions, hasDevice, hasId \in BOOLEAN :
          LET shown == GenerateJsonForPipe(p, ObjectPrecisions(key))
          IN  IF shown.raised
              THEN Say(ExceptionStringOut(Error({"type_req"}, "none", <<"plain">>)), NoAnswer)
              ELSE Say(HeadOfPipe(hasDevice, hasId) \o shown.text \o RBrace,
                       About(<<>>, <<Piped(p)>>, [attrs |-> <<>>, pipe |-> Exactly(ObjectPrecisions(key))],
                             FitPipe(Piped(p))))

\* processPipeRead of a group: a device is unavailable, or its pipe is read or not.
PipeOutcome == [available : {FALSE}, pipe : {PipeFailed(<<>>)}]
                 \cup [available : {TRUE}, pipe : {Piped(q) : q \in FewPipes}
                                                     \cup {PipeFailed(<<"plain", "plain">>)}]

\* hasPipe in the code: some pipe was read and shown.
PipeShown(o) == o.available /\ o.pipe.read /\ ~GenerateJsonForPipe(o.pipe.elements, <<>>).raised

PipePartOf(o, opts) == IF o.available THEN PipeOrErrors(o.pipe, opts) ELSE Plain

GroupPipeParts(outcomes, opts) ==
    LBrace \o Listed([i \in DOMAIN Devs |-> Key(Devs[i]) \o PipePartOf(outcomes[Devs[i]], opts)]) \o RBrace

FitPipes(outcomes) == \A i \in DOMAIN Devs : FitPipe(outcomes[Devs[i]].pipe)

GroupPipeResponse ==
    /\ Ready
    /\ \E outcomes \in [Dev -> PipeOutcome], key \in Precisions, hasId \in BOOLEAN :
          IF \E i \in DOMAIN Devs : PipeShown(outcomes[Devs[i]])
          THEN Say(HeadOfPipe(FALSE, hasId) \o GroupPipeParts(outcomes, ObjectPrecisions(key)) \o RBrace,
                   About(<<>>, [i \in DOMAIN Devs |-> outcomes[Devs[i]].pipe],
                         [attrs |-> <<>>, pipe |-> Exactly(ObjectPrecisions(key))], FitPipes(outcomes)))
          ELSE Say(ExceptionStringOut(Error({"type_req"}, "plain", <<>>)), NoAnswer)

-------------------------------------------------------------------------------
(* Events: processEvent. *)

\* The raw text of a string scalar, which is nothing for any other datum.
JsonData(d) ==
    Key("data") \o Optional(d.type = "string" /\ d.format = "SCALAR" /\ d.quality # "INVALID",
                            Bare(d.content, <<"json", "raw", 1>>))

EventKeys == <<"event", "type_req", "event_type", "timestamp", "attr", "device_name", "attr_short">>

\* jsonName: "json" is part of the full name of the attribute.
Event ==
    /\ Ready
    /\ \E n \in Attr, d \in Datum, opt \in Option \cup {Default}, jsonName \in BOOLEAN :
          Say(LBrace \o FlattenSeq([i \in DOMAIN EventKeys |-> Field(EventKeys[i]) \o Comma])
                \o (IF jsonName THEN JsonData(d) ELSE DeviceAttributeToStr(n, d, opt, FALSE))
                \o RBrace,
              About(IF jsonName THEN <<>> ELSE <<[name |-> n, datum |-> d]>>, <<>>,
                    [attrs |-> [m \in {n} |-> {opt}], pipe |-> <<>>],
                    IF jsonName
                    THEN d.type = "string" /\ d.format = "SCALAR" /\ d.quality # "INVALID" /\ d.content = "json"
                    ELSE FitDatum(d)))

Next == \/ UpdateDevice \/ UpdateFails \/ UpdateGroup \/ UpdateGroupCrashes
        \/ AttrReadResponse \/ AttrWriteResponse \/ CommandResponse \/ Refusal \/ Acknowledgement
        \/ UserStatus \/ PipeResponse \/ GroupPipeResponse \/ Event \/ Sent

Spec == Init /\ [][Next]_vars

-------------------------------------------------------------------------------
(* Properties *)

\* Whatever mixture of devices, failed reads, formats, options and versions goes into a text, it
\* is one JSON value, provided that JSON can hold each string and number the way it is written.
WellFormed == about.fit => text = <<>> \/ IsJson(text)

\* What a token shows of an attribute or a pipe element, and all of it that a text shows.
DatumShown(token) == token[1] = "value" /\ token[2][2] \in {"read", "set", "pipe"}
DataShown(t) == FlattenSeq([i \in DOMAIN t |-> Optional(DatumShown(t[i]), <<t[i][2]>>)])

\* The list of a SPECTRUM is cut to a size computed from a dimension it does not have: what is
\* set may be shown as read, a list of DEV_UCHAR be lost, and any list when the size overflows.
Doubtful(d) ==
    d.format = "SPECTRUM" /\ (d.set > 0 \/ d.type = "uchar" \/ ~IsInt(Product(d)))

ToShow(n, d) ==
    IF d.quality = "INVALID" \/ d.type = "encoded" THEN <<>>
    ELSE Values(n, "read", ReadCount(d))
           \o (IF d.type = "uchar" \/ (d.type = "state" /\ d.format = "SCALAR") THEN <<>> ELSE Values(n, "set", d.set))

\* Elements up to the first one that is not supported.
PipeToShow(p) ==
    LET stops == {i \in DOMAIN p : p[i].kind \in {"void", "unsupported"}}
        until == IF stops = {} THEN Len(p) ELSE Min(stops) - 1
    IN  [i \in 1..until |-> <<p[i].name, "pipe", 1>>]

ReadAndSet(attrs) ==
    FlattenSeq([i \in DOMAIN attrs |-> ToShow(attrs[i].name, attrs[i].datum)])

\* A text shows every value that was read, under the name it was read for, once and in order,
\* and the set values apart from them; elements of a pipe never swap places.
DataIsRead ==
    about.fit /\ (\A i \in DOMAIN about.attrs : ~Doubtful(about.attrs[i].datum)) =>
        DataShown(text)
          = ReadAndSet(about.attrs)
              \o FlattenSeq([i \in DOMAIN about.pipes |-> PipeToShow(about.pipes[i].elements)])

\* The precisions a wish has for a name.
Wished(wishes, n) == IF n \in DOMAIN wishes THEN wishes[n] ELSE {Default}
AsWished(token, want) ==
    LET wishes == IF token[2][2] = "pipe" THEN want.pipe ELSE want.attrs
    IN  token[3] # "" => token[3] \in Wished(wishes, token[2][1])

\* Every floating number is written in the precision that was asked for its name, by the key of
\* the request, by the name itself or by the property, and in the default one otherwise.
PrecisionAsAsked == \A i \in DOMAIN text : DatumShown(text[i]) => AsWished(text[i], about.want)

===============================================================================
