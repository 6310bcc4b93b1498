------------------------------- MODULE StringProc -------------------------------
(***************************************************************************)
(* StringProc: the options a client or a property hangs onto the name of   *)
(* an attribute, the precision that comes out of them, and the texts of    *)
(* refusals and of answers that show no Tango data.                        *)
(***************************************************************************)
EXTENDS JsonText, FiniteSets

CONSTANTS Attr,     \* names of attributes, of pipe elements and of commands
          Option    \* precision options, such as prec=3 and precf=10

\* What is not a precision option, and no option at all.
Niter == "niter"
Default == "default"

ASSUME OptionAssumption == Option \cap {Niter, Default} = {}

\* A name as it was written: "name;option;option".
Named(name, options) == [name |-> name, options |-> options]

\* parseInputString(name, ";"): the name is cut at the first delimiter.
Cut(asked) == Named(asked.name, <<>>)

\* The first of the options in which "prec" is found.
PrecisionOf(options) ==
    LET found == {i \in DOMAIN options : options[i] \in Option}
    IN  IF found = {} THEN Default ELSE options[Min(found)]

\* Entry after entry into a map; a later entry replaces an earlier one of its name.
Mapped(names, option) ==
    LET given(n) == {i \in DOMAIN names : names[i].name = n /\ option[i] # Default}
    IN  [n \in {names[i].name : i \in {j \in DOMAIN names : option[j] # Default}} |->
            option[Max(given(n))]]

\* A precision key: form is its TYPE_OF_VAL, list its value or values, object its members.
VALUE(o) == [form |-> "VALUE", list |-> <<o>>, object |-> <<>>]
ARRAY(l) == [form |-> "ARRAY", list |-> l, object |-> <<>>]
OBJECT(m) == [form |-> "OBJECT", list |-> <<>>, object |-> m]
NONE == [form |-> "NONE", list |-> <<>>, object |-> <<>>]

\* checkPrecisionOptions of one name.
CommandPrecision(asked, key) ==
    IF key.form = "VALUE" THEN key.list[1] ELSE PrecisionOf(asked.options)

\* checkPrecisionOptions of a list: the names are cut, unless the key is an object.
CutNames(names, key) ==
    IF key.form = "OBJECT" THEN names ELSE [i \in DOMAIN names |-> Cut(names[i])]

\* checkPrecisionOptions of a pipe request.
ObjectPrecisions(key) == IF key.form = "OBJECT" THEN key.object ELSE <<>>

ListPrecisions(names, key) ==
    CASE key.form = "VALUE" -> Mapped(names, [i \in DOMAIN names |-> key.list[1]])
      [] key.form = "ARRAY" ->
            Mapped(names, [i \in DOMAIN names |->
                              IF i <= Len(key.list) THEN key.list[i] ELSE Default])
      [] key.form = "OBJECT" -> ObjectPrecisions(key)
      [] OTHER -> Mapped(names, [i \in DOMAIN names |-> PrecisionOf(names[i].options)])

\* A mistake: a later entry of the property replaces an earlier one.
WithLastOption(precisions, asked) ==
    IF PrecisionOf(asked.options) = Default THEN precisions
    ELSE [n \in DOMAIN precisions \cup {asked.name} |->
             IF n = asked.name THEN PrecisionOf(asked.options) ELSE precisions[n]]

\* checkPrecisionOptions of a property, which keeps what the map has.
WithOption(precisions, asked) ==
    IF asked.name \in DOMAIN precisions \/ PrecisionOf(asked.options) = Default THEN precisions
    ELSE [n \in DOMAIN precisions \cup {asked.name} |->
             IF n = asked.name THEN PrecisionOf(asked.options) ELSE precisions[n]]

\* precOpts.find
Precision(precisions, n) == IF n \in DOMAIN precisions THEN precisions[n] ELSE Default

-------------------------------------------------------------------------------

\* err_mess: one message or a list.
QuotedList(contents) ==
    LBracket \o Listed([i \in DOMAIN contents |-> Quoted(contents[i], Own)]) \o RBracket

GenerateErrorMess(err) ==
    IF err.errorMessage \in Content
    THEN Comma \o Key("err_mess") \o Quoted(err.errorMessage, Own)
    ELSE Optional(err.errorMessages # <<>>,
                  Comma \o Key("err_mess") \o QuotedList(err.errorMessages))

\* One member of the answer to an event request; a subscription of "" names no attribute.
EventResponse(hasAttribute) ==
    LBrace \o Field("device") \o Optional(hasAttribute, Comma \o Field("attribute"))
      \o Comma \o Field("event_type") \o Comma \o Field("event_sub_id") \o RBrace

GenerateSuccessStringOutForEvent(responses) ==
    LBracket \o Listed([i \in DOMAIN responses |-> EventResponse(responses[i])]) \o RBracket

\* An ErrorInfo: given holds its fields that are not empty.
ErrorKeys == <<"type_req", "type_err", "id_req", "device_name", "attr_name", "event_type">>
Error(given, message, messages) ==
    [given |-> given \cup {"type_err"}, errorMessage |-> message, errorMessages |-> messages,
     errorResponses |-> <<>>]

ExceptionStringOut(err) ==
    LBrace \o Field("event")
      \o FlattenSeq([i \in DOMAIN ErrorKeys |->
                        Optional(ErrorKeys[i] \in err.given, Comma \o Field(ErrorKeys[i]))])
      \o Optional(err.errorResponses # <<>>,
                  Comma \o Key("errors") \o GenerateSuccessStringOutForEvent(err.errorResponses))
      \o GenerateErrorMess(err) \o RBrace

\* event, type_req and, when the id is a number, id_req.
RespHead(hasId) ==
    LBrace \o Field("event") \o Comma \o Field("type_req") \o Comma
      \o Optional(hasId, Field("id_req") \o Comma)

SuccessRespOut(hasId) == RespHead(hasId) \o Field("success") \o RBrace

GenerateRespMess(hasId, message) == RespHead(hasId) \o Key("resp") \o message \o RBrace

ResponseStringOut(hasId, content) == GenerateRespMess(hasId, Quoted(content, Own))

ResponseStringOutForEventSub(hasId, responses) ==
    GenerateRespMess(hasId, GenerateSuccessStringOutForEvent(responses))

===============================================================================
