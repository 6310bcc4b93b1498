----------------------------- MODULE TangoProcessor -----------------------------
(***************************************************************************)
(* The Tango side of a request: which asynchronous call TangoProcessor     *)
(* makes for a parsed request on one device, and what becomes of the argin *)
(* of the client on the way. A device is abstracted to the types of its    *)
(* command and of its attribute; every Tango call may fail, which is a     *)
(* refusal too.                                                            *)
(***************************************************************************)
EXTENDS ParsingInputJson

\* Types of a command argument: "number" stands for the numeric scalars and DEV_ENUM,
\* "numbers" for their arrays, "mixed" for the unsupported arrays (DEVVAR_LONGSTRINGARRAY,
\* DEVVAR_BOOLEANARRAY ...), "encoded" for what no case names.
InType == {"void", "boolean", "number", "string", "uchar", "numbers", "strings", "mixed",
           "state", "encoded"}

\* typeOfData and isMassive
isMassive(type) == type \in {"numbers", "strings", "mixed"}

DataType == {"boolean", "number", "enum", "string", "uchar", "state", "encoded"}
DataFormat == {"SCALAR", "SPECTRUM", "IMAGE"}

\* What a device gets: nothing, an empty value, or what the client gave.
Arg == {"none", "empty", "argin"}

Issue(arg) == [result |-> "issued", arg |-> arg]
Refuse == [result |-> "refused", arg |-> "none"]
Raise == [result |-> "invalid_argument", arg |-> "none"]

\* A cast whose bad_lexical_cast nobody catches.
CastScalarUncaught(v) == IF v = "digit" THEN Issue("argin") ELSE Raise

\* boost::lexical_cast of the argin: an argin that is no value is the empty string.
CastScalar(v) == IF v = "digit" THEN Issue("argin") ELSE Refuse

\* "true" and "false" are read by name.
CastBoolean(v) == IF v = "true" THEN Issue("argin") ELSE CastScalar(v)

\* Every element is cast; an argin that is no array is the empty array.
CastArray(v) == CASE v = "digits" -> Issue("argin")
                  [] v = "texts" -> Refuse
                  [] OTHER -> Issue("empty")

TakeString(v) == IF v \in VALUE THEN Issue("argin") ELSE Issue("empty")
TakeStrings(v) == IF v \in ARRAY THEN Issue("argin") ELSE Issue("empty")

-------------------------------------------------------------------------------

\* _getDeviceDataFromParsedJson. DEV_UCHAR builds the data in a local and drops it.
DeviceDataOf(type, v) ==
    CASE type = "number" -> CastScalar(v)
      [] type = "boolean" -> CastBoolean(v)
      [] type = "string" -> TakeString(v)
      [] type = "numbers" -> CastArray(v)
      [] type = "strings" -> TakeStrings(v)
      [] type \in {"mixed", "state"} -> Refuse
      [] type = "uchar" -> IF v = "digit" THEN Issue("empty") ELSE Refuse
      [] OTHER -> Issue("empty")

processCommand(k, dev) ==
    IF dev.in = "void" THEN Issue("none")
    ELSE IF k["argin"] = "absent" \/ (k["argin"] \in ARRAY /\ ~isMassive(dev.in)) THEN Refuse
    ELSE DeviceDataOf(dev.in, k["argin"])

\* stoi of dimX and dimY, whatever the format of the attribute.
DimsRaise(k) == \E dim \in {"dimX", "dimY"} : k[dim] \in VALUE \ {"digit"}

\* _getDeviceAttributeDataFromParsedJson, after the dimensions.
AttributeDataOf(dev, v) ==
    LET scalar == dev.format = "SCALAR" IN
    CASE dev.data \in {"number", "uchar"} -> IF scalar THEN CastScalar(v) ELSE CastArray(v)
      [] dev.data = "boolean" -> IF scalar THEN CastBoolean(v) ELSE CastArray(v)
      [] dev.data = "enum" -> CastScalar(v)
      [] dev.data = "string" -> IF scalar THEN TakeString(v) ELSE TakeStrings(v)
      [] OTHER -> Refuse

processAttrWrite(k, dev) ==
    IF DimsRaise(k) THEN Raise ELSE AttributeDataOf(dev, k["argin"])

\* The names of the attributes were checked by _checkValidity.
processAttrRead == Issue("none")

\* A DevFailed of any Tango call becomes a runtime_error: a refusal.
processAsyncReq(type, k, dev) ==
    {Refuse} \cup
    CASE type = "COMMAND" -> {processCommand(k, dev)}
      [] type = "ATTRIBUTE_READ" -> {processAttrRead}
      [] type = "ATTRIBUTE_WRITE" -> {processAttrWrite(k, dev)}

===============================================================================
