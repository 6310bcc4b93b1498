-------------------------------- MODULE JsonText --------------------------------
(***************************************************************************)
(* JSON as the gateway writes it: a text is the sequence of the tokens     *)
(* that reach the stream. A key token includes its colon; a value token    *)
(* says which datum it shows and in which precision; "broken" is what no   *)
(* JSON reader takes: a string with an unescaped quote or control          *)
(* character, a bare word, a number that is not finite. IsJson is the      *)
(* reader the texts are judged by.                                         *)
(***************************************************************************)
EXTENDS Naturals, Sequences, SequencesExt

LBrace == << <<"{">> >>
RBrace == << <<"}">> >>
LBracket == << <<"[">> >>
RBracket == << <<"]">> >>
Comma == << <<",">> >>
Broken == << <<"broken">> >>
Key(k) == << <<"key", k>> >>
Value(of, as) == << <<"value", of, as>> >>

\* A string or number that is nobody's datum.
Own == <<"text", "own", 1>>
Plain == Value(Own, "")

\* A key with such a value.
Field(k) == Key(k) \o Plain

Optional(shown, text) == IF shown THEN text ELSE <<>>

\* The parts one after the other, a comma before each but the first.
Listed(parts) ==
    FlattenSeq([i \in DOMAIN parts |-> Optional(i > 1, Comma) \o parts[i]])

-------------------------------------------------------------------------------

\* What a string contains: nothing that needs escaping, something that does, JSON itself.
Content == {"plain", "quotes", "json"}

\* A string between quotes, without escaping; a string as it is.
Quoted(content, of) == IF content = "plain" THEN Value(of, "") ELSE Broken
Bare(content, of) == IF content = "json" THEN Value(of, "") ELSE Broken

-------------------------------------------------------------------------------

\* What a reader may meet next, innermost first: "value" one value, "first key" a key or the
\* end of the object, "key" a key, "member" a comma or the end of the object, "first element"
\* a value or the end of the array, "element" a comma or the end of the array.
Stuck == <<"stuck">>

\* The expectations left once a value begins.
Started(expected) ==
    CASE expected[1] = "value" -> Tail(expected)
      [] expected[1] = "first element" -> <<"element">> \o Tail(expected)
      [] OTHER -> Stuck

Opened(expected, inner) ==
    IF Started(expected) = Stuck THEN Stuck ELSE <<inner>> \o Started(expected)

Closed(expected, from) == IF expected[1] \in from THEN Tail(expected) ELSE Stuck

Read(expected, token) ==
    IF expected = <<>> \/ expected = Stuck THEN Stuck
    ELSE CASE token[1] = "value" -> Started(expected)
           [] token[1] = "{" -> Opened(expected, "first key")
           [] token[1] = "[" -> Opened(expected, "first element")
           [] token[1] = "}" -> Closed(expected, {"first key", "member"})
           [] token[1] = "]" -> Closed(expected, {"first element", "element"})
           [] token[1] = "key" /\ expected[1] \in {"first key", "key"} ->
                 <<"value", "member">> \o Tail(expected)
           [] token[1] = "," /\ expected[1] = "member" -> <<"key">> \o Tail(expected)
           [] token[1] = "," /\ expected[1] = "element" -> <<"value">> \o expected
           [] OTHER -> Stuck

IsJson(text) == FoldLeft(Read, <<"value">>, text) = <<>>

===============================================================================
