------------------------------ MODULE HttpParser ------------------------------
(***************************************************************************)
(* The HTTP parser of websocketpp (http/parser.hpp, http/impl/parser.hpp,  *)
(* http/impl/request.hpp): how the request of a handshake is read from     *)
(* buffers that may end anywhere, and how the lists in its headers are     *)
(* taken apart. A text is a sequence of symbols: a symbol is a character   *)
(* or a word of which the parser never sees a part, whatever its case;     *)
(* sizes count symbols. Positions stand for iterators.                     *)
(***************************************************************************)
EXTENDS Naturals, Sequences, SequencesExt

CONSTANTS
    MaxHeader,   \* max_header_size
    MaxBody      \* m_body_bytes_max

ASSUME HttpAssumption == {MaxHeader, MaxBody} \subseteq Nat

\* is_whitespace_char, is_not_token_char
Whitespace == {" "}
Separator == Whitespace \cup {"CR", "LF", ",", ";", "=", ":", "\"", "\\", "[", "]", "/"}

\* The words that are numbers, and a word as strtoul and atoi read it.
Numeral == [n \in {"0", "1", "2", "3", "5", "7", "8", "13", "80", "81", "65535", "65536"} |->
    CASE n = "0" -> 0 [] n = "1" -> 1 [] n = "2" -> 2 [] n = "3" -> 3 [] n = "5" -> 5
      [] n = "7" -> 7 [] n = "8" -> 8 [] n = "13" -> 13 [] n = "80" -> 80 [] n = "81" -> 81
      [] n = "65535" -> 65535 [] n = "65536" -> 65536]
StartsWithNumber(s) == s # <<>> /\ s[1] \in DOMAIN Numeral
Number(s) == IF StartsWithNumber(s) THEN Numeral[s[1]] ELSE 0

\* The first position from i on where the symbol is one of set, or the end.
FirstIn(s, i, set) == Min({j \in i..Len(s) : s[j] \in set} \cup {Len(s) + 1})
FirstNotIn(s, i, set) == Min({j \in i..Len(s) : s[j] \notin set} \cup {Len(s) + 1})

\* What a loop has made of start after n rounds.
Loop(round(_), start, n) ==
    LET after[i \in 0..n] == IF i = 0 THEN start ELSE round(after[i - 1]) IN after[n]

-------------------------------------------------------------------------------
(* The pieces of a header's value. Each reads from position i and says what *)
(* it read and where it stopped.                                            *)

extract_token(s, i) ==
    LET end == FirstIn(s, i, Separator) IN [text |-> SubSeq(s, i, end - 1), at |-> end]

\* A quote behind a backslash is part of the string and loses the backslash; a string that
\* does not end has not begun.
extract_quoted_string(s, i) ==
    LET Escaped(j) == s[j] = "\"" /\ s[j - 1] = "\\"
        closing == {j \in i + 1..Len(s) : s[j] = "\"" /\ ~Escaped(j)}
        shown(j) == SelectSeq([k \in 1..j - i - 1 |-> i + k],
                              LAMBDA k : ~(k + 1 < j /\ Escaped(k + 1)))
    IN IF i > Len(s) \/ s[i] # "\"" \/ closing = {} THEN [text |-> <<>>, at |-> i]
       ELSE LET j == Min(closing)
            IN [text |-> [k \in DOMAIN shown(j) |-> s[shown(j)[k]]], at |-> j + 1]

extract_lws(s, i) ==
    LET folded == i + 2 <= Len(s) /\ s[i] = "CR" /\ s[i + 1] = "LF" /\ s[i + 2] \in Whitespace
    IN FirstNotIn(s, IF folded THEN i + 3 ELSE i, Whitespace)

extract_all_lws(s, i) ==
    LET from[j \in 1..Len(s) + 1] ==
            LET next == extract_lws(s, j)
            IN IF next = j \/ next > Len(s) THEN next ELSE from[next]
    IN from[i]

strip_lws(s) ==
    LET begin == extract_all_lws(s, 1)
        rbegin == extract_all_lws(Reverse(s), 1)
    IN IF begin > Len(s) THEN <<>> ELSE SubSeq(s, begin, Len(s) + 1 - rbegin)

\* What is read behind the name of an attribute: a value if a sign follows, and at = 0 for an
\* error.
ChooseValue(i, quoted, token) ==
    CASE quoted.at # i -> quoted
      [] quoted.at = i /\ token.at # i -> token
      [] OTHER -> [text |-> <<>>, at |-> 0]
ValueAt(s, i) == ChooseValue(i, extract_quoted_string(s, i), extract_token(s, i))
AttributeValue(s, sign) ==
    IF sign > Len(s) \/ s[sign] # "=" THEN [text |-> <<>>, at |-> sign]
    ELSE ValueAt(s, extract_all_lws(s, sign + 1))

\* A round of the loop of extract_attributes: *( ";" attribute "=" value ), the first without
\* its semicolon; back at begin after an error. r is [at, first, attributes, over].
AfterValue(s, begin, r, name, value) ==
    IF value.at = 0 THEN [r EXCEPT !.at = begin, !.over = TRUE]
    ELSE [r EXCEPT !.at = extract_all_lws(s, value.at), !.first = FALSE,
                   !.attributes = (name :> value.text) @@ @]
AfterName(s, begin, r, name) ==
    IF name.text = <<>> THEN [r EXCEPT !.at = begin, !.over = TRUE]
    ELSE AfterValue(s, begin, r, name.text, AttributeValue(s, extract_all_lws(s, name.at)))
NextAttribute(s, begin, r) ==
    IF r.over \/ r.at > Len(s) \/ (~r.first /\ s[r.at] # ";") THEN [r EXCEPT !.over = TRUE]
    ELSE AfterName(s, begin, r,
                   extract_token(s, extract_all_lws(s, IF r.first THEN r.at ELSE r.at + 1)))

extract_attributes(s, i) ==
    Loop(LAMBDA r : NextAttribute(s, i, r),
         [at |-> extract_all_lws(s, i), first |-> TRUE, attributes |-> <<>>, over |-> FALSE], Len(s))

\* A token with its attributes; at = 0 for an error.
WithAttributes(name, begin, attrs) ==
    [at |-> IF attrs.at = begin THEN 0 ELSE attrs.at,
     parameter |-> [name |-> name, attributes |-> attrs.attributes]]
Parameter(s, name, after) ==
    IF after <= Len(s) /\ s[after] = ";"
    THEN WithAttributes(name, after + 1, extract_attributes(s, after + 1))
    ELSE [at |-> after, parameter |-> [name |-> name, attributes |-> <<>>]]

\* A round of the loop of extract_parameters: tokens with their attributes, between commas;
\* back at the first position after an error. r is [at, parameters, over].
Stop(r, at) == [r EXCEPT !.at = at, !.over = TRUE]
AfterParameter(s, r, next) ==
    CASE next > Len(s) \/ s[next] # "," -> Stop(r, next)
      [] next = Len(s) -> Stop(r, 1)
      [] OTHER -> [r EXCEPT !.at = extract_all_lws(s, next + 1)]
WithParameter(s, r, read) ==
    IF read.at = 0 THEN Stop(r, 1)
    ELSE AfterParameter(s, [r EXCEPT !.parameters = Append(@, read.parameter)],
                        extract_all_lws(s, read.at))
AfterToken(s, r, name) ==
    IF name.text = <<>> THEN Stop(r, 1)
    ELSE WithParameter(s, r, Parameter(s, name.text, extract_all_lws(s, name.at)))
NextParameter(s, r) ==
    IF r.over \/ r.at > Len(s) THEN Stop(r, r.at) ELSE AfterToken(s, r, extract_token(s, r.at))

extract_parameters(s) ==
    Loop(LAMBDA r : NextParameter(s, r),
         [at |-> extract_all_lws(s, 1), parameters |-> <<>>, over |-> FALSE], Len(s))

\* get_header_as_plist: an empty header is an empty list.
PlistOf(list) == [error |-> list.at = 1, parameters |-> list.parameters]
ParameterList(value) ==
    IF value = <<>> THEN [error |-> FALSE, parameters |-> <<>>]
    ELSE PlistOf(extract_parameters(value))

-------------------------------------------------------------------------------
(* The request. *)

\* error is the status of the exception consume threw, 0 for none; processed is what the last
\* consume returned.
NewRequest ==
    [buf |-> <<>>, method |-> <<>>, uri |-> <<>>, version |-> <<>>, headers |-> <<>>,
     header_bytes |-> 0, body |-> <<>>, needed |-> 0, ready |-> FALSE,
     error |-> 0, processed |-> 0]

get_header(r, key) == IF <<key>> \in DOMAIN r.headers THEN r.headers[<<key>>] ELSE <<>>

replace_header(r, key, value) == [r EXCEPT !.headers = (<<key>> :> value) @@ @]

Failed(r, status) == [r EXCEPT !.error = status]

\* Mutant of append_header: a header given twice keeps its last value.
ReplacedHeader(r, key, value) ==
    IF FirstIn(key, 1, Separator) <= Len(key) THEN Failed(r, 400)
    ELSE [r EXCEPT !.headers = (key :> value) @@ @]

\* A header given more than once is the list of its values.
append_header(r, key, value) ==
    LET old == IF key \in DOMAIN r.headers THEN r.headers[key] ELSE <<>>
    IN IF FirstIn(key, 1, Separator) <= Len(key) THEN Failed(r, 400)
       ELSE [r EXCEPT !.headers =
                (key :> (IF old = <<>> THEN value ELSE old \o <<",", " ">> \o value)) @@ @]

process_header(r, line) ==
    LET colon == FirstIn(line, 1, {":"})
    IN IF colon > Len(line) THEN Failed(r, 400)
       ELSE append_header(r, strip_lws(SubSeq(line, 1, colon - 1)),
                             strip_lws(SubSeq(line, colon + 1, Len(line))))

\* The request line.
process(r, line) ==
    LET first == FirstIn(line, 1, {" "})
        second == FirstIn(line, first + 1, {" "})
        method == SubSeq(line, 1, first - 1)
    IN IF \/ first > Len(line) \/ second > Len(line)
          \/ FirstIn(method, 1, Separator) <= Len(method)
       THEN Failed(r, 400)
       ELSE [r EXCEPT !.method = method, !.uri = SubSeq(line, first + 1, second - 1),
                      !.version = SubSeq(line, second + 1, Len(line))]

process_body(r, data) ==
    LET taken == Min({r.needed, Len(data)})
    IN [r EXCEPT !.body = @ \o SubSeq(data, 1, taken), !.needed = @ - taken,
                 !.ready = r.needed = taken, !.processed = @ + taken]

\* Whatever the request is for; a chunked body is not read.
prepare_body(r) == Number(get_header(r, "Content-Length"))

\* The blank line: the body begins with what is left of the buffer.
EndOfHead(r, rest, length) ==
    LET needed == prepare_body(r)
    IN CASE r.method = <<>> \/ get_header(r, "Host") = <<>> -> Failed(r, 400)
         [] OTHER ->
             IF needed > MaxBody THEN Failed(r, 413)
             ELSE process_body([r EXCEPT !.buf = <<>>, !.needed = needed,
                                         !.processed = length - Len(rest)], rest)

\* Mutant of Counted: the bytes that wait for the end of their line are counted again.
CountedAgain(r, line, whole) == r.header_bytes + Len(line) + 3

\* m_header_bytes after a line, or after the last bytes of a buffer that have no line end:
\* those bytes are subtracted again, the size of the delimiter with its zero is not.
Counted(r, line, whole) == r.header_bytes + (IF whole THEN Len(line) ELSE 0) + 3

\* A round of the loop of consume over the lines of m_buf, length bytes of which are new.
ConsumeLine(r, length) ==
    LET end == Min({i \in 1..Len(r.buf) - 1 : r.buf[i] = "CR" /\ r.buf[i + 1] = "LF"}
                   \cup {Len(r.buf) + 1})
        line == SubSeq(r.buf, 1, end - 1)
        rest == SubSeq(r.buf, end + 2, Len(r.buf))
        found == end <= Len(r.buf)
        counted == [r EXCEPT !.header_bytes = Counted(r, line, found)]
        processed == [(IF r.method = <<>> THEN process(counted, line)
                       ELSE process_header(counted, line)) EXCEPT !.buf = rest]
    IN CASE r.header_bytes + Len(line) + 3 > MaxHeader -> [request |-> Failed(r, 431), over |-> TRUE]
         [] OTHER ->
             CASE ~found -> [request |-> [counted EXCEPT !.processed = length], over |-> TRUE]
               [] line = <<>> -> [request |-> EndOfHead(counted, rest, length), over |-> TRUE]
               [] OTHER -> [request |-> processed, over |-> processed.error # 0]
ConsumeLines(r, length) ==
    Loop(LAMBDA c : IF c.over THEN c ELSE ConsumeLine(c.request, length),
         [request |-> r, over |-> FALSE], Len(r.buf) + 1).request

\* request::consume of a buffer.
consume(r, data) ==
    CASE r.ready -> [r EXCEPT !.processed = 0]
      [] ~r.ready /\ r.needed > 0 -> process_body([r EXCEPT !.processed = 0], data)
      [] OTHER -> ConsumeLines([r EXCEPT !.buf = @ \o data], Len(data))

===============================================================================
