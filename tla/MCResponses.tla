------------------------------ MODULE MCResponses ------------------------------
(* Data of every type class and format, with dimensions of 0 to 2; lists of two names and *)
(* groups of two devices are tried with a few of them.                                    *)
EXTENDS Responses

D(type, format, quality, content, dimX, dimY, set) ==
    [type |-> type, format |-> format, quality |-> quality, content |-> content,
     dimX |-> dimX, dimY |-> dimY, set |-> set]

\* What dimY of a SPECTRUM may happen to hold, the least int among them.
Garbage == {-IntMax - 1, -1, 0, 1, 2}

MCDatum ==
    {D(t, "SCALAR", "VALID", c, 1, 1, s) : t \in DatumType, c \in Content, s \in {0, 1}}
      \cup {D(t, "SCALAR", "ALARM", "plain", 1, 1, 1) : t \in DatumType}
      \cup {D(t, "SPECTRUM", "VALID", "plain", x, y, s) :
              t \in {"number", "float", "string", "uchar"}, x \in 0..2, y \in Garbage, s \in 0..1}
      \cup {D(t, "IMAGE", "ALARM", "plain", x, y, s) :
              t \in {"number", "float", "string", "uchar"}, x \in 1..2, y \in 0..2, s \in {0, 2}}
      \cup {D(t, "SPECTRUM", "VALID", "quotes", 2, 0, 0) : t \in {"float", "string"}}
      \cup {D("float", "UNKNOWN", "VALID", "plain", 1, 1, 0),
            D("number", "SCALAR", "INVALID", "plain", 1, 1, 0)}

MCFewData == {D("float", "SCALAR", "ALARM", "plain", 1, 1, 1), D("float", "IMAGE", "VALID", "plain", 2, 1, 1),
              D("number", "SCALAR", "INVALID", "plain", 1, 1, 0)}

MCCommandData ==
    [type : CommandType, content : Content, count : {0, 2}]

El(n, kind, content) == [name |-> n, kind |-> kind, content |-> content]

\* Pipes of up to three elements, the n-th of the n-th name.
MCPipe ==
    LET names == SetToSeq(Attr)
        kinds(n) == [1..n -> {"float", "string", "floats", "state", "unsupported"}]
    IN  UNION {{[i \in 1..n |-> El(names[i], k[i], "plain")] : k \in kinds(n)} : n \in 0..Len(names)}
          \cup {<<El(names[1], k, c)>> : k \in {"float", "string", "number", "void"}, c \in Content}

MCFewPipes ==
    LET names == SetToSeq(Attr)
    IN  {<<El(names[1], "float", "plain")>>,
         <<El(names[1], "floats", "plain"), El(names[2], "unsupported", "plain"), El(names[3], "float", "plain")>>,
         <<El(names[1], "void", "plain"), El(names[2], "state", "plain")>>}

o1 == CHOOSE o \in Option : TRUE
o2 == CHOOSE o \in Option : o # o1
a1 == SetToSeq(Attr)[1]
a2 == SetToSeq(Attr)[2]

Suffix == {<<>>, <<o1>>, <<Niter, o2>>, <<o2, o1>>}

MCAsked == {<<Named(a1, s)>> : s \in Suffix}
             \cup {<<Named(a1, s), Named(a2, t)>> : s \in Suffix, t \in {<<>>, <<o1>>}}
             \cup {<<Named(a1, <<o2>>), Named(a1, t)>> : t \in {<<>>, <<o1>>}}

MCPrecisions == {NONE, VALUE(o2), ARRAY(<<o1>>), ARRAY(<<o1, o2>>), ARRAY(<<>>),
                 OBJECT([n \in {a1} |-> o2]), OBJECT([n \in {a1, a2} |-> IF n = a1 THEN o1 ELSE o2])}

C(o, a, p) == [old |-> o, attributes |-> a, pipe |-> p]
LongPipe == <<Named(a2, <<o1>>), Named(a1, <<o2>>), Named(a1, <<o1>>)>>

MCConfigs == {C(FALSE, <<>>, <<Named(a2, <<>>)>>),
              C(TRUE, <<Named(a1, <<o1>>)>>, <<>>),
              C(FALSE, <<Named(a1, <<>>), Named(a2, <<Niter, o1>>)>>, LongPipe),
              C(TRUE, <<Named(a1, <<o2>>), Named(a2, <<>>), Named(a1, <<o1>>)>>, <<>>),
              C(FALSE, <<Named(a2, <<>>), Named(a2, <<o2>>)>>, LongPipe),
              C(TRUE, <<Named(AllAttrs, <<>>)>>, LongPipe),
              C(FALSE, <<Named(AllAttrs, <<>>), Named(a1, <<o1>>)>>, <<>>)}

===============================================================================
