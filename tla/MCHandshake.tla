----------------------------- MODULE MCHandshake -----------------------------
(***************************************************************************)
(* An instance of Handshake and Sending: requests that are right and       *)
(* requests with one thing wrong or unusual, what may follow them, and     *)
(* what is sent behind two of them.                                        *)
(***************************************************************************)
EXTENDS Sending

GET == <<"GET", " ", "/", " ", "HTTP/1.1">>
Line(key, value) == <<key, ":", " ">> \o value
Host == Line("Host", <<"a">>)
Upgrade == <<Line("Upgrade", <<"websocket">>), Line("Connection", <<"Upgrade">>)>>
Key == Line("Sec-WebSocket-Key", <<"k">>)
Version(v) == <<Line("Sec-WebSocket-Version", <<v>>)>>

\* A request of version 13 with two bytes of a frame behind it.
Right ==
    [head |-> <<GET, Host>> \o Upgrade \o Version("13") \o <<Key>>,
     after |-> <<"x", "y">>, whole |-> TRUE, port |-> TRUE, extensions |-> TRUE,
     protocols |-> <<>>, keys |-> <<0, 0>>, messages |-> <<>>, broken |-> FALSE]

\* With some line changed, or lines more.
With(i, line) == [Right EXCEPT !.head[i] = line]
More(lines) == [Right EXCEPT !.head = @ \o lines]

RequestLines ==
    {With(1, line) : line \in {
        <<"POST", " ", "/", " ", "HTTP/1.1">>, <<"GET", " ", "/", " ", "HTTP/1.0">>,
        <<"GET", " ", "/">>, <<"GET">>, <<"G", "=", " ", "/", " ", "HTTP/1.1">>}}

HeaderLines ==
    {With(6, line) : line \in {
        <<"Sec-WebSocket-Key">>, <<"a", " ", "b", ":", "k">>, <<" ", "Sec-WebSocket-Key", " ", ":", "k", " ">>,
        <<"Sec-WebSocket-Key", ":", " ">>, <<"Sec-WebSocket-Key", ":", "k", " ", "CR">>}}
    \cup {[Right EXCEPT !.head = <<>>], [Right EXCEPT !.whole = FALSE]}

Hosts ==
    {With(2, Line("Host", host)) : host \in {
        <<>>, <<"a", ":", "81">>, <<"a", ":">>, <<"[", ":", "]">>, <<"[", ":", "]", ":", "65535">>}}
    \cup {[With(2, Line("Host", host)) EXCEPT !.port = FALSE] : host \in {
        <<"a", ":", "0">>, <<"a", ":", "65536">>, <<"a", ":", "b">>}}

Versions13 == {With(5, Version(v)[1]) : v \in {"7", "8", "3", "x"}}

NoUpgrade ==
    {With(3, Line("Upgrade", <<"h2c">>)),
     [With(3, Line("Upgrade", <<"h2c">>)) EXCEPT !.head[2] = Line("Host", <<"a", ":", "0">>), !.port = FALSE],
     With(4, Line("Connection", <<"keep-alive">>)),
     [With(4, Line("Connection", <<"keep-alive">>)) EXCEPT !.head = @ \o <<Line("Connection", <<"Upgrade">>)>>],
     More(<<Line("Connection", <<"keep-alive">>)>>),
     [With(3, Line("Upgrade", <<>>)) EXCEPT !.head = @ \o <<Line("Upgrade", <<"websocket">>)>>]}

Bodies ==
    {[More(<<Line("Content-Length", <<size>>)>>) EXCEPT !.after = <<"b", "b">> \o frame] :
        size \in {"0", "1", "2", "3", "5"}, frame \in {<<>>, <<"x", "y">>}}

\* Lists that are right, with what they list, and lists that are not.
Lists == {
    <<<<"p">>, << <<"p">> >> >>,
    << <<"p", ",", "q">>, << <<"p">>, <<"q">> >> >>,
    << <<"p", ";", "b", " ", ",", " ", "q">>, << <<"p">>, <<"q">> >> >>,
    << <<"p", ";", "b", "=", "\"", "c", "\\", "\"", ",", "\"", ",", "q">>, << <<"p">>, <<"q">> >> >>,
    << <<"p", ";", "b", "=", "c", ";", "d">>, << <<"p">> >> >>}
BadLists == {
    <<",", "p">>, <<"p", ",">>, <<"p", ";">>, <<"p", ";", "=">>, <<"p", ";", "b", "=">>,
    <<"p", ";", "b", "=", "\"", "c">>}

Protocols ==
    {[More(<<Line("Sec-WebSocket-Protocol", list[1])>>) EXCEPT !.protocols = list[2]] : list \in Lists}
    \cup {More(<<Line("Sec-WebSocket-Protocol", list)>>) : list \in BadLists}
    \cup {[More(<<Line("Sec-WebSocket-Protocol", <<"p">>), Line("Sec-WebSocket-Protocol", <<"q">>)>>)
            EXCEPT !.protocols = << <<"p">>, <<"q">> >>]}

Extensions ==
    {More(<<Line("Sec-WebSocket-Extensions", list[1])>>) : list \in Lists}
    \cup {[More(<<Line("Sec-WebSocket-Extensions", list)>>) EXCEPT !.extensions = FALSE] : list \in BadLists}

\* Heads about as large as the limit.
Filler(n) == [i \in 1..n |-> "f"]
Long == {More(<<Line("X", Filler(n))>>) : n \in {MaxHeader - 65, MaxHeader - 55, MaxHeader - 52, MaxHeader - 51}}

\* Version 0: two keys, the third behind the request, then the messages.
Key3 == <<"1", "2", "3", "4", "5", "6", "7", "8">>
Old ==
    [Right EXCEPT
        !.head = <<GET, Host>> \o Upgrade \o
            <<Line("Sec-WebSocket-Key1", <<"1", "x", "2">>), Line("Sec-WebSocket-Key2", <<"2", " ", "z", " ", "0">>)>>,
        !.keys = <<0, 10>>]
OldKeys ==
    [Old EXCEPT !.head[5] = Line("Sec-WebSocket-Key1", <<"1", "x", " ", "2">>), !.keys = <<12, 10>>]

Old00 ==
    {[OldKeys EXCEPT !.after = Key3 \o a[1], !.messages = a[2], !.broken = a[3]] : a \in {
        << <<>>, <<>>, FALSE>>,
        << <<"00", "m", "n", "ff", "00", "ff">>, << <<"m", "n">>, <<>> >>, FALSE>>,
        << <<"00", "m", "ff", "ff", "00">>, << <<"m">> >>, TRUE>>,
        << <<"m">>, <<>>, TRUE>>}}
    \cup {[Old EXCEPT !.after = Key3],
          [Old EXCEPT !.after = SubSeq(Key3, 1, 7)],
          [Old EXCEPT !.after = Key3, !.head[6] = Line("Sec-WebSocket-Key2", <<>>)]}

AllSent == {Right} \cup RequestLines \cup HeaderLines \cup Hosts \cup Versions13 \cup NoUpgrade
           \cup Bodies \cup Protocols \cup Extensions \cup Long \cup Old00

\* What is sent: behind a short request of version 13 and one of version 0.
Talkers == {[Right EXCEPT !.after = <<>>], [OldKeys EXCEPT !.after = Key3]}
SomeCodes == {0, 999, 1000, 1001, 1003, 1004, 1005, 1006, 1015, 1016, 2999, 3000, 4999, 5000}
EverySent == AllSent \cup Talkers

=============================================================================
