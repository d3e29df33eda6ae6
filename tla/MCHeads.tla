------------------------------- MODULE MCHeads -------------------------------
(* What clients send on one connection, in the tokens of RequestHead *)
EXTENDS Sequences, SequencesExt

LOCAL Ends == <<<<"r">>, <<"n">>>>
LOCAL L(method, uri, version) == <<"line", method, uri, version>>
LOCAL F(name, value) == <<"field", name, value>>
LOCAL Req(lines) == FlattenSeq([i \in DOMAIN lines |-> <<lines[i]>> \o Ends]) \o Ends
LOCAL Data(n) == [i \in 1 .. n |-> <<"x">>]
LOCAL Chunk == Data(1) \o <<<<"0">>>> \o Ends \o Ends
LOCAL Get == L("GET", "/", "HTTP/1.1")
LOCAL Post == L("POST", "/", "HTTP/1.1")
LOCAL Put == L("PUT", "/", "HTTP/1.1")
LOCAL H == F("Host", "h")
LOCAL G == F("Host", "g")
LOCAL Length(n) == F("Content-Length", n)
LOCAL Coding(n) == F("Transfer-Encoding", n)

Heads == {
  \* requests one after another, with and without a body; an empty line is left of the first
  Req(<<Post, H, Length("3")>>) \o Data(3) \o Req(<<Get, G>>),
  Req(<<Post, H, Length("1")>>) \o Data(1) \o Ends \o Req(<<Get, G>>),
  Req(<<Put, H, Coding("chunked"), Length("1")>>) \o Chunk \o Req(<<Get, H>>),
  Req(<<Get, G>>) \o Req(<<L("POST", "/", "HTTP/1.0"), Length("0"), F("Connection", "keep-alive")>>)
    \o Req(<<L("GET", "/", "HTTP/1.0")>>) \o Req(<<Get, H>>),
  Req(<<L("GET", "http://h/", "HTTP/1.1"), G>>) \o Req(<<Get, F("Connection", "close"), H>>) \o Req(<<Get, H>>),
  \* fields that come twice
  Req(<<Post, H, Length("1"), Length("1")>>) \o Data(1),
  Req(<<Get, H, G>>),
  Req(<<Get, F("If-Modified-Since", "a"), F("If-Modified-Since", "a"), H>>) \o
    Req(<<Get, H, F("If-Modified-Since", "a"), F("If-Modified-Since", "b")>>),
  Req(<<Get, H, F("If-None-Match", "a"), F("If-None-Match", "b"), F("X", "a"), F("X", "b")>>) \o
    Req(<<Get, H, F("Range", "bytes=0-"), F("Range", "bytes=0-")>>),
  Req(<<Get, H, F("Content-Type", "a")>>) \o Req(<<Get, H, F("Content-Type", "a"), F("Content-Type", "b")>>),
  Req(<<Put, H, Coding("chunked"), Coding("chunked")>>) \o Chunk,
  \* values that go on, and empty ones
  Req(<<Get, H, F("X", ""), F("X", "a"), <<"fold", "b">>>>) \o Req(<<Get, H, <<"fold", "b">>>>),
  Req(<<Get, <<"fold", "b">>, H>>), Req(<<Put, H, Coding("chunked"), <<"fold", "b">>>>),
  \* what is not allowed
  Req(<<Post, H>>), Req(<<Get, H, Length("1")>>), Req(<<Post, H, Length("y")>>) \o Data(1),
  Req(<<Get>>), Req(<<Get, F("Host", "..")>>), Req(<<L("BREW", "/", "HTTP/1.1")>>),
  Req(<<L("GET", "x", "HTTP/1.1"), H>>), Req(<<L("GET", "/", "HTTP/1.x"), H>>),
  Req(<<L("GET", "/", "HTTP/2.0"), H>>) \o Req(<<Get, H>>),
  Req(<<L("PUT", "/", "HTTP/1.0"), Coding("chunked")>>) \o Chunk, Req(<<Put, H, Coding("gzip")>>),
  Ends \o Req(<<Get, H>>), Data(2) \o Ends \o Ends,
  \* an LF without its CR, a CR without its LF, too much
  <<Get, <<"n">>, H, <<"n">>, <<"n">>>> \o Req(<<Get, H>>),
  <<Get>> \o Ends \o <<H, <<"r">>>> \o Ends \o Ends,
  <<Get>> \o Ends \o <<H, <<"n">>>> \o Ends \o Ends,
  Req(<<Get, H>> \o [i \in 1 .. 4 |-> F("X", "a")]), Req(<<Get>>) \o Req(<<Get, H>>)}

=============================================================================
