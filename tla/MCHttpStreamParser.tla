---- MODULE MCHttpStreamParser ----
\* Responses in the three framings, with the three line ends, cut into chunks in every way; some malformed.
EXTENDS HttpStreamParser

K(kind) == [kind |-> kind]
N(kind, n) == [kind |-> kind, n |-> n]
Data(v) == [kind |-> "data", v |-> v]
CRLF == <<CR, LF>>
\* One event of two lines, a comment, another field and an event of one line.
Body(e) == <<Data(1)>> \o e \o <<Data(2)>> \o e \o e \o <<K("comment")>> \o e \o <<K("field")>> \o e \o <<Data(3)>> \o e \o e
Events == <<<<1, 2>>, <<3>>>>
Heading(headers) == <<K("status")>> \o CRLF \o FlattenSeq([i \in DOMAIN headers |-> <<headers[i]>> \o CRLF]) \o CRLF
Chunk(bytes) == <<N("size", Len(bytes))>> \o CRLF \o bytes \o CRLF
Trailer == <<N("size", 0)>> \o CRLF \o <<K("header")>> \o CRLF \o CRLF
LineEnds == {<<CR>>, <<LF>>, CRLF}
Cut(body, i, j) == Chunk(SubSeq(body, 1, i)) \o Chunk(SubSeq(body, i + 1, j)) \o Chunk(SubSeq(body, j + 1, Len(body)))
MCReplies ==
    {[bytes |-> Heading(<<N("length", Len(Body(e))), K("header")>>) \o Body(e) \o <<Data(4)>>, events |-> Events] : e \in LineEnds}
    \cup {[bytes |-> Heading(<<>>) \o Body(e), events |-> Events] : e \in LineEnds}
    \cup {[bytes |-> Heading(<<K("header"), K("chunked")>>) \o Cut(Body(e), c[1], c[2]) \o Trailer, events |-> Events]
            : e \in LineEnds, c \in {d \in (1..15) \X (2..15) : d[1] < d[2] /\ d[2] < 11}}
    \cup {[bytes |-> b, events |-> <<>>]
            : b \in {Heading(<<K("bad")>>), Heading(<<N("length", 0)>>), <<K("bad")>> \o CRLF,
                     Heading(<<K("chunked")>>) \o <<K("bad")>> \o CRLF \o <<Data(1)>>,
                     Heading(<<K("chunked")>>) \o <<N("size", 1)>> \o CRLF \o <<Data(1), Data(2)>> \o CRLF}}
==============================================================================
