---- MODULE HttpStreamParser ----
\* HttpStreamParser and SseLineSplitter (src/http_stream_parser.cpp) under reads that cut a response
\* anywhere. A response is a sequence of symbols: "CR", "LF", and pieces of a line, each a record. What a
\* piece says is its kind: "status", "chunked", "length" (n), "header", "bad", "size" (n), "data" (v), "field"
\* or "comment"; the bytes of a body are the CR, LF and data symbols. A line longer than one piece is
\* accumulated the same way as its CR, so one piece a line is enough.
EXTENDS Naturals, Sequences, SequencesExt
CONSTANTS Replies,    \* the responses: [bytes, events], what is sent and the events it stands for
          Unlimited,  \* size_t(-1): the greatest length, which stands for none
          MaxRead     \* symbols of one read

CR == [kind |-> "CR"]
LF == [kind |-> "LF"]
Empty == [kind |-> "empty"]
Pieces == [kind : {"status", "chunked", "header", "bad", "field", "comment"}]
          \cup [kind : {"length", "size"}, n : 0..Unlimited] \cup [kind : {"data"}, v : Nat]
Symbols == {CR, LF} \cup Pieces

ASSUME ParserAssumption == /\ Unlimited \in Nat \ {0} /\ MaxRead \in Nat
                           /\ \A r \in Replies : r.bytes \in Seq(Symbols)

VARIABLES response, pos, \* the response, and how much of it was read
          parser,        \* HttpStreamParser's members, and what its sink got
          sse            \* SseLineSplitter's members, and the events it delivered
parserVars == <<response, pos, parser, sse>>

NewParser == [state |-> "StatusLine", pending |-> <<>>, content |-> 0, chunk |-> 0, chunked |-> FALSE,
              hasLength |-> FALSE]
NewSse == [line |-> <<>>, data |-> <<>>, haveData |-> FALSE, expectLf |-> FALSE, events |-> <<>>]

-----------------------------------------------------------------------------
\* SseLineSplitter.

FlushEvent(s) == IF ~s.haveData THEN s
                 ELSE [s EXCEPT !.events = Append(@, s.data), !.data = <<>>, !.haveData = FALSE]
\* A line is empty, a data field, another field or a comment.
ProcessLine(s) ==
    LET t == IF s.line = <<>> THEN FlushEvent(s)
             ELSE IF s.line[1].kind = "data" THEN [s EXCEPT !.data = Append(@, s.line[1].v), !.haveData = TRUE]
             ELSE s
    IN [t EXCEPT !.line = <<>>]
\* A line ends with CR, LF or both; the LF after a CR may come with the next call. Mutant: it may not.
SseByte(s, c) == IF c = CR THEN [ProcessLine(s) EXCEPT !.expectLf = TRUE]
                 ELSE IF c = LF /\ s.expectLf THEN [s EXCEPT !.expectLf = FALSE]
                 ELSE IF c = LF THEN ProcessLine(s)
                 ELSE [s EXCEPT !.line = Append(@, c), !.expectLf = FALSE]
SseFeedFresh(s, bytes) ==
    LET fed[i \in 0..Len(bytes)] == IF i = 0 THEN [s EXCEPT !.expectLf = FALSE] ELSE SseByte(fed[i - 1], bytes[i])
    IN fed[Len(bytes)]
SseFeed(s, bytes) == LET fed[i \in 0..Len(bytes)] == IF i = 0 THEN s ELSE SseByte(fed[i - 1], bytes[i])
                     IN fed[Len(bytes)]

-----------------------------------------------------------------------------
\* HttpStreamParser. Each consume step takes the parser and the bytes left, and gives both back with the
\* bytes for the sink. One that returns false has used the bytes up or failed, and either ends the loop.

Result(p, bytes, body) == [p |-> p, bytes |-> bytes, body |-> body]

\* The line is what stands before the LF, pending bytes first, without one CR. Mutant: pending lines keep it.
WithoutCR(line) == IF line # <<>> /\ Last(line) = CR THEN Front(line) ELSE line
FirstLF(bytes) == CHOOSE i \in DOMAIN bytes : bytes[i] = LF /\ \A j \in 1..i - 1 : bytes[j] # LF
WholeLineFast(pending, here) == IF pending = <<>> THEN WithoutCR(here) ELSE pending \o WithoutCR(here)
WholeLine(pending, here) == WithoutCR(pending \o here)

To(p, state) == [p EXCEPT !.state = state]

StatusLine(p, l) == To(p, IF l.kind = "status" THEN "Headers" ELSE "Error")
\* The blank line decides the framing: chunked before a length, and neither means until the close. Twice the
\* same header: the last length counts.
HeaderLine(p, l) ==
    CASE l = Empty /\ p.chunked -> To(p, "BodyChunkSize")
      [] l = Empty /\ ~p.chunked /\ p.hasLength -> To(p, IF p.content = 0 THEN "Done" ELSE "BodyLength")
      [] l = Empty /\ ~p.chunked /\ ~p.hasLength -> [To(p, "BodyLength") EXCEPT !.content = Unlimited]
      [] l.kind = "chunked" -> [p EXCEPT !.chunked = TRUE]
      [] l.kind = "length" -> [p EXCEPT !.hasLength = TRUE, !.content = l.n]
      [] l.kind = "header" -> p
      [] OTHER -> To(p, "Error")
SizeLine(p, l) == IF l.kind # "size" THEN To(p, "Error")
                  ELSE [To(p, IF l.n = 0 THEN "BodyTrailer" ELSE "BodyChunkData") EXCEPT !.chunk = l.n]
TailLine(p, l) == To(p, IF l = Empty THEN "BodyChunkSize" ELSE "Error")
TrailerLine(p, l) == IF l = Empty THEN To(p, "Done") ELSE p

Smaller(n, m) == IF n < m THEN n ELSE m
Rest(bytes, n) == SubSeq(bytes, n + 1, Len(bytes))
BodyLength(p, bytes) ==
    IF p.content = Unlimited THEN Result(p, <<>>, bytes)
    ELSE LET n == Smaller(p.content, Len(bytes))
         IN Result([p EXCEPT !.content = @ - n, !.state = IF p.content = n THEN "Done" ELSE @],
                   Rest(bytes, n), SubSeq(bytes, 1, n))
ChunkData(p, bytes) ==
    LET n == Smaller(p.chunk, Len(bytes))
    IN Result([p EXCEPT !.chunk = @ - n, !.state = IF p.chunk = n THEN "BodyChunkTail" ELSE @],
              Rest(bytes, n), SubSeq(bytes, 1, n))

\* What a line does in each state that waits for one.
TakeLine(p, l) ==
    CASE p.state = "StatusLine"    -> StatusLine(p, l)
      [] p.state = "Headers"       -> HeaderLine(p, l)
      [] p.state = "BodyChunkSize" -> SizeLine(p, l)
      [] p.state = "BodyChunkTail" -> TailLine(p, l)
      [] p.state = "BodyTrailer"   -> TrailerLine(p, l)

PullLine(p, bytes) ==
    IF ~Contains(bytes, LF) THEN Result([p EXCEPT !.pending = @ \o bytes], <<>>, <<>>)
    ELSE LET nl   == FirstLF(bytes)
             line == WholeLine(p.pending, SubSeq(bytes, 1, nl - 1))
         IN Result(TakeLine([p EXCEPT !.pending = <<>>], IF line = <<>> THEN Empty ELSE line[1]),
                   Rest(bytes, nl), <<>>)

Consume(p, bytes) ==
    CASE p.state = "BodyLength"    -> BodyLength(p, bytes)
      [] p.state = "BodyChunkData" -> ChunkData(p, bytes)
      [] OTHER                     -> PullLine(p, bytes)

\* feed(): a turn of the loop, which ends when the bytes are used up or the response is over; what stands
\* behind the end of a response is dropped. A turn takes a byte or more, so there are at most as many turns.
Over(r) == r.bytes = <<>> \/ r.p.state \in {"Done", "Error"}
Turn(r) == IF Over(r) THEN r
           ELSE LET c == Consume(r.p, r.bytes) IN [p |-> c.p, s |-> SseFeed(r.s, c.body), bytes |-> c.bytes]
FeedBytes(p, s, bytes) ==
    LET left[i \in 0..Len(bytes)] == IF i = 0 THEN [p |-> p, s |-> s, bytes |-> bytes] ELSE Turn(left[i - 1])
    IN left[Len(bytes)]

-----------------------------------------------------------------------------
ParserInit == response \in Replies /\ pos = 0 /\ parser = NewParser /\ sse = NewSse

\* One read of n symbols (LlmStreamSession::on_message).
Read(n) == /\ pos + n <= Len(response.bytes)
           /\ LET r == FeedBytes(parser, sse, SubSeq(response.bytes, pos + 1, pos + n))
              IN parser' = r.p /\ sse' = r.s
           /\ pos' = pos + n
           /\ UNCHANGED response

ParserNext == \E n \in 1..MaxRead : Read(n)
ParserSpec == ParserInit /\ [][ParserNext]_parserVars

-----------------------------------------------------------------------------
\* Where the reads cut the response makes no difference: after any number of reads the parser is where one
\* read of the same bytes would have taken it, and the events delivered so far are the same.
CutsDoNotMatter ==
    LET whole == FeedBytes(NewParser, NewSse, SubSeq(response.bytes, 1, pos))
    IN parser = whole.p /\ sse = whole.s

\* The events are those of the response, in order, none early, none twice, none made of parts of two; when
\* all is read each was delivered.
EventsAreThoseSent ==
    /\ IsPrefix(sse.events, response.events)
    /\ pos = Len(response.bytes) => sse.events = response.events
==============================================================================
