------------------------------- MODULE LlmStream ------------------------------
(***************************************************************************)
(* astraea::detail::LlmStreamSession and LlmTcpPool (src/llm_stream.cpp,   *)
(* src/llm_tcp_pool.cpp): streamed requests to the LLM from one event      *)
(* loop, and the pool of kept-alive connections they share.                *)
(*                                                                         *)
(* The loop is one thread, so every callback is one step; the steps differ *)
(* in which callback runs next.  A response is a sequence of items: the    *)
(* head of a good or of a failed response, a token, other text, the [DONE] *)
(* sentinel, the end of the body, bytes that do not parse.  One receive    *)
(* delivers up to Batch of them.                                           *)
(***************************************************************************)
EXTENDS Integers, Sequences, FiniteSets

CONSTANTS Sessions,   \* the requests; a session opens at most one connection, named after it
          NoSession,
          Responses,  \* what the server may answer: sequences of items
          Batch,      \* the most items one receive delivers
          Closes,     \* bound on how often the server closes a connection
          Cancels,    \* the sessions whose client may go away
          SlowDns     \* whether the idle timeout may pass during name resolution

Kinds == {"head", "fail", "token", "text", "[DONE]", "end", "bad"}

\* A server sends nothing after the end of a response.
EndIsLast(r) == \A i \in 1 .. Len(r) : r[i] = "end" => i = Len(r)

ASSUME StreamAssumption ==
  /\ IsFiniteSet(Sessions)
  /\ NoSession \notin Sessions
  /\ Responses \subseteq Seq(Kinds)
  /\ \A r \in Responses : EndIsLast(r)
  /\ Batch \in Nat \ {0}
  /\ Closes \in Nat
  /\ Cancels \subseteq Sessions
  /\ SlowDns \in BOOLEAN

VARIABLES
  ses,        \* the fields of each session
  resolving,  \* the sessions whose name resolution is under way
  client,     \* _client: the connection a session uses
  bound,      \* the session whose callbacks a connection has
  net,        \* each connection: none, connecting, up or closed
  fin,        \* the connections the server has closed
  pending,    \* what the server has sent on a connection and nobody has parsed
  pool,       \* LlmTcpPool::_idle of this loop and endpoint
  cancelled,  \* the sessions whose flag is set
  closes      \* how often the server closed a connection

vars == <<ses, resolving, client, bound, net, fin, pending, pool, cancelled, closes>>

Conns == Sessions
NoConn == NoSession

\* finished, deferred, fate: _finished, _pool_on_done, and what dispose_client
\* did; idle, fallback: the timers; http, status: the parser; done, why: what
\* on_done was called with; tokens: the tokens that reached on_token.
Fresh ==
  [started |-> FALSE, finished |-> FALSE, deferred |-> FALSE, fate |-> "kept",
   idle |-> FALSE, fallback |-> FALSE, http |-> "start", status |-> "none",
   done |-> "no", why |-> "", tokens |-> 0]

TypeOK ==
  /\ \A s \in Sessions :
       LET x == ses[s] IN
       /\ x.http \in {"start", "body", "Done", "Error"}
       /\ x.status \in {"none", "ok", "fail"}
       /\ x.fate \in {"kept", "pooled", "dropped"}
       /\ x.done = "no" <=> ~x.finished
       /\ x.deferred => x.done = "ok"
       /\ client[s] # NoConn => bound[client[s]] = s
  /\ resolving \subseteq Sessions
  /\ client \in [Sessions -> Conns \union {NoConn}]
  /\ bound \in [Conns -> Sessions \union {NoSession}]
  /\ net \in [Conns -> {"none", "connecting", "up", "closed"}]
  /\ fin \subseteq Conns
  /\ pool \in Seq(Conns)
  /\ cancelled \subseteq Cancels
  /\ closes \in 0 .. Closes

Init ==
  /\ ses = [s \in Sessions |-> Fresh]
  /\ resolving = {}
  /\ client = [s \in Sessions |-> NoConn]
  /\ bound = [c \in Conns |-> NoSession]
  /\ net = [c \in Conns |-> "none"]
  /\ fin = {}
  /\ pending = [c \in Conns |-> <<>>]
  /\ pool = <<>>
  /\ cancelled = {}
  /\ closes = 0

-------------------------------------------------------------------------------
(* The session's functions, on its fields                                  *)

\* finish(): an error, or a session that has no client, disposes at once; a
\* success waits for the end of the body, for at most the fallback's time.
FinishAlways(x, how, why, hasClient) ==
  LET later == how = "ok" /\ hasClient IN
  [x EXCEPT !.finished = TRUE, !.idle = FALSE, !.done = how, !.why = why,
            !.deferred = later, !.fallback = later,
            !.fate = IF later \/ x.fate # "kept" THEN x.fate ELSE "dropped"]

\* Mutation: no timer drops the connection if the end never comes.
FinishNoFallback(x, how, why, hasClient) ==
  IF x.finished THEN x
  ELSE [FinishAlways(x, how, why, hasClient) EXCEPT !.fallback = FALSE]

Finish(x, how, why, hasClient) ==
  IF x.finished THEN x ELSE FinishAlways(x, how, why, hasClient)

Dispose(x, fate) == IF x.fate = "kept" THEN [x EXCEPT !.fate = fate] ELSE x

Token(s, x) ==
  LET y == [x EXCEPT !.tokens = x.tokens + 1] IN
  IF s \in cancelled THEN Finish(y, "ok", "cancelled", TRUE) ELSE y

\* Mutation: events are handled although the session has finished.
EventAlways(s, x, kind) ==
  CASE kind = "token" -> Token(s, x)
    [] kind = "[DONE]" -> Finish(x, "ok", "", TRUE)
    [] OTHER -> x

\* handle_sse_event()
Event(s, x, kind) == IF x.finished THEN x ELSE EventAlways(s, x, kind)

\* HttpStreamParser::feed() and SseLineSplitter::feed() on one item; what
\* follows the end of the body or an error is discarded.
Parse(s, x, item) ==
  IF x.http \in {"Done", "Error"} THEN x
  ELSE CASE item.kind = "head" -> [x EXCEPT !.http = "body", !.status = "ok"]
         [] item.kind = "fail" -> [x EXCEPT !.http = "body", !.status = "fail"]
         [] item.kind = "end" -> [x EXCEPT !.http = "Done"]
         [] item.kind = "bad" -> [x EXCEPT !.http = "Error"]
         [] OTHER -> Event(s, x, item.kind)

\* The items of one receive, one after the other.
Feed(s, x, items) ==
  LET after[k \in 0 .. Len(items)] == IF k = 0 THEN x ELSE Parse(s, after[k - 1], items[k])
  IN after[Len(items)]

\* Mutation: a connection is pooled as soon as the stream has succeeded.
AfterFeedEarly(x) ==
  CASE x.http = "Error" -> Finish(x, "error", "parse", TRUE)
    [] x.deferred -> Dispose(x, "pooled")
    [] x.http = "Done" -> Dispose(Finish(x, "ok", "", TRUE), "dropped")
    [] x.http = "body" /\ x.status = "fail" -> Finish(x, "error", "status", TRUE)
    [] OTHER -> x

\* The rest of on_message().
AfterFeed(x) ==
  CASE x.http = "Error" -> Finish(x, "error", "parse", TRUE)
    [] x.http = "Done" /\ x.deferred -> Dispose(x, "pooled")
    [] x.http = "Done" /\ ~x.deferred -> Dispose(Finish(x, "ok", "", TRUE), "dropped")
    [] x.http = "body" /\ x.status = "fail" -> Finish(x, "error", "status", TRUE)
    [] OTHER -> x

\* Mutation: a connection that closes during the answer counts as its end.
AfterCloseOk(x) ==
  IF x.finished THEN Dispose(x, "dropped") ELSE Finish(x, "ok", "", TRUE)

\* on_connection() of a connection that went down.
AfterClose(x) ==
  CASE x.http = "Done" -> Finish(x, "ok", "", TRUE)
    [] x.http = "Error" -> Finish(x, "error", "parse", TRUE)
    [] x.http \in {"start", "body"} /\ x.finished /\ x.deferred -> Dispose(x, "dropped")
    [] x.http \in {"start", "body"} /\ ~x.finished -> Finish(x, "error", "closed", TRUE)
    [] OTHER -> x

-------------------------------------------------------------------------------
(* What a callback leaves behind                                           *)

\* The session's fields become x; if that disposed of its client, the
\* callbacks are replaced by empty ones and the connection is pooled, when it
\* is still up, or closed.
Settle(s, x, netNow, pendingNow) ==
  LET c == client[s]
      gone == c # NoConn /\ x.fate # ses[s].fate
      pooled == gone /\ x.fate = "pooled" /\ netNow[c] = "up" IN
  /\ ses' = [ses EXCEPT ![s] = x]
  /\ client' = IF gone THEN [client EXCEPT ![s] = NoConn] ELSE client
  /\ bound' = IF gone THEN [bound EXCEPT ![c] = NoSession] ELSE bound
  /\ pool' = IF pooled THEN Append(pool, c) ELSE pool
  /\ net' = IF gone /\ ~pooled THEN [netNow EXCEPT ![c] = "closed"] ELSE netNow
  /\ pending' = IF gone /\ ~pooled THEN [pendingNow EXCEPT ![c] = <<>>] ELSE pendingNow

Has(s) == client[s] # NoConn

\* on_connection() of a connection that is up: the request is sent, and the
\* server, if it is still there, answers it.
Answered(s, c) ==
  IF c \in fin THEN {pending[c]}
  ELSE {pending[c] \o [i \in 1 .. Len(r) |-> [of |-> s, kind |-> r[i]]] : r \in Responses}

-------------------------------------------------------------------------------
(* The event loop's callbacks                                              *)

\* Mutation: no idle timer is armed.
ArmNot(x) == [x EXCEPT !.started = TRUE]

Arm(x) == [x EXCEPT !.started = TRUE, !.idle = TRUE]

\* The pooled connections that are still up, and the last of them.
Live == {i \in 1 .. Len(pool) : net[pool[i]] = "up"}

Popped(i) == SubSeq(pool, 1, i - 1)

\* start() with a pooled connection: dead entries behind it are dropped.
StartPooled(s) ==
  /\ ~ses[s].started
  /\ \E i \in Live :
       /\ \A j \in Live : j <= i
       /\ LET c == pool[i] IN
          /\ client' = [client EXCEPT ![s] = c]
          /\ bound' = [bound EXCEPT ![c] = s]
          /\ pool' = Popped(i)
          /\ \E sent \in Answered(s, c) : pending' = [pending EXCEPT ![c] = sent]
  /\ ses' = [ses EXCEPT ![s] = Arm(@)]
  /\ UNCHANGED <<resolving, net, fin, cancelled, closes>>

\* start() without: the name is resolved.
StartFresh(s) ==
  /\ ~ses[s].started
  /\ Live = {}
  /\ pool' = <<>>
  /\ resolving' = resolving \union {s}
  /\ ses' = [ses EXCEPT ![s] = Arm(@)]
  /\ UNCHANGED <<client, bound, net, fin, pending, cancelled, closes>>

\* The resolver's callback creates the client, whatever has happened since.
Resolved(s) ==
  /\ s \in resolving
  /\ resolving' = resolving \ {s}
  /\ client' = [client EXCEPT ![s] = s]
  /\ bound' = [bound EXCEPT ![s] = s]
  /\ net' = [net EXCEPT ![s] = "connecting"]
  /\ UNCHANGED <<ses, fin, pending, pool, cancelled, closes>>

Unresolved(s) ==
  /\ s \in resolving
  /\ resolving' = resolving \ {s}
  /\ Settle(s, Finish(ses[s], "error", "dns", FALSE), net, pending)
  /\ UNCHANGED <<fin, cancelled, closes>>

Connected(c) ==
  /\ net[c] = "connecting"
  /\ net' = [net EXCEPT ![c] = "up"]
  /\ \E sent \in Answered(bound[c], c) : pending' = [pending EXCEPT ![c] = sent]
  /\ UNCHANGED <<ses, resolving, client, bound, fin, pool, cancelled, closes>>

Refused(c) ==
  /\ net[c] = "connecting"
  /\ LET s == bound[c] IN
     Settle(s, Finish(ses[s], "error", "refused", Has(s)), [net EXCEPT ![c] = "closed"], pending)
  /\ UNCHANGED <<resolving, fin, cancelled, closes>>

\* Data arrives.  Connections without a session's callbacks do not read.
Message(c) ==
  /\ net[c] = "up"
  /\ bound[c] # NoSession
  /\ \E n \in 1 .. Batch :
       LET s == bound[c]
           x == ses[s]
           rest == [pending EXCEPT ![c] = SubSeq(@, n + 1, Len(@))]
           items == SubSeq(pending[c], 1, n) IN
       /\ n <= Len(pending[c])
       /\ Settle(s,
            IF x.fate # "kept" THEN x
            ELSE AfterFeed(Feed(s, Arm(x), items)),
            net, rest)
  /\ UNCHANGED <<resolving, fin, cancelled, closes>>

\* The loop sees that the server closed the connection; unread data is lost.
Disconnected(c) ==
  /\ net[c] = "up"
  /\ c \in fin
  /\ LET down == [net EXCEPT ![c] = "closed"]
         lost == [pending EXCEPT ![c] = <<>>]
         s == bound[c] IN
     IF s = NoSession
     THEN /\ net' = down /\ pending' = lost
          /\ UNCHANGED <<ses, client, bound, pool>>
     ELSE Settle(s, AfterClose(ses[s]), down, lost)
  /\ UNCHANGED <<resolving, fin, cancelled, closes>>

\* No data for the idle time.
IdleTimeout(s) ==
  /\ ses[s].idle
  /\ s \in resolving => SlowDns
  /\ Settle(s, Finish([ses[s] EXCEPT !.idle = FALSE], "error", "timeout", Has(s)), net, pending)
  /\ UNCHANGED <<resolving, fin, cancelled, closes>>

\* The fallback timer: the end of the body has not come.
Fallback(s) ==
  /\ ses[s].fallback
  /\ Settle(s, Dispose([ses[s] EXCEPT !.fallback = FALSE], "dropped"), net, pending)
  /\ UNCHANGED <<resolving, fin, cancelled, closes>>

-------------------------------------------------------------------------------
(* The server and the client                                               *)

ServerClose(c) ==
  /\ net[c] = "up"
  /\ c \notin fin
  /\ closes < Closes
  /\ closes' = closes + 1
  /\ fin' = fin \union {c}
  /\ UNCHANGED <<ses, resolving, client, bound, net, pending, pool, cancelled>>

\* A send to the request's own client fails.
Cancel(s) ==
  /\ s \in Cancels \ cancelled
  /\ cancelled' = cancelled \union {s}
  /\ UNCHANGED <<ses, resolving, client, bound, net, fin, pending, pool, closes>>

Next ==
  \/ \E s \in Sessions : \/ StartPooled(s) \/ StartFresh(s) \/ Resolved(s) \/ Unresolved(s)
                         \/ IdleTimeout(s) \/ Fallback(s) \/ Cancel(s)
  \/ \E c \in Conns : \/ Connected(c) \/ Refused(c) \/ Message(c) \/ Disconnected(c)
                      \/ ServerClose(c)

Spec == Init /\ [][Next]_vars

\* The loop runs its timers, and the resolver calls back.  The network and the
\* server owe nothing.
Fairness ==
  \A s \in Sessions : /\ WF_vars(Resolved(s) \/ Unresolved(s))
                      /\ WF_vars(IdleTimeout(s)) /\ WF_vars(Fallback(s))

FairSpec == Spec /\ Fairness

-------------------------------------------------------------------------------
(* Properties                                                              *)

\* A session only ever parses its own answer, however connections are reused.
OwnAnswerOnly ==
  \A s \in Sessions : Has(s) =>
    \A i \in 1 .. Len(pending[client[s]]) : pending[client[s]][i].of = s

\* A server whose answer has two tokens says neither [DONE] nor that the body
\* ends before it has sent both; the page of an error does not end in the receive
\* that begins it.
WholeAnswer(r) ==
  Len(r) > 0 =>
    /\ r[1] \in {"head", "fail", "bad"}
    /\ \A i \in 2 .. Len(r) : r[i] \notin {"head", "fail"}
    /\ r[1] = "fail" => \A i \in 1 .. Batch : i <= Len(r) => r[i] \notin {"[DONE]", "end"}
    /\ r[1] = "head" =>
         \E count \in [0 .. Len(r) -> 0 .. Len(r)] :
           /\ count[0] = 0
           /\ \A i \in 1 .. Len(r) :
                /\ count[i] = count[i - 1] + (IF r[i] = "token" THEN 1 ELSE 0)
                /\ r[i] \in {"[DONE]", "end"} => count[i - 1] = 2

\* An answer is reported as complete only if all of it was delivered: a
\* connection that closes, stalls or breaks in the middle is an error.
NoTruncatedSuccess ==
  \A s \in Sessions : ses[s].done = "ok" /\ ses[s].why # "cancelled" => ses[s].tokens = 2

\* "once finish() runs the session releases all callbacks and self-references":
\* a finished session holds a connection only while its fallback timer runs.
Released ==
  \A s \in Sessions : ses[s].finished /\ (\E c \in Conns : bound[c] = s) => ses[s].fallback

\* Every session that was started finishes, whatever network and LLM do or fail to do.
SessionEnds == \A s \in Sessions : ses[s].started ~> ses[s].finished

===============================================================================
