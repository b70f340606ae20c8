----------------------------- MODULE AskRequests ------------------------------
(***************************************************************************)
(* The handlers of POST /ask and POST /ask/stream of both servers          *)
(* (apps/nz_tenancy/main.cpp, apps/building_consents/main.cpp) and the     *)
(* legal_ask tool of POST /mcp (apps/nz_tenancy/mcp_handler.cpp): what a   *)
(* request owns and owes from the moment it is parsed to the moment its    *)
(* coroutine ends.  A step runs up to the coroutine's next suspension.     *)
(*                                                                         *)
(* The two servers' handlers differ in one step, the address that the      *)
(* consents server looks up; the tool exists in the tenancy server only.   *)
(*                                                                         *)
(* The LLM permits are those of PermitPool, which the semaphore implements:*)
(* a streaming request calls acquire twice, without and with waiting.  The *)
(* session store keeps whole messages; a message is its role and its turn. *)
(***************************************************************************)
EXTENDS Integers, Sequences, FiniteSets, SequencesExt

CONSTANTS Requests,   \* the requests, served concurrently
          Streams,    \* those for /ask/stream
          Tools,      \* those for legal_ask; the others are for /ask
          Addressed,  \* those that give an address
          Clients,    \* the requests that each server gets
          Leavers,    \* bound: the streams whose browser may leave
          Ips, IpOf,  \* the client addresses
          IpMax,      \* IP_MAX_CONCURRENCY
          Permits,    \* LLM_GLOBAL_CONCURRENCY
          Sessions, NoSession, SessionOf,
          Earlier,    \* the turns a session already has, oldest first
          MaxTurns,   \* SESSION_MAX_TURNS
          MaxTokens,  \* bound: tokens of an answer
          NoLog       \* the requests that asked not to be logged

ASSUME AskAssumption ==
  /\ IsFiniteSet(Requests) /\ NoLog \subseteq Requests /\ Leavers \subseteq Streams
  /\ Streams \subseteq Requests /\ Tools \subseteq Requests \ Streams
  /\ Addressed \subseteq Requests \ Tools
  /\ Clients \in [{"tenancy", "consents"} -> SUBSET Requests] /\ Clients["consents"] \cap Tools = {}
  /\ IpOf \in [Requests -> Ips]
  /\ NoSession \notin Sessions /\ SessionOf \in [Requests -> Sessions \union {NoSession}]
  /\ IpMax \in Nat \ {0} /\ Permits \in Nat \ {0}
  /\ MaxTurns \in Nat \ {0} /\ MaxTokens \in Nat
  /\ Earlier \in Seq(Range(Earlier)) /\ Len(Earlier) <= MaxTurns
  /\ \A i \in DOMAIN Earlier : Earlier[i] \notin Requests
  /\ IsInjective(Earlier)

VARIABLES
  server,   \* which of the two programs runs
  timed,    \* LLM_ACQUIRE_TIMEOUT_S > 0, fixed at startup
  pc,       \* where each request's coroutine is
  onLoop,   \* whether it runs on the loop of its client's connection
  counts,   \* IpLimiter::_counts
  history,  \* the messages the request loaded
  stored,   \* the messages Redis has for each session
  answer,   \* the tokens of the answer so far
  gone,     \* the client has closed the connection
  dead,     \* peer_dead
  out,      \* the events sent on the stream
  outcome,  \* what became of the request
  logs,     \* lines handed to the question and the route-debug log
  free, line, owner, refused  \* the LLM permits

poolVars == <<free, line, owner, refused>>
handlerVars == <<server, timed, pc, onLoop, counts, history, stored, answer, gone, dead, out, outcome, logs>>
vars == <<handlerVars, poolVars>>

ProbeCall(r) == <<r, "probe">>  \* acquire(0ms)
MainCall(r) == <<r, "wait">>    \* the acquire that waits

Pool == INSTANCE PermitPool WITH
          Calls <- Requests \X {"probe", "wait"},
          Patient <- {}

Owned(r) == {c \in owner : c[1] = r}

Events == {"sources", "queue", "token", "error", "done"}
PC == {"idle", "locating", "probing", "assembling", "repin", "repin_fail", "failing", "loading", "announcing",
       "acquiring", "waiting", "repin_generate", "generating", "saving", "finishing", "done"}
InFlight(r) == pc[r] \notin {"idle", "done"}

Turns == Requests \union Range(Earlier)
Messages == {"user", "assistant"} \X Turns

TypeOK ==
  /\ server \in {"tenancy", "consents"}
  /\ timed \in BOOLEAN
  /\ pc \in [Requests -> PC]
  /\ onLoop \in [Requests -> BOOLEAN]
  /\ counts \in [Ips -> 0 .. IpMax]
  /\ history \in [Requests -> Seq(Messages)]
  /\ stored \in [Sessions -> Seq(Messages)]
  /\ answer \in [Requests -> 0 .. MaxTokens]
  /\ gone \in [Requests -> BOOLEAN]
  /\ dead \in [Requests -> BOOLEAN]
  /\ out \in [Requests -> Seq(Events)]
  /\ outcome \in [Requests -> {"none", "ok", "malformed", "busy", "unavailable"}]
  /\ logs \subseteq {"question", "route"} \X Requests

Pair(t) == <<<<"user", t>>, <<"assistant", t>>>>

\* The messages of some turns: a pair each, in order.
Transcript(turns) ==
  [k \in 1 .. 2 * Len(turns) |->
     <<IF k % 2 = 1 THEN "user" ELSE "assistant", turns[(k + 1) \div 2]>>]

Init ==
  /\ server \in DOMAIN Clients
  /\ timed \in BOOLEAN
  /\ pc = [r \in Requests |-> "idle"]
  /\ onLoop = [r \in Requests |-> TRUE]
  /\ counts = [i \in Ips |-> 0]
  /\ history = [r \in Requests |-> <<>>]
  /\ stored = [s \in Sessions |-> Transcript(Earlier)]
  /\ answer = [r \in Requests |-> 0]
  /\ gone = [r \in Requests |-> FALSE]
  /\ dead = [r \in Requests |-> FALSE]
  /\ out = [r \in Requests |-> <<>>]
  /\ outcome = [r \in Requests |-> "none"]
  /\ logs = {}
  /\ Pool!PoolInit

-------------------------------------------------------------------------------
(* What the steps are made of                                              *)

Goto(r, where) == pc' = [pc EXCEPT ![r] = where]
Decide(r, what) == outcome' = [outcome EXCEPT ![r] = what]
Log(r, kind) == logs' = IF r \in NoLog THEN logs ELSE logs \union {<<kind, r>>}

\* safe_send: the first send that fails marks the peer as dead, and nothing
\* is sent after it.
Send(r, events) ==
  /\ out' = IF gone[r] \/ dead[r] THEN out ELSE [out EXCEPT ![r] = @ \o events]
  /\ dead' = [dead EXCEPT ![r] = dead[r] \/ gone[r]]

\* IpLimiter::release; a tool call has no permit of its address.
DropIp(r) == counts' = IF r \in Tools THEN counts ELSE [counts EXCEPT ![IpOf[r]] = @ - 1]

\* Mutation: the coroutine ends without giving its LLM permit back.
LeaveWithPermit(r) ==
  /\ Goto(r, "done")
  /\ DropIp(r)
  /\ UNCHANGED poolVars

\* The coroutine ends: its permits are given back.
Leave(r) ==
  /\ Goto(r, "done")
  /\ DropIp(r)
  /\ \/ \E c \in Owned(r) : Pool!Return(c)
     \/ Owned(r) = {} /\ UNCHANGED poolVars

\* Mutation: the early return of /ask keeps the permit of the address.
FailKeepsIp(r) ==
  /\ Decide(r, "unavailable")
  /\ Goto(r, IF r \in Streams THEN "repin_fail" ELSE "done")
  /\ UNCHANGED counts

\* A failure before generation: a 503, or an error event to be sent from the
\* client's loop.
Fail(r) ==
  /\ Decide(r, "unavailable")
  /\ \/ r \in Streams /\ Goto(r, "repin_fail") /\ UNCHANGED counts
     \/ r \notin Streams /\ Goto(r, "done") /\ DropIp(r)

-------------------------------------------------------------------------------
(* From the parsed request to the prompt                                   *)

Arrives(r) == pc[r] = "idle" /\ r \in Clients[server]

\* parse_and_sanitize, or the tool's reading of its arguments, found something
\* to complain about.
Malformed(r) ==
  /\ Arrives(r)
  /\ Goto(r, "done")
  /\ Decide(r, "malformed")
  /\ UNCHANGED <<server, timed, onLoop, counts, history, stored, answer, gone, dead, out, logs, poolVars>>

\* GeocodeClient::resolve() adds the zone of the address to the question; it
\* never fails.  /ask awaits it before it asks for the permit of the address.
Locates(r) == server = "consents" /\ r \in Addressed

Locate(r) ==
  /\ Arrives(r)
  /\ Locates(r) /\ r \notin Streams
  /\ Goto(r, "locating")
  /\ UNCHANGED <<server, timed, onLoop, counts, history, stored, answer, gone, dead, out, outcome, logs, poolVars>>

AtLimiter(r) == r \notin Tools /\ IF Locates(r) /\ r \notin Streams THEN pc[r] = "locating" ELSE Arrives(r)

\* IpLimiter::try_acquire: 429 ...
TooMany(r) ==
  /\ AtLimiter(r)
  /\ counts[IpOf[r]] >= IpMax
  /\ Goto(r, "done")
  /\ Decide(r, "busy")
  /\ UNCHANGED <<server, timed, onLoop, counts, history, stored, answer, gone, dead, out, logs, poolVars>>

\* ... or a permit of the address.  A stream logs its question at once.
Admit(r) ==
  /\ AtLimiter(r)
  /\ counts[IpOf[r]] < IpMax
  /\ counts' = [counts EXCEPT ![IpOf[r]] = @ + 1]
  /\ Goto(r, "probing")
  /\ IF r \in Streams THEN Log(r, "question") ELSE UNCHANGED logs
  /\ UNCHANGED <<server, timed, onLoop, history, stored, answer, gone, dead, out, outcome, poolVars>>

\* legal_ask goes straight to the retrieval.
Call(r) ==
  /\ Arrives(r)
  /\ r \in Tools
  /\ Goto(r, "assembling")
  /\ UNCHANGED <<server, timed, onLoop, counts, history, stored, answer, gone, dead, out, outcome, logs, poolVars>>

\* An HTTP call ends on a loop of the HTTP client's choosing; only a stream
\* cares, and only a stream's loop is recorded.
Drift(r) == \E there \in BOOLEAN : onLoop' = [onLoop EXCEPT ![r] = r \in Streams => there]

\* probe_llm(); a stream looks its address up afterwards.
Probed(r) ==
  /\ pc[r] = "probing"
  /\ Drift(r)
  /\ \/ Goto(r, IF Locates(r) /\ r \in Streams THEN "locating" ELSE "assembling") /\ UNCHANGED <<outcome, counts>>
     \/ Fail(r)
  /\ UNCHANGED <<server, timed, history, stored, answer, gone, dead, out, logs, poolVars>>

Located(r) ==
  /\ pc[r] = "locating"
  /\ r \in Streams
  /\ Drift(r)
  /\ Goto(r, "assembling")
  /\ UNCHANGED <<server, timed, counts, history, stored, answer, gone, dead, out, outcome, logs, poolVars>>

\* Where an answer to the question starts once its sources are there.
AfterSources(r) == IF r \in Streams THEN "repin" ELSE IF r \in Tools THEN "acquiring" ELSE "loading"

\* assemble_request(): rewriting, routing and retrieval.
Assembled(r) ==
  /\ pc[r] = "assembling"
  /\ Drift(r)
  /\ \/ Goto(r, AfterSources(r)) /\ UNCHANGED <<outcome, counts>>
     \/ Fail(r)
  /\ UNCHANGED <<server, timed, history, stored, answer, gone, dead, out, logs, poolVars>>

AfterPin == [repin |-> "loading", repin_fail |-> "failing", repin_generate |-> "generating"]

\* Mutation: the coroutine stays where the HTTP call left it.
PinNot(r) ==
  /\ pc[r] \in DOMAIN AfterPin
  /\ Goto(r, AfterPin[pc[r]])
  /\ UNCHANGED <<server, timed, onLoop, counts, history, stored, answer, gone, dead, out, outcome, logs, poolVars>>

\* pin_to_loop(client_loop)
Pin(r) ==
  /\ pc[r] \in DOMAIN AfterPin
  /\ onLoop' = [onLoop EXCEPT ![r] = TRUE]
  /\ Goto(r, AfterPin[pc[r]])
  /\ UNCHANGED <<server, timed, counts, history, stored, answer, gone, dead, out, outcome, logs, poolVars>>

\* Mutation: the stream is closed without saying why.
FailStreamSilent(r) ==
  /\ pc[r] = "failing"
  /\ Send(r, <<"done">>)
  /\ Leave(r)
  /\ UNCHANGED <<server, timed, onLoop, history, stored, answer, gone, outcome, logs>>

\* The early ends of the stream: error, done, close.
FailStream(r) ==
  /\ pc[r] = "failing"
  /\ Send(r, <<"error", "done">>)
  /\ Leave(r)
  /\ UNCHANGED <<server, timed, onLoop, history, stored, answer, gone, outcome, logs>>

HasSession(r) == SessionOf[r] # NoSession

\* SessionStore::load: no session and every Redis or JSON error give no history.
Load(r) ==
  /\ pc[r] = "loading"
  /\ \/ HasSession(r) /\ history' = [history EXCEPT ![r] = stored[SessionOf[r]]]
     \/ UNCHANGED history
  /\ Goto(r, IF r \in Streams THEN "announcing" ELSE "acquiring")
  /\ IF r \in Streams THEN UNCHANGED logs ELSE Log(r, "question")
  /\ UNCHANGED <<server, timed, onLoop, counts, stored, answer, gone, dead, out, outcome, poolVars>>

-------------------------------------------------------------------------------
(* The LLM permit                                                          *)

\* A stream sends its sources and tries for a permit without waiting; if there
\* is none it tells the client that it queues.
Announce(r) ==
  /\ pc[r] = "announcing"
  /\ \/ Pool!Take(ProbeCall(r)) /\ Send(r, <<"sources">>) /\ Goto(r, "repin_generate")
     \/ Pool!Refuse(ProbeCall(r)) /\ Send(r, <<"sources", "queue">>) /\ Goto(r, "acquiring")
  /\ UNCHANGED <<server, timed, onLoop, counts, history, stored, answer, gone, outcome, logs>>

ToGenerate(r) == Goto(r, IF r \in Streams THEN "repin_generate" ELSE "generating")

\* acquire() and acquire(timeout)
Acquire(r) ==
  /\ pc[r] = "acquiring"
  /\ \/ Pool!Take(MainCall(r)) /\ ToGenerate(r)
     \/ Pool!Wait(MainCall(r)) /\ Goto(r, "waiting")
  /\ UNCHANGED <<server, timed, onLoop, counts, history, stored, answer, gone, dead, out, outcome, logs>>

Granted(r) ==
  /\ pc[r] = "waiting"
  /\ MainCall(r) \in owner
  /\ ToGenerate(r)
  /\ UNCHANGED <<server, timed, onLoop, counts, history, stored, answer, gone, dead, out, outcome, logs, poolVars>>

TimedOut(r) ==
  /\ timed
  /\ pc[r] = "waiting"
  /\ Pool!Refuse(MainCall(r))
  /\ Fail(r)
  /\ UNCHANGED <<server, timed, onLoop, history, stored, answer, gone, dead, out, logs>>

-------------------------------------------------------------------------------
(* Generation                                                              *)

\* on_token: a token is kept and sent while the peer is not known to be dead.
Token(r) ==
  /\ r \in Streams
  /\ pc[r] = "generating"
  /\ ~dead[r]
  /\ answer[r] < MaxTokens
  /\ answer' = [answer EXCEPT ![r] = @ + 1]
  /\ Send(r, <<"token">>)
  /\ UNCHANGED <<server, timed, pc, onLoop, counts, history, stored, gone, outcome, logs, poolVars>>

\* generate_stream() or generate() returns; the latter has the whole answer.
Generated(r) ==
  /\ pc[r] = "generating"
  /\ r \notin Tools
  /\ \/ r \in Streams /\ UNCHANGED answer
     \/ r \notin Streams /\ \E n \in 0 .. MaxTokens : answer' = [answer EXCEPT ![r] = n]
  /\ Goto(r, "saving")
  /\ Decide(r, "ok")
  /\ UNCHANGED <<server, timed, onLoop, counts, history, stored, gone, dead, out, logs, poolVars>>

\* legal_ask answers with the text and its sources.
Replied(r) ==
  /\ pc[r] = "generating"
  /\ r \in Tools
  /\ Decide(r, "ok")
  /\ Leave(r)
  /\ UNCHANGED <<server, timed, onLoop, history, stored, answer, gone, dead, out, logs>>

\* It throws: /ask answers 503, legal_ask an error; a stream reports the error and goes on with
\* the tokens that it has.
GenerationFailed(r) ==
  /\ pc[r] = "generating"
  /\ Decide(r, "unavailable")
  /\ \/ r \in Streams /\ Send(r, <<"error">>) /\ Goto(r, "saving") /\ UNCHANGED <<counts, poolVars>>
     \/ r \notin Streams /\ Leave(r) /\ UNCHANGED <<out, dead>>
  /\ UNCHANGED <<server, timed, onLoop, history, stored, answer, gone, logs>>

Wanted(r) == HasSession(r) /\ (r \in Streams => answer[r] > 0 /\ ~dead[r])

\* Mutation: one message too many is evicted.
EvictOdd(messages) ==
  IF Len(messages) > 2 * MaxTurns THEN SubSeq(messages, Len(messages) - 2 * MaxTurns + 2, Len(messages))
  ELSE messages

\* The oldest messages go when there are more than max_turns pairs.
Evict(messages) ==
  IF Len(messages) > 2 * MaxTurns THEN SubSeq(messages, Len(messages) - 2 * MaxTurns + 1, Len(messages))
  ELSE messages

\* SessionStore::save: what was loaded and the new turn replace what Redis has;
\* a Redis error is swallowed.
Save(r) ==
  /\ pc[r] = "saving"
  /\ \/ Wanted(r) /\ stored' = [stored EXCEPT ![SessionOf[r]] = Evict(history[r] \o Pair(r))]
     \/ UNCHANGED stored
  /\ history' = [history EXCEPT ![r] = <<>>]
  /\ Goto(r, "finishing")
  /\ UNCHANGED <<server, timed, onLoop, counts, answer, gone, dead, out, outcome, logs, poolVars>>

\* The route-debug line, the last event and the end of the coroutine.
Finish(r) ==
  /\ pc[r] = "finishing"
  /\ IF r \notin Streams \/ answer[r] > 0 THEN Log(r, "route") ELSE UNCHANGED logs
  /\ IF r \in Streams THEN Send(r, <<"done">>) ELSE UNCHANGED <<out, dead>>
  /\ Leave(r)
  /\ UNCHANGED <<server, timed, onLoop, history, stored, answer, gone, outcome>>

-------------------------------------------------------------------------------
(* The world, and the system                                               *)

\* The browser closes the connection of a stream.
PeerLeaves(r) ==
  /\ r \in Leavers
  /\ InFlight(r)
  /\ ~gone[r]
  /\ gone' = [gone EXCEPT ![r] = TRUE]
  /\ UNCHANGED <<server, timed, pc, onLoop, counts, history, stored, answer, dead, out, outcome, logs, poolVars>>

\* The TTL of a session key passes.
Expire(s) ==
  /\ stored[s] # <<>>
  /\ stored' = [stored EXCEPT ![s] = <<>>]
  /\ UNCHANGED <<server, timed, pc, onLoop, counts, history, answer, gone, dead, out, outcome, logs, poolVars>>

Arrive(r) == Malformed(r) \/ Locate(r) \/ Call(r)

\* /ask and /ask/stream at the limiter, straight from the client or from the
\* lookup of the address.
Enter(r) == TooMany(r) \/ Admit(r)

\* The coroutine goes on; every call it awaits ends.
Proceed(r) ==
  \/ pc[r] = "locating" /\ Enter(r)
  \/ Probed(r) \/ Located(r) \/ Assembled(r) \/ Pin(r) \/ FailStream(r) \/ Load(r)
  \/ Announce(r) \/ Acquire(r) \/ Granted(r)
  \/ Generated(r) \/ Replied(r) \/ GenerationFailed(r) \/ Save(r) \/ Finish(r)

Next ==
  \/ \E r \in Requests : Arrive(r) \/ Enter(r) \/ Proceed(r) \/ Token(r) \/ TimedOut(r) \/ PeerLeaves(r)
  \/ \E s \in Sessions : Expire(s)

Spec == Init /\ [][Next]_vars

\* Upstream calls have time-outs and the idle timer ends a stream that stalls,
\* so that every await returns; no permit need ever time out.
Fairness == \A r \in Requests : WF_vars(Proceed(r))

FairSpec == Spec /\ Fairness

-------------------------------------------------------------------------------
(* Properties                                                              *)

Admitted(r) == InFlight(r) /\ r \notin Tools /\ (pc[r] = "locating" => r \in Streams)

\* The limiter's count of an address is the number of its requests it let in,
\* whichever of their many exits requests take: no request keeps or loses the
\* permit of another (IpLimiter::Permit).
IpAccounted ==
  \A i \in Ips : counts[i] = Cardinality({r \in Requests : IpOf[r] = i /\ Admitted(r)})

\* A request talks to the LLM, and stores its answer, with one permit, and no
\* request that has ended owns or waits for one.
GeneratesWithPermit ==
  \A r \in Requests :
    /\ pc[r] \in {"repin_generate", "generating", "saving", "finishing"} => Cardinality(Owned(r)) = 1
    /\ ~InFlight(r) => Owned(r) = {} /\ \A i \in DOMAIN line : line[i][1] # r

\* Events are sent from the loop that owns the client's connection, which
\* re-pins 1 and 2 are there for (main.cpp:1571 and 1835).
SendsOnClientLoop ==
  [][\A r \in Requests : out'[r] # out[r] \/ dead'[r] # dead[r] => onLoop[r]]_vars

\* A client that stays until the end is told so, and told of every failure.
ClientIsTold ==
  \A r \in Streams : pc[r] = "done" /\ ~gone[r] =>
    /\ outcome[r] \in {"ok", "unavailable"} => out[r] # <<>> /\ Last(out[r]) = "done"
    /\ outcome[r] = "unavailable" <=> Contains(out[r], "error")

\* What Redis has of a session is whole turns, at most max_turns of them, and
\* each turn once, however many requests of the session save it.
SessionPaired ==
  \A s \in Sessions : \E n \in 0 .. MaxTurns :
    \E turns \in [1 .. n -> Turns] :
      /\ IsInjective(turns)
      /\ stored[s] = Transcript(turns)

\* Every request ends, whatever the others do.
RequestEnds == \A r \in Requests : InFlight(r) ~> pc[r] = "done"

===============================================================================
